------------------------------ MODULE EditsProofs -----------------------------
(***************************************************************************)
(* Theorems about the corrections of what the decompiler guessed, for any  *)
(* programs, any length of the journal and any bounds on a behaviour: the  *)
(* index of names is Ghidra's, and an undo puts back what was there.       *)
(***************************************************************************)
EXTENDS Edits, SequenceTheorems, WellFoundedInduction, TLAPS

-----------------------------------------------------------------------------
(* The invariant.                                                          *)

\* What is written of a program.
Words == Things \cup {"", "a", "c", "s_g", "int", "chars", "undefined", "agent"}

Values == [name : Words, type : Words, text : Words]

AllEdits ==
    [op : {"rename", "retype", "comment"}, kind : {"function", "line", "variable", "global"},
     symbol : Int, name : Words, value : Values, author : Words]

Shapes == [names : [Things -> Words], types : [Things -> Words], text : Words, mark : Words,
           own : BOOLEAN]

\* Everything has a name, no two variables have one name, and a name of Ghidra's
\* own is the one it makes up.
Sane ==
    {p \in Shapes :
        /\ \A t \in Things : p.names[t] # ""
        /\ p.names["v1"] # p.names["v2"]
        /\ p.own => p.names["g"] = Label(p.types["g"])}

\* A comment is on a line, nothing else is, and nothing is given an empty name.
Good(edit) ==
    /\ edit \in AllEdits
    /\ edit.op = "comment" <=> edit.kind = "line"
    /\ edit.op = "rename" \/ (edit.op = "retype" /\ edit.kind = "function") => edit.value.name # ""

\* What undoing makes of the program that reads as the edit left it is what was
\* there before the edit, whatever the ids are by then.
Reverses(edit, before, after) ==
    \A p \in Sane, numbers \in [Variables -> Int] :
       ReadsAs(p, after) =>
          /\ ~Refused(p, numbers, edit)
          /\ \A t \in Target(p, numbers, edit) : ReadsAs(Made(p, t, edit).p, before)

\* Relabelled, of an inverse and the programs around its edit.
Relabels(edit, before, after) ==
    edit.op = "retype" /\ before.names["g"] # after.names["g"]

Undoable(edit, before, after) ==
    Relabels(edit, before, after) \/ Reverses(edit, before, after)

Entries ==
    [edit : AllEdits, run : Nat, author : Words, prog : Programs, before : Sane, after : Sane]

Sound(entry) == Good(entry.edit) /\ Undoable(entry.edit, entry.before, entry.after)

Indexes == [of : Nat, names : SUBSET (Things \X Words), listed : SUBSET Listed]

AllWorlds ==
    [client : [program : Programs, number : Nat],
     db : [Programs -> Sane], disk : [Programs -> Sane],
     ids : [Variables -> Int],
     journal : Seq(Entries), runSeq : Nat,
     index : Indexes,
     count : [edits : Nat, faults : Nat, deaths : Nat]]

\* A run is one author's, and has been counted.
Runs(j, n) ==
    /\ \A i \in 1 .. Len(j) : Sound(j[i]) /\ j[i].run <= n
    /\ \A i, k \in 1 .. Len(j) : j[i].run = j[k].run => j[i].author = j[k].author

Kept(w) == w \in AllWorlds /\ Runs(w.journal, w.runSeq)

\* An index is of a Ghidra there has been, and not of the one to come.
Numbered(w) ==
    /\ w.client.number # 0 => w.client.number = w.count.deaths + 1
    /\ w.index.of <= w.count.deaths + 1
    /\ w.client.number = 0 => w.index.of <= w.count.deaths

\* IndexCurrent, of any world.
Current(w) ==
    w.client.number # 0 /\ w.index.of = w.client.number /\ w.count.faults = 0 =>
       w.index.names = NamesOf(w.db[w.client.program], w.index.listed)

Views == [names : [Things -> Words \ {""}], ids : [Variables -> Int]]

EditsInv ==
    /\ setting \in Settings
    /\ loaded \in Programs
    /\ view \in Views
    /\ Kept(World)
    /\ Numbered(World)
    /\ Current(World)

-----------------------------------------------------------------------------
(* Ghidra: what an edit does, and what its inverse does.                    *)

LEMMA SaneFields ==
    ASSUME NEW p \in Sane
    PROVE  /\ p \in Shapes
           /\ \A t \in Things : p.names[t] # "" /\ p.names[t] \in Words /\ p.types[t] \in Words
           /\ p.names["v1"] # p.names["v2"]
           /\ p.names \in [Things -> Words] /\ p.types \in [Things -> Words]
           /\ p.text \in Words /\ p.mark \in Words /\ p.own \in BOOLEAN
           /\ p.own => p.names["g"] = Label(p.types["g"])
BY DEF Sane, Shapes

LEMMA EditFields ==
    ASSUME NEW edit \in AllEdits
    PROVE  /\ edit.op \in {"rename", "retype", "comment"}
           /\ edit.kind \in {"function", "line", "variable", "global"}
           /\ edit.symbol \in Int /\ edit.name \in Words /\ edit.author \in Words
           /\ edit.value \in Values
           /\ edit.value.name \in Words /\ edit.value.type \in Words /\ edit.value.text \in Words
BY DEF AllEdits, Values

LEMMA ValueIs ==
    ASSUME NEW name \in Words, NEW type \in Words, NEW text \in Words,
           NEW value, value = Value(name, type, text)
    PROVE  /\ value \in Values
           /\ value.name = name /\ value.type = type /\ value.text = text
BY DEF Value, Values

\* An edit lands on a thing of its kind.
LEMMA TargetIs ==
    ASSUME NEW p, NEW numbers, NEW edit \in AllEdits
    PROVE  /\ Target(p, numbers, edit) \subseteq Things
           /\ edit.kind \in {"function", "line"} => Target(p, numbers, edit) = {"F"}
           /\ edit.kind = "variable" => Target(p, numbers, edit) = SymbolIn(p, numbers, edit)
           /\ edit.kind = "variable" => Target(p, numbers, edit) \subseteq Variables
           /\ edit.kind = "global" =>
                 Target(p, numbers, edit) = {t \in {"g"} : edit.name \in {"", p.names[t]}}
<1>1. edit.kind \in {"function", "line", "variable", "global"}
  BY EditFields
<1>2. edit.kind \in {"function", "line"} => Target(p, numbers, edit) = {"F"}
  BY DEF Target
<1>3. edit.kind = "variable" => Target(p, numbers, edit) = SymbolIn(p, numbers, edit)
  BY DEF Target
<1>4. edit.kind = "global" =>
         Target(p, numbers, edit) = {t \in {"g"} : edit.name \in {"", p.names[t]}}
  BY DEF Target
<1>5. SymbolIn(p, numbers, edit) \subseteq Variables
  BY DEF SymbolIn
<1> QED
  BY <1>1, <1>2, <1>3, <1>4, <1>5 DEF Things, Variables

\* What lands on the function is an edit of it or of one of its lines.
LEMMA OnFunction ==
    ASSUME NEW p, NEW numbers, NEW edit \in AllEdits, NEW t \in Target(p, numbers, edit), t = "F"
    PROVE  edit.kind \in {"function", "line"}
<1>1. PICK hits : hits = Target(p, numbers, edit)
  OBVIOUS
<1>2. /\ edit.kind = "variable" => hits \subseteq Variables
      /\ edit.kind = "global" => hits \subseteq {"g"}
  <2>1. edit.kind = "variable" => Target(p, numbers, edit) \subseteq Variables
    BY TargetIs
  <2>2. edit.kind = "global" =>
           Target(p, numbers, edit) = {x \in {"g"} : edit.name \in {"", p.names[x]}}
    BY TargetIs
  <2> QED
    BY <1>1, <2>1, <2>2
<1>3. t \in hits /\ t \notin Variables /\ t # "g"
  BY <1>1 DEF Variables
<1>4. edit.kind # "variable"
  BY <1>2, <1>3
<1>5. edit.kind # "global"
  BY <1>2, <1>3
<1>6. edit.kind \in {"function", "line", "variable", "global"}
  BY EditFields
<1> QED
  BY <1>4, <1>5, <1>6

WithName(p, t, x, own) == [p EXCEPT !.names[t] = x, !.own = own]
WithType(p, t, x) == [p EXCEPT !.types[t] = x]
WithText(p, x, author) == [p EXCEPT !.text = x, !.mark = IF x = "" THEN "" ELSE author]

LEMMA ShapeFields ==
    ASSUME NEW p \in Shapes
    PROVE  /\ p.names \in [Things -> Words] /\ p.types \in [Things -> Words]
           /\ p.text \in Words /\ p.mark \in Words /\ p.own \in BOOLEAN
           /\ p = [names |-> p.names, types |-> p.types, text |-> p.text, mark |-> p.mark,
                   own |-> p.own]
BY DEF Shapes

\* One name changed.
LEMMA NameChanged ==
    ASSUME NEW p \in Shapes, NEW t \in Things, NEW x \in Words, NEW own \in BOOLEAN, NEW q,
           q = WithName(p, t, x, own)
    PROVE  /\ q \in Shapes
           /\ q.names[t] = x /\ \A u \in Things \ {t} : q.names[u] = p.names[u]
           /\ q.types = p.types /\ q.text = p.text /\ q.own = own
<1>1. /\ p.names \in [Things -> Words] /\ p.types \in [Things -> Words]
      /\ p.text \in Words /\ p.mark \in Words
  BY ShapeFields
<1>2. q = [names |-> [p.names EXCEPT ![t] = x], types |-> p.types, text |-> p.text,
           mark |-> p.mark, own |-> own]
  BY DEF Shapes, WithName
<1> QED
  BY <1>1, <1>2 DEF Shapes

\* One type changed.
LEMMA TypeChanged ==
    ASSUME NEW p \in Shapes, NEW t \in Things, NEW x \in Words, NEW q,
           q = WithType(p, t, x)
    PROVE  /\ q \in Shapes
           /\ q.types[t] = x /\ \A u \in Things \ {t} : q.types[u] = p.types[u]
           /\ q.names = p.names /\ q.text = p.text /\ q.own = p.own
<1>1. /\ p.names \in [Things -> Words] /\ p.types \in [Things -> Words]
      /\ p.text \in Words /\ p.mark \in Words /\ p.own \in BOOLEAN
  BY ShapeFields
<1>2. q = [names |-> p.names, types |-> [p.types EXCEPT ![t] = x], text |-> p.text,
           mark |-> p.mark, own |-> p.own]
  BY DEF Shapes, WithType
<1> QED
  BY <1>1, <1>2 DEF Shapes

\* A name nobody else has is as good as the one before.
LEMMA NameSane ==
    ASSUME NEW p \in Sane, NEW t \in Things, NEW x \in Words, x # "", ~Taken(p, t, x),
           NEW q \in Shapes,
           q.names[t] = x, \A u \in Things \ {t} : q.names[u] = p.names[u],
           q.own => q.names["g"] = Label(q.types["g"])
    PROVE  q \in Sane
<1>1. \A u \in Things : q.names[u] # ""
  BY SaneFields
<1>2. q.names["v1"] # q.names["v2"]
  <2>1. p.names["v1"] # p.names["v2"]
    BY SaneFields
  <2>2. CASE t = "v1"
    BY <2>2 DEF Taken, Variables, Things
  <2>3. CASE t = "v2"
    BY <2>3 DEF Taken, Variables, Things
  <2>4. CASE t \notin {"v1", "v2"}
    BY <2>1, <2>4 DEF Things, Variables
  <2> QED
    BY <2>2, <2>3, <2>4
<1> QED
  BY <1>1, <1>2 DEF Sane

\* What a thing was called before is free for it afterwards.
LEMMA OldNameFree ==
    ASSUME NEW b \in Sane, NEW p \in Sane, NEW t \in Things,
           \A u \in Things \ {t} : p.names[u] = b.names[u]
    PROVE  ~Taken(p, t, b.names[t])
<1>1. b.names["v1"] # b.names["v2"]
  BY SaneFields
<1> QED
  BY <1>1 DEF Taken, Variables, Things

\* Who is given a name: what is renamed, and a function given a prototype.
Names(edit, t) == edit.op = "rename" \/ (edit.op = "retype" /\ t = "F")

\* And a global whose name Ghidra makes up.
Labels(p, edit, t) == edit.op = "retype" /\ t = "g" /\ p.own

LEMMA MadeByRename ==
    ASSUME NEW p \in Sane, NEW t \in Things, NEW edit \in AllEdits, edit.op = "rename",
           NEW m, m = Made(p, t, edit)
    PROVE  /\ \E own \in BOOLEAN :
                 /\ m.p = WithName(p, t, edit.value.name, own)
                 /\ own => p.own /\ t # "g"
           /\ m.now = edit.value.name
           /\ m.was \in Values /\ m.was.name = p.names[t]
<1>0. p.own \in BOOLEAN
  BY SaneFields
<1>o. PICK own \in BOOLEAN : own = (p.own /\ t # "g")
  BY <1>0
<1>1. PICK q : q = WithName(p, t, edit.value.name, own)
  OBVIOUS
<1>e. PICK empty \in Words : empty = ""
  BY DEF Words
<1>2. PICK old : old = Value(p.names[t], empty, empty)
  OBVIOUS
<1>3. m = [p |-> q, was |-> old, now |-> edit.value.name]
  BY <1>1, <1>e, <1>o, <1>2 DEF Made, WithName
<1>4. m.p = q /\ m.was = old /\ m.now = edit.value.name
  BY <1>3
<1>5. p.names[t] \in Words
  BY SaneFields
<1>6. old \in Values /\ old.name = p.names[t]
  BY <1>2, <1>5, ValueIs
<1> QED
  BY <1>o, <1>1, <1>4, <1>6

\* A type, and a name with it: a prototype's, or the one Ghidra makes up.
LEMMA MadeByRetype ==
    ASSUME NEW p \in Sane, NEW t \in Things, NEW edit \in AllEdits, edit.op = "retype",
           NEW m, m = Made(p, t, edit)
    PROVE  /\ \E x \in Words :
                 /\ m.p = WithName(WithType(p, t, edit.value.type), t, x, p.own)
                 /\ t = "F" => x = edit.value.name /\ m.now = x /\ m.was.name = p.names[t]
                 /\ Labels(p, edit, t) => x = Label(edit.value.type)
                 /\ t # "F" /\ ~Labels(p, edit, t) => x = p.names[t]
           /\ t # "F" => m.now = p.names[t]
           /\ m.was \in Values /\ m.was.type = p.types[t]
<1>0. p.own \in BOOLEAN /\ p.names[t] \in Words /\ p.types[t] \in Words
  BY SaneFields
<1>1. edit.value.name \in Words /\ Label(edit.value.type) \in Words
  BY EditFields DEF Label, Words, Things
<1>2. PICK x \in Words :
         x = IF t = "F" THEN edit.value.name
             ELSE IF t = "g" /\ p.own THEN Label(edit.value.type) ELSE p.names[t]
  BY <1>0, <1>1
<1>3. PICK r : r = WithType(p, t, edit.value.type)
  OBVIOUS
<1>4. r \in Shapes /\ r.names = p.names /\ r.own = p.own
  <2>1. PICK y \in Words : y = edit.value.type
    BY EditFields
  <2>2. p \in Shapes /\ r = WithType(p, t, y)
    BY <1>3, <2>1, SaneFields
  <2> QED
    BY <2>2, TypeChanged
<1>5. PICK q : q = [r EXCEPT !.names[t] = x]
  OBVIOUS
<1>6. q = WithName(r, t, x, p.own)
  <2>1. PICK a, b, c, d, e : r = [names |-> a, types |-> b, text |-> c, mark |-> d, own |-> e]
    BY <1>4, ShapeFields
  <2>2. e = p.own
    BY <1>4, <2>1
  <2>3. q = [names |-> [a EXCEPT ![t] = x], types |-> b, text |-> c, mark |-> d, own |-> e]
    BY <1>5, <2>1
  <2>4. WithName(r, t, x, e) =
           [names |-> [a EXCEPT ![t] = x], types |-> b, text |-> c, mark |-> d, own |-> e]
    <3>1. WithName(r, t, x, e) = [[r EXCEPT !.names[t] = x] EXCEPT !.own = e]
      BY DEF WithName
    <3>2. WithName(r, t, x, e) = [q EXCEPT !.own = e]
      BY <1>5, <3>1
    <3>3. q = [q EXCEPT !.own = e]
      BY <2>3
    <3> QED
      BY <2>3, <3>2, <3>3
  <2> QED
    BY <2>2, <2>3, <2>4
<1>e. PICK empty \in Words : empty = ""
  BY DEF Words
<1>7. CASE t = "F"
  <2>1. PICK old : old = Value(p.names[t], p.types[t], empty)
    OBVIOUS
  <2>2. m = [p |-> q, was |-> old, now |-> x]
    BY <1>2, <1>3, <1>5, <1>7, <1>e, <2>1 DEF Made, WithType
  <2>3. m.p = q /\ m.was = old /\ m.now = x
    BY <2>2
  <2>4. old \in Values /\ old.name = p.names[t] /\ old.type = p.types[t]
    BY <1>0, <2>1, ValueIs
  <2> QED
    BY <1>2, <1>3, <1>6, <1>7, <2>3, <2>4 DEF Labels
<1>8. CASE t # "F"
  <2>1. PICK old : old = Value(empty, p.types[t], empty)
    OBVIOUS
  <2>2. q = [r EXCEPT !.names[t] = IF t = "g" /\ p.own THEN Label(edit.value.type) ELSE @]
    BY <1>2, <1>4, <1>5, <1>8
  <2>3. m = [p |-> q, was |-> old, now |-> p.names[t]]
    BY <1>3, <1>8, <1>e, <2>1, <2>2 DEF Made, WithType
  <2>4. m.p = q /\ m.was = old /\ m.now = p.names[t]
    BY <2>3
  <2>5. old \in Values /\ old.type = p.types[t]
    BY <1>0, <2>1, ValueIs
  <2> QED
    BY <1>2, <1>3, <1>6, <1>8, <2>4, <2>5 DEF Labels
<1> QED
  BY <1>7, <1>8

LEMMA MadeByComment ==
    ASSUME NEW p \in Sane, NEW t \in Things, NEW edit \in AllEdits, edit.op = "comment",
           NEW m, m = Made(p, t, edit)
    PROVE  /\ m.p = WithText(p, edit.value.text, edit.author)
           /\ m.was \in Values /\ m.was.text = p.text
<1>1. m.p = WithText(p, edit.value.text, edit.author) /\ m.was = Value("", "", p.text)
  BY DEF Made, WithText
<1>2. PICK empty \in Words : empty = ""
  BY DEF Words
<1>3. m.was = Value(empty, empty, p.text) /\ p.text \in Words
  BY <1>1, <1>2, SaneFields
<1>4. m.was \in Values /\ m.was.text = p.text
  BY <1>3, ValueIs
<1> QED
  BY <1>1, <1>4

\* What an edit that is not refused makes, and what there was before it.
LEMMA MadeIs ==
    ASSUME NEW p \in Sane, NEW numbers, NEW edit, Good(edit),
           NEW t \in Target(p, numbers, edit), ~Refused(p, numbers, edit),
           NEW m, m = Made(p, t, edit)
    PROVE  /\ t \in Things
           /\ m.p \in Sane
           /\ m.was \in Values
           /\ Names(edit, t) => m.p.names[t] = edit.value.name /\ m.was.name = p.names[t]
           /\ \A u \in Things \ {t} : m.p.names[u] = p.names[u]
           /\ ~Names(edit, t) /\ ~Labels(p, edit, t) => m.p.names[t] = p.names[t]
           /\ Labels(p, edit, t) => m.p.names[t] = Label(edit.value.type)
           /\ edit.op = "retype" => m.p.types[t] = edit.value.type /\ m.was.type = p.types[t]
           /\ \A u \in Things : ~(edit.op = "retype" /\ u = t) => m.p.types[u] = p.types[u]
           /\ edit.op = "comment" => m.p.text = edit.value.text /\ m.was.text = p.text
           /\ edit.op # "comment" => m.p.text = p.text
           /\ edit.op # "comment" /\ ~Names(edit, t) => m.now = p.names[t]
           /\ Names(edit, t) => m.now = m.p.names[t]
           /\ m.p.own => p.own
<1>1. edit \in AllEdits
  BY DEF Good
<1>2. /\ edit.op \in {"rename", "retype", "comment"}
      /\ edit.value.name \in Words /\ edit.value.type \in Words /\ edit.value.text \in Words
      /\ edit.author \in Words
  BY <1>1, EditFields
<1>3. t \in Things
  BY <1>1, TargetIs
<1>4. /\ p.names[t] \in Words /\ p.types[t] \in Words /\ p.text \in Words
      /\ p \in Shapes /\ p.own \in BOOLEAN
      /\ p.own => p.names["g"] = Label(p.types["g"])
  BY <1>3, SaneFields
<1>5. CASE edit.op = "rename"
  <2>1. /\ m.was \in Values /\ m.was.name = p.names[t] /\ m.now = edit.value.name
    BY <1>1, <1>3, <1>5, MadeByRename
  <2>o. PICK own \in BOOLEAN : /\ m.p = WithName(p, t, edit.value.name, own)
                               /\ own => p.own /\ t # "g"
    BY <1>1, <1>3, <1>5, MadeByRename
  <2>2. edit.value.name # "" /\ ~Taken(p, t, edit.value.name)
    BY <1>5 DEF Good, Refused
  <2>3. /\ m.p \in Shapes
        /\ m.p.names[t] = edit.value.name /\ \A u \in Things \ {t} : m.p.names[u] = p.names[u]
        /\ m.p.types = p.types /\ m.p.text = p.text /\ m.p.own = own
    <3>1. PICK x \in Words : x = edit.value.name
      BY <1>2
    <3>2. p \in Shapes /\ m.p = WithName(p, t, x, own)
      BY <1>4, <2>o, <3>1
    <3>3. /\ m.p \in Shapes
          /\ m.p.names[t] = x /\ \A u \in Things \ {t} : m.p.names[u] = p.names[u]
          /\ m.p.types = p.types /\ m.p.text = p.text /\ m.p.own = own
      BY <1>3, <3>2, NameChanged
    <3> QED
      BY <3>1, <3>3
  <2>g. m.p.own => m.p.names["g"] = Label(m.p.types["g"])
    BY <1>4, <2>o, <2>3 DEF Things
  <2>4. m.p \in Sane
    BY <1>2, <1>3, <2>2, <2>3, <2>g, NameSane
  <2>5. Names(edit, t) /\ edit.op # "retype" /\ edit.op # "comment" /\ ~Labels(p, edit, t)
    BY <1>5 DEF Names, Labels
  <2> QED
    BY <1>3, <2>1, <2>o, <2>3, <2>4, <2>5
<1>6. CASE edit.op = "retype"
  <2>0. PICK q : q = WithType(p, t, edit.value.type)
    OBVIOUS
  <2>1. /\ m.was \in Values /\ m.was.type = p.types[t]
        /\ t # "F" => m.now = p.names[t]
    BY <1>1, <1>3, <1>6, MadeByRetype
  <2>x. PICK x \in Words :
           /\ m.p = WithName(q, t, x, p.own)
           /\ t = "F" => x = edit.value.name /\ m.now = x /\ m.was.name = p.names[t]
           /\ Labels(p, edit, t) => x = Label(edit.value.type)
           /\ t # "F" /\ ~Labels(p, edit, t) => x = p.names[t]
    BY <1>1, <1>3, <1>6, <2>0, MadeByRetype
  <2>2. /\ q \in Shapes
        /\ q.types[t] = edit.value.type /\ \A u \in Things \ {t} : q.types[u] = p.types[u]
        /\ q.names = p.names /\ q.text = p.text
    <3>1. PICK y \in Words : y = edit.value.type
      BY <1>2
    <3>2. p \in Shapes /\ q = WithType(p, t, y)
      BY <1>4, <2>0, <3>1
    <3>3. /\ q \in Shapes
          /\ q.types[t] = y /\ \A u \in Things \ {t} : q.types[u] = p.types[u]
          /\ q.names = p.names /\ q.text = p.text
      BY <1>3, <3>2, TypeChanged
    <3> QED
      BY <3>1, <3>3
  <2>3. x # ""
    <3>1. CASE t = "F"
      <4>1. edit.kind \in {"function", "line"}
        BY <1>1, <3>1, OnFunction
      <4>2. edit.kind # "line"
        BY <1>6 DEF Good
      <4> QED
        BY <1>6, <2>x, <3>1, <4>1, <4>2 DEF Good
    <3>2. CASE t # "F"
      <4>1. p.names[t] # ""
        BY <1>3, SaneFields
      <4>2. Label(edit.value.type) # ""
        BY DEF Label
      <4> QED
        BY <2>x, <3>2, <4>1, <4>2
    <3> QED
      BY <3>1, <3>2
  <2>4. ~Taken(p, t, x)
    <3>1. CASE t \in Variables
      <4>1. ~Taken(p, t, p.names[t])
        BY <1>3, OldNameFree
      <4>2. x = p.names[t]
        BY <2>x, <3>1 DEF Labels, Variables
      <4> QED
        BY <4>1, <4>2
    <3>2. CASE t \notin Variables
      BY <3>2 DEF Taken
    <3> QED
      BY <3>1, <3>2
  <2>5. /\ m.p \in Shapes
        /\ m.p.names[t] = x /\ \A u \in Things \ {t} : m.p.names[u] = p.names[u]
        /\ m.p.types = q.types /\ m.p.text = p.text /\ m.p.own = p.own
    <3>1. PICK own \in BOOLEAN : own = p.own
      BY <1>4
    <3>2. m.p = WithName(q, t, x, own)
      BY <2>x, <3>1
    <3>3. /\ m.p \in Shapes
          /\ m.p.names[t] = x /\ \A u \in Things \ {t} : m.p.names[u] = q.names[u]
          /\ m.p.types = q.types /\ m.p.text = q.text /\ m.p.own = own
      BY <1>3, <2>2, <3>2, NameChanged
    <3> QED
      BY <2>2, <3>1, <3>3
  <2>g. m.p.own => m.p.names["g"] = Label(m.p.types["g"])
    <3>1. CASE t = "g"
      BY <1>6, <2>x, <2>2, <2>5, <3>1 DEF Labels
    <3>2. CASE t # "g"
      BY <1>4, <2>2, <2>5, <3>2 DEF Things
    <3> QED
      BY <3>1, <3>2
  <2>6. m.p \in Sane
    <3>1. PICK z \in Shapes : z = m.p
      BY <2>5
    <3>2. /\ z.names[t] = x /\ \A u \in Things \ {t} : z.names[u] = p.names[u]
          /\ z.own => z.names["g"] = Label(z.types["g"])
      BY <2>5, <2>g, <3>1
    <3>3. z \in Sane
      BY <1>3, <2>3, <2>4, <3>2, NameSane
    <3> QED
      BY <3>1, <3>3
  <2>7. (Names(edit, t) <=> t = "F") /\ edit.op # "comment"
    BY <1>6 DEF Names
  <2>8. t = "F" => ~Labels(p, edit, t)
    BY DEF Labels
  <2> QED
    BY <1>3, <1>6, <2>1, <2>x, <2>2, <2>5, <2>6, <2>7, <2>8
<1>7. CASE edit.op = "comment"
  <2>1. PICK mark \in Words : mark = IF edit.value.text = "" THEN "" ELSE edit.author
    BY <1>2 DEF Words
  <2>2. /\ m.p = WithText(p, edit.value.text, edit.author)
        /\ m.was \in Values /\ m.was.text = p.text
    BY <1>1, <1>3, <1>7, MadeByComment
  <2>3. m.p = [names |-> p.names, types |-> p.types, text |-> edit.value.text, mark |-> mark,
               own |-> p.own]
    BY <2>1, <2>2 DEF Sane, Shapes, WithText
  <2>4. m.p \in Sane
    <3>1. m.p \in Shapes /\ m.p.names = p.names /\ m.p.types = p.types /\ m.p.own = p.own
      <4>1. p.names \in [Things -> Words] /\ p.types \in [Things -> Words] /\ p.own \in BOOLEAN
        BY SaneFields
      <4>2. PICK text \in Words : text = edit.value.text
        BY <1>2
      <4>3. PICK names \in [Things -> Words], types \in [Things -> Words], own \in BOOLEAN :
               names = p.names /\ types = p.types /\ own = p.own
        BY <4>1
      <4>4. m.p = [names |-> names, types |-> types, text |-> text, mark |-> mark, own |-> own]
        BY <2>3, <4>2, <4>3
      <4>5. m.p \in Shapes /\ m.p.names = names /\ m.p.types = types /\ m.p.own = own
        BY <4>4 DEF Shapes
      <4> QED
        BY <4>3, <4>5
    <3> QED
      BY <3>1 DEF Sane
  <2>5. ~Names(edit, t) /\ edit.op # "retype" /\ ~Labels(p, edit, t)
    BY <1>7 DEF Names, Labels
  <2> QED
    BY <1>3, <1>7, <2>2, <2>3, <2>4, <2>5
<1> QED
  BY <1>2, <1>5, <1>6, <1>7

\* The inverse of an edit is an edit of the same thing by the name it has now.
LEMMA InverseFields ==
    ASSUME NEW edit \in AllEdits, NEW r, r.was \in Values, edit.op # "comment" => r.now \in Words,
           NEW inv, inv = InverseOf(edit, r)
    PROVE  /\ inv \in AllEdits
           /\ inv.op = edit.op /\ inv.kind = edit.kind /\ inv.author = edit.author
           /\ inv.value = r.was
           /\ edit.op # "comment" => inv.name = r.now
<1>1. CASE edit.op = "comment"
  <2>1. inv = [edit EXCEPT !.value = r.was]
    BY <1>1 DEF InverseOf
  <2> QED
    BY <1>1, <2>1 DEF AllEdits
<1>2. CASE edit.op # "comment"
  <2>1. inv = [edit EXCEPT !.symbol = 0, !.name = r.now, !.value = r.was]
    BY <1>2 DEF InverseOf
  <2>2. inv = [op |-> edit.op, kind |-> edit.kind, symbol |-> 0, name |-> r.now,
               value |-> r.was, author |-> edit.author]
    BY <2>1 DEF AllEdits
  <2>3. /\ edit.op \in {"rename", "retype", "comment"}
        /\ edit.kind \in {"function", "line", "variable", "global"}
        /\ edit.author \in Words
    BY EditFields
  <2>4. /\ inv.op = edit.op /\ inv.kind = edit.kind /\ inv.author = edit.author
        /\ inv.value = r.was /\ inv.name = r.now /\ inv.symbol = 0
    BY <2>2
  <2>5. inv \in AllEdits
    BY <1>2, <2>2, <2>3 DEF AllEdits
  <2> QED
    BY <2>4, <2>5
<1> QED
  BY <1>1, <1>2

\* Two programs that read the same, name by name.
LEMMA SameText ==
    ASSUME NEW p \in Sane, NEW q \in Sane,
           \A u \in Things : p.names[u] = q.names[u] /\ p.types[u] = q.types[u],
           p.text = q.text, p.own => q.own
    PROVE  ReadsAs(p, q)
<1>1. p.names \in [Things -> Words] /\ q.names \in [Things -> Words]
  BY SaneFields
<1>2. p.types \in [Things -> Words] /\ q.types \in [Things -> Words]
  BY SaneFields
<1>3. p.names = q.names
  BY <1>1
<1>4. p.types = q.types
  BY <1>2
<1> QED
  BY <1>3, <1>4 DEF ReadsAs, Text

\* A thing's name finds that thing and no other.
LEMMA FoundByName ==
    ASSUME NEW p \in Sane, NEW numbers, NEW edit \in AllEdits,
           NEW t \in Things, edit.kind = Kind(t), edit.name = p.names[t]
    PROVE  Target(p, numbers, edit) = {t}
<1>1. edit.name # ""
  BY SaneFields
<1>2. CASE t = "F"
  <2>1. edit.kind = "function"
    BY <1>2 DEF Kind
  <2> QED
    BY <1>2, <2>1, TargetIs
<1>3. CASE t = "g"
  <2>1. edit.kind = "global"
    BY <1>3 DEF Kind
  <2>2. Target(p, numbers, edit) = {u \in {"g"} : edit.name \in {"", p.names[u]}}
    BY <2>1, TargetIs
  <2> QED
    BY <1>3, <2>2
<1>4. CASE t \in Variables
  <2>1. edit.kind = "variable"
    BY <1>4 DEF Kind, Variables
  <2>2. Target(p, numbers, edit) = SymbolIn(p, numbers, edit)
    BY <2>1, TargetIs
  <2>3. SymbolIn(p, numbers, edit) = {v \in Variables : p.names[v] = edit.name}
    BY <1>1 DEF SymbolIn
  <2>4. p.names["v1"] # p.names["v2"]
    BY SaneFields
  <2> QED
    BY <1>4, <2>2, <2>3, <2>4 DEF Variables
<1> QED
  BY <1>2, <1>3, <1>4 DEF Things

\* The kind of what an edit lands on, but for a comment.
LEMMA KindOfTarget ==
    ASSUME NEW p, NEW numbers, NEW edit \in AllEdits, edit.kind # "line",
           NEW t \in Target(p, numbers, edit)
    PROVE  edit.kind = Kind(t)
<1>1. edit.kind \in {"function", "variable", "global"}
  BY EditFields
<1>2. CASE edit.kind = "function"
  BY <1>2, TargetIs DEF Kind
<1>3. CASE edit.kind = "variable"
  BY <1>3, TargetIs DEF Kind, Variables
<1>4. CASE edit.kind = "global"
  <2>1. t \in {"g"}
    BY <1>4, TargetIs
  <2> QED
    BY <1>4, <2>1 DEF Kind
<1> QED
  BY <1>1, <1>2, <1>3, <1>4

\* The inverse of an edit undoes it, whatever the ids are by then, unless the
\* edit gave what it typed another name.
LEMMA Inverts ==
    ASSUME NEW b \in Sane, NEW numbers, NEW edit, Good(edit),
           NEW t \in Target(b, numbers, edit), ~Refused(b, numbers, edit),
           NEW m, m = Made(b, t, edit),
           NEW r, r.was = m.was, r.now = m.now
    PROVE  Good(InverseOf(edit, r)) /\ Undoable(InverseOf(edit, r), b, m.p)
<1>1. edit \in AllEdits /\ edit.op \in {"rename", "retype", "comment"}
  BY EditFields DEF Good
<1>2. PICK inv : inv = InverseOf(edit, r)
  OBVIOUS
<1>3. /\ t \in Things
      /\ m.p \in Sane
      /\ m.was \in Values
      /\ Names(edit, t) => m.p.names[t] = edit.value.name /\ m.was.name = b.names[t]
      /\ \A u \in Things \ {t} : m.p.names[u] = b.names[u]
      /\ ~Names(edit, t) /\ ~Labels(b, edit, t) => m.p.names[t] = b.names[t]
      /\ edit.op = "retype" => m.p.types[t] = edit.value.type /\ m.was.type = b.types[t]
      /\ \A u \in Things : ~(edit.op = "retype" /\ u = t) => m.p.types[u] = b.types[u]
      /\ edit.op = "comment" => m.p.text = edit.value.text /\ m.was.text = b.text
      /\ edit.op # "comment" => m.p.text = b.text
      /\ edit.op # "comment" /\ ~Names(edit, t) => m.now = b.names[t]
      /\ Names(edit, t) => m.now = m.p.names[t]
      /\ m.p.own => b.own
  BY MadeIs
<1>4. edit.op # "comment" => m.now \in Words
  BY <1>3, SaneFields
<1>5. /\ inv \in AllEdits
      /\ inv.op = edit.op /\ inv.kind = edit.kind
      /\ inv.value = m.was
      /\ edit.op # "comment" => inv.name = m.now
  BY <1>1, <1>2, <1>3, <1>4, InverseFields
<1>k. edit.op # "comment" => edit.kind = Kind(t)
  BY <1>1, KindOfTarget DEF Good
<1>6. Good(inv)
  <2>1. edit.kind = "function" => t = "F"
    BY <1>1, TargetIs
  <2>2. inv.op = "rename" \/ (inv.op = "retype" /\ inv.kind = "function") => Names(edit, t)
    BY <1>5, <2>1 DEF Names
  <2>3. b.names[t] # ""
    BY <1>3, SaneFields
  <2>4. inv.op = "rename" \/ (inv.op = "retype" /\ inv.kind = "function") => inv.value.name # ""
    BY <1>3, <1>5, <2>2, <2>3
  <2>5. inv.op = "comment" <=> inv.kind = "line"
    BY <1>5 DEF Good
  <2> QED
    BY <1>5, <2>4, <2>5 DEF Good
<1>7. ASSUME ~Relabels(inv, b, m.p),
             NEW p \in Sane, NEW ns \in [Variables -> Int], ReadsAs(p, m.p)
      PROVE  ~Refused(p, ns, inv) /\ \A u \in Target(p, ns, inv) : ReadsAs(Made(p, u, inv).p, b)
  <2>1. /\ p.names = m.p.names /\ p.types = m.p.types /\ p.text = m.p.text
        /\ p.own => b.own
    BY <1>3, <1>7 DEF ReadsAs, Text
  <2>a. ~Names(edit, t) => m.p.names[t] = b.names[t]
    <3>1. Labels(b, edit, t) => m.p.names[t] = b.names[t]
      BY <1>5, <1>7 DEF Labels, Relabels
    <3> QED
      BY <1>3, <3>1
  <2>2. Target(p, ns, inv) = {t}
    <3>1. CASE edit.op = "comment"
      <4>1. inv.kind = "line" /\ edit.kind = "line"
        BY <1>5, <3>1 DEF Good
      <4>2. Target(p, ns, inv) = {"F"}
        BY <1>5, <4>1, TargetIs
      <4>3. t \in {"F"}
        BY <1>1, <4>1, TargetIs
      <4> QED
        BY <4>2, <4>3
    <3>2. CASE edit.op # "comment"
      <4>1. inv.name = p.names[t] /\ inv.kind = Kind(t)
        BY <1>3, <1>5, <1>k, <2>1, <2>a, <3>2
      <4> QED
        BY <1>3, <1>5, <4>1, FoundByName
    <3> QED
      BY <3>1, <3>2
  <2>3. ~Refused(p, ns, inv)
    <3>1. inv.op = "rename" => inv.value.name = b.names[t]
      BY <1>3, <1>5 DEF Names
    <3>2. \A u \in Things \ {t} : p.names[u] = b.names[u]
      BY <1>3, <2>1
    <3>3. ~Taken(p, t, b.names[t])
      BY <1>3, <3>2, OldNameFree
    <3>4. inv.op = "rename" => ~Taken(p, t, inv.value.name)
      BY <3>1, <3>3
    <3> QED
      BY <2>2, <3>4 DEF Refused
  <2>4. PICK z : z = Made(p, t, inv)
    OBVIOUS
  <2>5. /\ z.p \in Sane
        /\ Names(inv, t) => z.p.names[t] = inv.value.name
        /\ \A u \in Things \ {t} : z.p.names[u] = p.names[u]
        /\ ~Names(inv, t) /\ ~Labels(p, inv, t) => z.p.names[t] = p.names[t]
        /\ Labels(p, inv, t) => z.p.names[t] = Label(inv.value.type)
        /\ inv.op = "retype" => z.p.types[t] = inv.value.type
        /\ \A u \in Things : ~(inv.op = "retype" /\ u = t) => z.p.types[u] = p.types[u]
        /\ inv.op = "comment" => z.p.text = inv.value.text
        /\ inv.op # "comment" => z.p.text = p.text
        /\ z.p.own => p.own
    <3>1. t \in Target(p, ns, inv)
      BY <2>2
    <3> QED
      BY <1>6, <2>3, <2>4, <3>1, MadeIs
  <2>6. Names(inv, t) <=> Names(edit, t)
    BY <1>5 DEF Names
  <2>7. \A u \in Things : z.p.names[u] = b.names[u]
    <3>1. \A u \in Things \ {t} : z.p.names[u] = b.names[u]
      BY <1>3, <2>1, <2>5
    <3>2. CASE Names(inv, t)
      BY <1>3, <1>5, <2>5, <2>6, <3>1, <3>2
    <3>3. CASE Labels(p, inv, t)
      <4>1. t = "g" /\ b.own /\ edit.op = "retype"
        BY <1>5, <2>1, <3>3 DEF Labels
      <4>2. z.p.names[t] = Label(b.types[t])
        BY <1>3, <1>5, <2>5, <3>3, <4>1
      <4>3. b.names["g"] = Label(b.types["g"])
        BY <4>1, SaneFields
      <4> QED
        BY <3>1, <4>1, <4>2, <4>3
    <3>4. CASE ~Names(inv, t) /\ ~Labels(p, inv, t)
      BY <2>1, <2>a, <2>5, <2>6, <3>1, <3>4
    <3> QED
      BY <3>2, <3>3, <3>4
  <2>8. \A u \in Things : z.p.types[u] = b.types[u]
    BY <1>3, <1>5, <2>1, <2>5
  <2>9. z.p.text = b.text /\ (z.p.own => b.own)
    BY <1>3, <1>5, <2>1, <2>5
  <2>10. ReadsAs(z.p, b)
    BY <2>5, <2>7, <2>8, <2>9, SameText
  <2> QED
    BY <2>2, <2>3, <2>4, <2>10
<1>8. Undoable(inv, b, m.p)
  BY <1>7 DEF Undoable, Reverses
<1> QED
  BY <1>2, <1>6, <1>8

-----------------------------------------------------------------------------
(* What an edit that is asked for makes of the world.                       *)

LEMMA WorldFields ==
    ASSUME NEW w \in AllWorlds
    PROVE  /\ w.client \in [program : Programs, number : Nat]
           /\ w.client.program \in Programs /\ w.client.number \in Nat
           /\ w.db \in [Programs -> Sane] /\ w.disk \in [Programs -> Sane]
           /\ w.db[w.client.program] \in Sane
           /\ w.ids \in [Variables -> Int]
           /\ w.journal \in Seq(Entries) /\ w.runSeq \in Nat
           /\ w.index \in Indexes
           /\ w.count \in [edits : Nat, faults : Nat, deaths : Nat]
           /\ w.count.faults \in Nat /\ w.count.deaths \in Nat
           /\ w.index.of \in Nat /\ w.index.listed \in SUBSET Listed
           /\ w = [client |-> w.client, db |-> w.db, disk |-> w.disk, ids |-> w.ids,
                   journal |-> w.journal, runSeq |-> w.runSeq, index |-> w.index, count |-> w.count]
BY DEF AllWorlds, Indexes

\* The rest of what the actor holds.
SameActor(w, v) ==
    v.client = w.client /\ v.journal = w.journal /\ v.runSeq = w.runSeq /\ v.index = w.index

There(w, q) ==
    [w EXCEPT !.db[w.client.program] = q, !.ids = [v \in Variables |-> 3 - w.ids[v]]]

Saved(w, prog, q) == [w EXCEPT !.disk[prog] = q]

OneFault(w) == [w EXCEPT !.count.faults = @ + 1]

LEMMA ThereIs ==
    ASSUME NEW w \in AllWorlds, NEW q \in Sane, NEW v, v = There(w, q)
    PROVE  v \in AllWorlds /\ SameActor(w, v) /\ v.count = w.count /\ v.db[w.client.program] = q
<1> DEFINE numbers == [x \in Variables |-> 3 - w.ids[x]]
           db1 == [w.db EXCEPT ![w.client.program] = q]
<1>1. v = [client |-> w.client, db |-> db1, disk |-> w.disk, ids |-> numbers,
           journal |-> w.journal, runSeq |-> w.runSeq, index |-> w.index, count |-> w.count]
  BY DEF There, AllWorlds
<1>2. numbers \in [Variables -> Int]
  BY WorldFields
<1>3. db1 \in [Programs -> Sane] /\ db1[w.client.program] = q
  BY WorldFields
<1> HIDE DEF numbers, db1
<1>4. v \in AllWorlds
  BY <1>1, <1>2, <1>3, WorldFields DEF AllWorlds
<1>5. SameActor(w, v) /\ v.count = w.count /\ v.db = db1
  BY <1>1 DEF SameActor
<1> QED
  BY <1>3, <1>4, <1>5

LEMMA SavedIs ==
    ASSUME NEW w \in AllWorlds, NEW prog \in Programs, NEW q \in Sane,
           NEW v, v = Saved(w, prog, q)
    PROVE  v \in AllWorlds /\ SameActor(w, v) /\ v.count = w.count /\ v.db = w.db
<1> DEFINE disk1 == [w.disk EXCEPT ![prog] = q]
<1>1. v = [client |-> w.client, db |-> w.db, disk |-> disk1, ids |-> w.ids,
           journal |-> w.journal, runSeq |-> w.runSeq, index |-> w.index, count |-> w.count]
  BY DEF Saved, AllWorlds
<1>2. disk1 \in [Programs -> Sane]
  BY WorldFields
<1> HIDE DEF disk1
<1>3. v \in AllWorlds
  BY <1>1, <1>2, WorldFields DEF AllWorlds
<1>4. SameActor(w, v) /\ v.count = w.count /\ v.db = w.db
  BY <1>1 DEF SameActor
<1> QED
  BY <1>3, <1>4

LEMMA OneFaultIs ==
    ASSUME NEW w \in AllWorlds, NEW v, v = OneFault(w)
    PROVE  /\ v \in AllWorlds /\ SameActor(w, v) /\ v.db = w.db
           /\ v.count.faults = w.count.faults + 1 /\ v.count.deaths = w.count.deaths
<1> DEFINE count1 == [w.count EXCEPT !.faults = @ + 1]
<1>1. v = [client |-> w.client, db |-> w.db, disk |-> w.disk, ids |-> w.ids,
           journal |-> w.journal, runSeq |-> w.runSeq, index |-> w.index, count |-> count1]
  BY DEF OneFault, AllWorlds
<1>2. /\ count1 \in [edits : Nat, faults : Nat, deaths : Nat]
      /\ count1.faults = w.count.faults + 1 /\ count1.deaths = w.count.deaths
  BY WorldFields
<1> HIDE DEF count1
<1>3. v \in AllWorlds
  BY <1>1, <1>2, WorldFields DEF AllWorlds
<1>4. SameActor(w, v) /\ v.db = w.db /\ v.count = count1
  BY <1>1 DEF SameActor
<1> QED
  BY <1>2, <1>3, <1>4

\* An edit that was made.
Lands(w, edit, r) ==
    \E t \in Target(w.db[w.client.program], w.ids, edit) :
       /\ r.was = Made(w.db[w.client.program], t, edit).was
       /\ r.now = Made(w.db[w.client.program], t, edit).now
       /\ r.w.db[w.client.program] = Made(w.db[w.client.program], t, edit).p

LEMMA LandedIs ==
    ASSUME NEW w \in AllWorlds, NEW t, NEW edit, NEW r \in Landed(w, t, edit),
           Made(w.db[w.client.program], t, edit).p \in Sane
    PROVE  /\ r.ok \in BOOLEAN
           /\ r.was = Made(w.db[w.client.program], t, edit).was
           /\ r.now = Made(w.db[w.client.program], t, edit).now
           /\ r.w.db[w.client.program] = Made(w.db[w.client.program], t, edit).p
           /\ r.w \in AllWorlds /\ SameActor(w, r.w)
           /\ r.w.count.deaths = w.count.deaths
           /\ r.w.count.faults \in {w.count.faults, w.count.faults + 1}
           /\ ~r.ok => r.w.count.faults = w.count.faults + 1
<1>1. PICK m : m = Made(w.db[w.client.program], t, edit)
  OBVIOUS
<1>2. PICK there : there = There(w, m.p)
  OBVIOUS
<1>3. PICK saved : saved = Saved(there, w.client.program, m.p)
  OBVIOUS
<1>4. \/ r = [ok |-> TRUE, was |-> m.was, now |-> m.now, w |-> saved]
      \/ r = [ok |-> FALSE, was |-> m.was, now |-> m.now, w |-> OneFault(saved)]
      \/ r = [ok |-> TRUE, was |-> m.was, now |-> m.now, w |-> OneFault(there)]
  BY <1>1, <1>2, <1>3 DEF Landed, There, Saved, OneFault
<1>5. w.client.program \in Programs
  BY WorldFields
<1>6. /\ there \in AllWorlds /\ SameActor(w, there) /\ there.count = w.count
      /\ there.db[w.client.program] = m.p
  <2>1. PICK q \in Sane : q = m.p
    BY <1>1
  <2>2. there = There(w, q)
    BY <1>2, <2>1
  <2>3. there \in AllWorlds /\ SameActor(w, there) /\ there.count = w.count /\ there.db[w.client.program] = q
    BY <2>2, ThereIs
  <2> QED
    BY <2>1, <2>3
<1>7. saved \in AllWorlds /\ SameActor(there, saved) /\ saved.count = there.count /\ saved.db = there.db
  <2>1. PICK q \in Sane : q = m.p
    BY <1>1
  <2>2. PICK prog \in Programs : prog = w.client.program
    BY <1>5
  <2>3. saved = Saved(there, prog, q) /\ there \in AllWorlds
    BY <1>3, <1>6, <2>1, <2>2
  <2> QED
    BY <2>3, SavedIs
<1>8. SameActor(w, saved)
  BY <1>6, <1>7 DEF SameActor
<1>9. CASE r = [ok |-> TRUE, was |-> m.was, now |-> m.now, w |-> saved]
  <2>1. r.ok = TRUE /\ r.was = m.was /\ r.now = m.now /\ r.w = saved
    BY <1>9
  <2> QED
    BY <1>1, <1>6, <1>7, <1>8, <2>1
<1>10. CASE r = [ok |-> FALSE, was |-> m.was, now |-> m.now, w |-> OneFault(saved)]
  <2>1. r.ok = FALSE /\ r.was = m.was /\ r.now = m.now /\ r.w = OneFault(saved)
    BY <1>10
  <2>2. /\ r.w \in AllWorlds /\ SameActor(saved, r.w) /\ r.w.db = saved.db
        /\ r.w.count.faults = saved.count.faults + 1 /\ r.w.count.deaths = saved.count.deaths
    BY <1>7, <2>1, OneFaultIs
  <2>3. SameActor(w, r.w)
    BY <1>8, <2>2 DEF SameActor
  <2> QED
    BY <1>1, <1>6, <1>7, <2>1, <2>2, <2>3
<1>11. CASE r = [ok |-> TRUE, was |-> m.was, now |-> m.now, w |-> OneFault(there)]
  <2>1. r.ok = TRUE /\ r.was = m.was /\ r.now = m.now /\ r.w = OneFault(there)
    BY <1>11
  <2>2. /\ r.w \in AllWorlds /\ SameActor(there, r.w) /\ r.w.db = there.db
        /\ r.w.count.faults = there.count.faults + 1 /\ r.w.count.deaths = there.count.deaths
    BY <1>6, <2>1, OneFaultIs
  <2>3. SameActor(w, r.w)
    BY <1>6, <2>2 DEF SameActor
  <2> QED
    BY <1>1, <1>6, <2>1, <2>2, <2>3
<1> QED
  BY <1>4, <1>9, <1>10, <1>11

LEMMA CallIs ==
    ASSUME NEW w \in AllWorlds, NEW edit, Good(edit), NEW r \in Call(w, edit)
    PROVE  /\ r.ok \in BOOLEAN
           /\ r.w \in AllWorlds /\ SameActor(w, r.w)
           /\ r.w.count.deaths = w.count.deaths
           /\ r.w.count.faults \in {w.count.faults, w.count.faults + 1}
           /\ Refused(w.db[w.client.program], w.ids, edit) => ~r.ok /\ r.w = w
           /\ ~Refused(w.db[w.client.program], w.ids, edit) =>
                 Lands(w, edit, r) /\ (~r.ok => r.w.count.faults = w.count.faults + 1)
<1>1. CASE Refused(w.db[w.client.program], w.ids, edit)
  <2>1. r = [ok |-> FALSE, was |-> None, now |-> "", w |-> w]
    BY <1>1 DEF Call
  <2>2. r.ok = FALSE /\ r.w = w
    BY <2>1
  <2> QED
    BY <1>1, <2>2 DEF SameActor
<1>2. CASE ~Refused(w.db[w.client.program], w.ids, edit)
  <2>1. PICK t \in Target(w.db[w.client.program], w.ids, edit) : r \in Landed(w, t, edit)
    BY <1>2 DEF Call
  <2>2. w.db[w.client.program] \in Sane
    BY WorldFields
  <2>3. Made(w.db[w.client.program], t, edit).p \in Sane
    BY <1>2, <2>2, MadeIs
  <2>4. /\ r.ok \in BOOLEAN
        /\ r.was = Made(w.db[w.client.program], t, edit).was
        /\ r.now = Made(w.db[w.client.program], t, edit).now
        /\ r.w.db[w.client.program] = Made(w.db[w.client.program], t, edit).p
        /\ r.w \in AllWorlds /\ SameActor(w, r.w)
        /\ r.w.count.deaths = w.count.deaths
        /\ r.w.count.faults \in {w.count.faults, w.count.faults + 1}
        /\ ~r.ok => r.w.count.faults = w.count.faults + 1
    BY <2>1, <2>3, LandedIs
  <2>5. Lands(w, edit, r)
    BY <2>4 DEF Lands
  <2> QED
    BY <1>2, <2>4, <2>5
<1> QED
  BY <1>1, <1>2

-----------------------------------------------------------------------------
(* The journal.                                                             *)

LEMMA RunsAppend ==
    ASSUME NEW j \in Seq(Entries), NEW n \in Nat, Runs(j, n),
           NEW e \in Entries, Sound(e), NEW m \in Nat, n <= m, e.run <= m,
           \A i \in 1 .. Len(j) : j[i].run = e.run => j[i].author = e.author
    PROVE  Runs(Append(j, e), m)
<1> DEFINE l == Append(j, e)
<1>1. /\ l \in Seq(Entries) /\ Len(l) = Len(j) + 1
      /\ \A i \in 1 .. Len(j) : l[i] = j[i]
      /\ l[Len(j) + 1] = e
  BY AppendProperties
<1> HIDE DEF l
<1>2. Len(j) \in Nat
  BY LenProperties
<1>3. \A i \in 1 .. Len(l) : i \in 1 .. Len(j) \/ i = Len(j) + 1
  BY <1>1, <1>2
<1>4. \A i \in 1 .. Len(j) : j[i].run \in Nat
  <2>1. \A i \in 1 .. Len(j) : j[i] \in Entries
    BY ElementOfSeq
  <2> QED
    BY <2>1 DEF Entries
<1>5. \A i \in 1 .. Len(j) : j[i].run <= m
  <2>1. \A i \in 1 .. Len(j) : j[i].run <= n
    BY DEF Runs
  <2> QED
    BY <1>4, <2>1
<1>6. \A i \in 1 .. Len(l) : Sound(l[i]) /\ l[i].run <= m
  BY <1>1, <1>3, <1>5 DEF Runs
<1>7. ASSUME NEW i \in 1 .. Len(l), NEW k \in 1 .. Len(l), l[i].run = l[k].run
      PROVE  l[i].author = l[k].author
  <2>1. CASE i \in 1 .. Len(j) /\ k \in 1 .. Len(j)
    <3>1. l[i] = j[i] /\ l[k] = j[k]
      BY <1>1, <2>1
    <3> QED
      BY <1>7, <2>1, <3>1 DEF Runs
  <2>2. CASE i \in 1 .. Len(j) /\ k = Len(j) + 1
    <3>1. l[i] = j[i] /\ l[k] = e
      BY <1>1, <2>2
    <3> QED
      BY <1>7, <2>2, <3>1
  <2>3. CASE i = Len(j) + 1 /\ k \in 1 .. Len(j)
    <3>1. l[i] = e /\ l[k] = j[k]
      BY <1>1, <2>3
    <3> QED
      BY <1>7, <2>3, <3>1
  <2>4. CASE i = Len(j) + 1 /\ k = Len(j) + 1
    BY <2>4
  <2> QED
    BY <1>3, <2>1, <2>2, <2>3, <2>4
<1> QED
  BY <1>6, <1>7 DEF Runs, l

LEMMA RunsTail ==
    ASSUME NEW j \in Seq(Entries), j # <<>>, NEW n \in Nat, Runs(j, n)
    PROVE  Runs(Tail(j), n)
<1> DEFINE l == Tail(j)
<1>1. Len(l) = Len(j) - 1 /\ \A i \in 1 .. Len(l) : l[i] = j[i + 1]
  BY HeadTailProperties
<1>2. Len(j) \in Nat
  BY LenProperties
<1> HIDE DEF l
<1>3. \A i \in 1 .. Len(l) : i + 1 \in 1 .. Len(j)
  BY <1>1, <1>2
<1> QED
  BY <1>1, <1>3 DEF Runs, l

LEMMA RunsPrefix ==
    ASSUME NEW j \in Seq(Entries), NEW n \in Nat, Runs(j, n), NEW k \in 0 .. Len(j)
    PROVE  /\ SubSeq(j, 1, k) \in Seq(Entries)
           /\ Len(SubSeq(j, 1, k)) = k
           /\ \A i \in 1 .. k : SubSeq(j, 1, k)[i] = j[i]
           /\ Runs(SubSeq(j, 1, k), n)
<1> DEFINE l == SubSeq(j, 1, k)
<1>1. Len(j) \in Nat /\ k \in Int
  BY LenProperties
<1>2. \A i \in 1 .. k : i \in 1 .. Len(j)
  BY <1>1
<1>3. \A i \in 1 .. k : j[i] \in Entries
  BY <1>2, ElementOfSeq
<1>4. l \in Seq(Entries) /\ Len(l) = (IF 1 <= k THEN k - 1 + 1 ELSE 0)
      /\ \A i \in 1 .. k - 1 + 1 : l[i] = j[1 + i - 1]
  BY <1>1, <1>3, SubSeqProperties
<1> HIDE DEF l
<1>5. k - 1 + 1 = k /\ \A i \in 1 .. k : 1 + i - 1 = i
  BY <1>1
<1>6. Len(l) = k
  BY <1>1, <1>4
<1>7. \A i \in 1 .. k : l[i] = j[i]
  BY <1>4, <1>5
<1>8. Runs(l, n)
  BY <1>2, <1>6, <1>7 DEF Runs
<1> QED
  BY <1>4, <1>6, <1>7, <1>8 DEF l

\* An edit joins a run of its author's, or starts one.
LEMMA RunForIs ==
    ASSUME NEW w, Kept(w), NEW author, NEW quiet, NEW run, run = RunFor(w, author, quiet)
    PROVE  /\ run.run \in Nat /\ run.runSeq \in Nat
           /\ w.runSeq <= run.runSeq /\ run.run <= run.runSeq
           /\ \A i \in 1 .. Len(w.journal) :
                 w.journal[i].run = run.run => w.journal[i].author = author
<1>1. /\ w \in AllWorlds /\ Runs(w.journal, w.runSeq)
      /\ w.journal \in Seq(Entries) /\ w.runSeq \in Nat
  BY WorldFields DEF Kept
<1>2. \A i \in 1 .. Len(w.journal) : w.journal[i] \in Entries
  BY <1>1, ElementOfSeq
<1>3. \A i \in 1 .. Len(w.journal) : w.journal[i].run \in Nat /\ w.journal[i].run <= w.runSeq
  BY <1>1, <1>2 DEF Entries, Runs
<1>4. CASE w.journal # <<>> /\ Last(w.journal).author = author /\ ~quiet
  <2>1. Len(w.journal) \in 1 .. Len(w.journal)
    BY <1>1, <1>4, EmptySeq
  <2>2. run.run = Last(w.journal).run /\ run.runSeq = w.runSeq
    BY <1>4 DEF RunFor
  <2>3. run.run = w.journal[Len(w.journal)].run /\ w.journal[Len(w.journal)].author = author
    BY <1>4, <2>2 DEF Last
  <2>4. \A i \in 1 .. Len(w.journal) : w.journal[i].run = run.run => w.journal[i].author = author
    BY <1>1, <2>1, <2>3 DEF Runs
  <2>5. run.run \in Nat /\ run.run <= w.runSeq
    BY <1>3, <2>1, <2>3
  <2> QED
    BY <1>1, <2>2, <2>4, <2>5
<1>5. CASE ~(w.journal # <<>> /\ Last(w.journal).author = author /\ ~quiet)
  <2>1. run = [run |-> w.runSeq + 1, runSeq |-> w.runSeq + 1]
    BY <1>5 DEF RunFor
  <2>2. run.run = w.runSeq + 1 /\ run.runSeq = w.runSeq + 1
    BY <2>1
  <2>3. \A i \in 1 .. Len(w.journal) : w.journal[i].run # w.runSeq + 1
    BY <1>1, <1>3
  <2> QED
    BY <1>1, <2>2, <2>3
<1> QED
  BY <1>4, <1>5

\* The rest of the world.
SameRest(w, v) ==
    v.client = w.client /\ v.db = w.db /\ v.ids = w.ids /\ v.count = w.count

WithJournal(w, n, j) == [w EXCEPT !.runSeq = n, !.journal = j]
WithShorter(w, j) == [w EXCEPT !.journal = j]
WithIndex(w, x) == [w EXCEPT !.index = x]

LEMMA WithJournalIs ==
    ASSUME NEW w \in AllWorlds, NEW n \in Nat, NEW j \in Seq(Entries), NEW v, v = WithJournal(w, n, j)
    PROVE  v \in AllWorlds /\ SameRest(w, v) /\ v.index = w.index /\ v.runSeq = n /\ v.journal = j
<1>1. v = [client |-> w.client, db |-> w.db, disk |-> w.disk, ids |-> w.ids,
           journal |-> j, runSeq |-> n, index |-> w.index, count |-> w.count]
  BY DEF WithJournal, AllWorlds
<1>2. v \in AllWorlds
  BY <1>1, WorldFields DEF AllWorlds
<1>3. SameRest(w, v) /\ v.index = w.index /\ v.runSeq = n /\ v.journal = j
  BY <1>1 DEF SameRest
<1> QED
  BY <1>2, <1>3

LEMMA WithShorterIs ==
    ASSUME NEW w \in AllWorlds, NEW j \in Seq(Entries), NEW v, v = WithShorter(w, j)
    PROVE  v \in AllWorlds /\ SameRest(w, v) /\ v.index = w.index /\ v.runSeq = w.runSeq /\ v.journal = j
<1>1. v = [client |-> w.client, db |-> w.db, disk |-> w.disk, ids |-> w.ids,
           journal |-> j, runSeq |-> w.runSeq, index |-> w.index, count |-> w.count]
  BY DEF WithShorter, AllWorlds
<1>2. v \in AllWorlds
  BY <1>1, WorldFields DEF AllWorlds
<1>3. SameRest(w, v) /\ v.index = w.index /\ v.runSeq = w.runSeq /\ v.journal = j
  BY <1>1 DEF SameRest
<1> QED
  BY <1>2, <1>3

LEMMA WithIndexIs ==
    ASSUME NEW w \in AllWorlds, NEW x \in Indexes,
           NEW v, v = WithIndex(w, x)
    PROVE  v \in AllWorlds /\ SameRest(w, v) /\ v.index = x /\ v.runSeq = w.runSeq /\ v.journal = w.journal
<1>1. v = [client |-> w.client, db |-> w.db, disk |-> w.disk, ids |-> w.ids,
           journal |-> w.journal, runSeq |-> w.runSeq, index |-> x, count |-> w.count]
  BY DEF WithIndex, AllWorlds
<1>2. v \in AllWorlds
  BY <1>1, WorldFields DEF AllWorlds
<1>3. SameRest(w, v) /\ v.index = x /\ v.runSeq = w.runSeq /\ v.journal = w.journal
  BY <1>1 DEF SameRest
<1> QED
  BY <1>2, <1>3

LEMMA EntryIs ==
    ASSUME NEW edit \in AllEdits, NEW run \in Nat, NEW author \in Words, NEW prog \in Programs,
           NEW before \in Sane, NEW after \in Sane,
           Good(edit), Undoable(edit, before, after),
           NEW e, e = Entry(edit, run, author, prog, before, after)
    PROVE  e \in Entries /\ Sound(e) /\ e.run = run /\ e.author = author
<1>1. e = [edit |-> edit, run |-> run, author |-> author, prog |-> prog, before |-> before, after |-> after]
  BY DEF Entry
<1>2. e \in Entries
  BY <1>1 DEF Entries
<1>3. /\ e.edit = edit /\ e.before = before /\ e.after = after
      /\ e.run = run /\ e.author = author
  BY <1>1
<1> QED
  BY <1>2, <1>3 DEF Sound

\* What is pushed undoes the edit, and the journal is not shorter for it.
LEMMA PushIs ==
    ASSUME NEW w, Kept(w), NEW edit \in AllEdits, NEW r, NEW before \in Sane, NEW quiet,
           Good(InverseOf(edit, r)),
           Undoable(InverseOf(edit, r), before, w.db[w.client.program]),
           NEW v, v = PushUndo(w, edit, r, before, quiet)
    PROVE  /\ Kept(v) /\ SameRest(w, v) /\ v.index = w.index
           /\ Len(w.journal) <= Len(v.journal)
<1>1. /\ w \in AllWorlds /\ Runs(w.journal, w.runSeq)
      /\ w.journal \in Seq(Entries) /\ w.runSeq \in Nat
      /\ w.client.program \in Programs /\ w.db[w.client.program] \in Sane
  BY WorldFields DEF Kept
<1>2. Len(w.journal) \in Nat
  BY <1>1, LenProperties
<1>3. CASE edit.op # "comment" /\ r.was = None
  <2>1. v = w
    BY <1>3 DEF PushUndo
  <2> QED
    BY <1>2, <2>1 DEF SameRest
<1>4. CASE ~(edit.op # "comment" /\ r.was = None)
  <2>1. PICK inv : inv = InverseOf(edit, r)
    OBVIOUS
  <2>2. PICK run : run = RunFor(w, edit.author, quiet)
    OBVIOUS
  <2>3. PICK e : e = Entry(inv, run.run, edit.author, w.client.program, before, w.db[w.client.program])
    OBVIOUS
  <2>4. PICK longer : longer = Append(w.journal, e)
    OBVIOUS
  <2>5. PICK j : j = IF Len(longer) > MaxUndo THEN Tail(longer) ELSE longer
    OBVIOUS
  <2>6. v = WithJournal(w, run.runSeq, j)
    BY <1>4, <2>1, <2>2, <2>3, <2>4, <2>5 DEF PushUndo, WithJournal
  <2>7. /\ run.run \in Nat /\ run.runSeq \in Nat
        /\ w.runSeq <= run.runSeq /\ run.run <= run.runSeq
        /\ \A i \in 1 .. Len(w.journal) :
              w.journal[i].run = run.run => w.journal[i].author = edit.author
    BY <2>2, RunForIs
  <2>8. inv \in AllEdits /\ edit.author \in Words
    BY <2>1, EditFields DEF Good
  <2>9. e \in Entries /\ Sound(e) /\ e.run = run.run /\ e.author = edit.author
    <3>1. Good(inv) /\ Undoable(inv, before, w.db[w.client.program])
      BY <2>1
    <3>2. PICK after \in Sane : after = w.db[w.client.program]
      BY <1>1
    <3>3. Undoable(inv, before, after) /\ e = Entry(inv, run.run, edit.author, w.client.program, before, after)
      BY <2>3, <3>1, <3>2
    <3> QED
      BY <1>1, <2>7, <2>8, <3>1, <3>3, EntryIs
  <2>10. /\ longer \in Seq(Entries) /\ longer # <<>> /\ Len(longer) = Len(w.journal) + 1
    BY <1>1, <2>4, <2>9, AppendProperties
  <2>11. Runs(longer, run.runSeq)
    <3>1. \A i \in 1 .. Len(w.journal) :
             w.journal[i].run = e.run => w.journal[i].author = e.author
      BY <2>7, <2>9
    <3>2. e.run <= run.runSeq
      BY <2>7, <2>9
    <3> QED
      BY <1>1, <2>4, <2>7, <2>9, <3>1, <3>2, RunsAppend
  <2>12. j \in Seq(Entries) /\ Runs(j, run.runSeq) /\ Len(w.journal) <= Len(j)
    <3>1. CASE j = longer
      BY <1>2, <2>10, <2>11, <3>1
    <3>2. CASE j = Tail(longer)
      <4>1. Tail(longer) \in Seq(Entries) /\ Len(Tail(longer)) = Len(longer) - 1
        BY <2>10, HeadTailProperties
      <4>2. Runs(Tail(longer), run.runSeq)
        BY <2>7, <2>10, <2>11, RunsTail
      <4> QED
        BY <1>2, <2>10, <3>2, <4>1, <4>2
    <3> QED
      BY <2>5, <3>1, <3>2
  <2>13. v \in AllWorlds /\ SameRest(w, v) /\ v.index = w.index /\ v.runSeq = run.runSeq /\ v.journal = j
    <3>1. PICK n \in Nat : n = run.runSeq
      BY <2>7
    <3>2. v = WithJournal(w, n, j)
      BY <2>6, <3>1
    <3>3. v \in AllWorlds /\ SameRest(w, v) /\ v.index = w.index /\ v.runSeq = n /\ v.journal = j
      <4>1. w \in AllWorlds /\ j \in Seq(Entries)
        BY <1>1, <2>12
      <4> QED
        BY <3>2, <4>1, WithJournalIs
    <3> QED
      BY <3>1, <3>3
  <2> QED
    BY <2>12, <2>13 DEF Kept
<1> QED
  BY <1>3, <1>4

-----------------------------------------------------------------------------
(* An edit, and an undo of one.                                             *)

\* What an edit or an undo may change of the world.
Moves(w, v) ==
    /\ Kept(v)
    /\ v.client = w.client
    /\ v.count.deaths = w.count.deaths
    /\ w.count.faults <= v.count.faults
    /\ v.index \in {w.index, NoIndex}
    /\ Current(w) => Current(v)

LEMMA NoIndexIs == NoIndex \in Indexes /\ NoIndex.of = 0
BY DEF NoIndex, Indexes

\* With no index there is nothing out of date.
LEMMA NoneCurrent ==
    ASSUME NEW v, v.index = NoIndex
    PROVE  Current(v)
BY NoIndexIs DEF Current

Answers == [ok : BOOLEAN, w : AllWorlds]

LEMMA ApplyIs ==
    ASSUME NEW w, Kept(w), NEW edit, Good(edit), NEW record \in BOOLEAN, NEW quiet,
           NEW o \in ApplyDecompEdit(w, edit, record, quiet)
    PROVE  /\ o \in Answers
           /\ Moves(w, o.w)
           /\ Len(w.journal) <= Len(o.w.journal)
           /\ ~record => o.w.journal = w.journal
           /\ ~Refused(w.db[w.client.program], w.ids, edit) /\ o.w.count.faults = w.count.faults =>
                 /\ o.ok
                 /\ \E t \in Target(w.db[w.client.program], w.ids, edit) :
                       o.w.db[w.client.program] = Made(w.db[w.client.program], t, edit).p
<1>1. /\ w \in AllWorlds /\ Runs(w.journal, w.runSeq)
      /\ w.journal \in Seq(Entries)
      /\ w.client.program \in Programs
  BY WorldFields DEF Kept
<1>2. w.count.faults \in Nat /\ Len(w.journal) \in Nat /\ w.db[w.client.program] \in Sane
  BY <1>1, WorldFields, LenProperties
<1>3. PICK before \in Sane : before = w.db[w.client.program]
  BY <1>2
<1>4. PICK r \in Call(w, edit) :
         o = [ok |-> r.ok,
              w |-> IF r.ok
                    THEN ForgetDecompIndex(IF record THEN PushUndo(r.w, edit, r, before, quiet) ELSE r.w, edit)
                    ELSE r.w]
  BY <1>3 DEF ApplyDecompEdit
<1>5. PICK u : u = IF record THEN PushUndo(r.w, edit, r, before, quiet) ELSE r.w
  OBVIOUS
<1>6. o.ok = r.ok /\ (r.ok => o.w = WithIndex(u, NoIndex)) /\ (~r.ok => o.w = r.w)
  BY <1>4, <1>5 DEF ForgetDecompIndex, WithIndex
<1>7. /\ r.ok \in BOOLEAN
      /\ r.w \in AllWorlds /\ SameActor(w, r.w)
      /\ r.w.count.deaths = w.count.deaths
      /\ r.w.count.faults \in {w.count.faults, w.count.faults + 1}
      /\ Refused(before, w.ids, edit) => ~r.ok /\ r.w = w
      /\ ~Refused(before, w.ids, edit) =>
            Lands(w, edit, r) /\ (~r.ok => r.w.count.faults = w.count.faults + 1)
  BY <1>1, <1>3, CallIs
<1>8. Kept(r.w) /\ r.w.client = w.client /\ r.w.journal = w.journal /\ r.w.index = w.index
  BY <1>1, <1>7 DEF Kept, SameActor
<1>9. w.count.faults <= r.w.count.faults
  BY <1>2, <1>7
<1>a. Moves(w, o.w) => o \in Answers
  <2>1. Moves(w, o.w) => o.w \in AllWorlds
    BY DEF Moves, Kept
  <2>2. o = [ok |-> o.ok, w |-> o.w] /\ o.ok \in BOOLEAN
    BY <1>4, <1>6, <1>7
  <2> QED
    BY <2>1, <2>2 DEF Answers
<1>10. CASE r.ok
  <2>1. ~Refused(before, w.ids, edit)
    BY <1>7, <1>10
  <2>2. PICK t \in Target(before, w.ids, edit) :
           /\ r.was = Made(before, t, edit).was
           /\ r.now = Made(before, t, edit).now
           /\ r.w.db[w.client.program] = Made(before, t, edit).p
    BY <1>3, <1>7, <2>1 DEF Lands
  <2>3. Good(InverseOf(edit, r)) /\ Undoable(InverseOf(edit, r), before, r.w.db[w.client.program])
    BY <2>1, <2>2, Inverts
  <2>4. /\ Kept(u) /\ SameRest(r.w, u) /\ u.index = w.index
        /\ Len(w.journal) <= Len(u.journal)
        /\ ~record => u.journal = w.journal
    <3>1. CASE record
      <4>1. u = PushUndo(r.w, edit, r, before, quiet)
        BY <1>5, <3>1
      <4>2. edit \in AllEdits
        BY DEF Good
      <4>3. Undoable(InverseOf(edit, r), before, r.w.db[r.w.client.program])
        BY <1>8, <2>3
      <4>4. Kept(u) /\ SameRest(r.w, u) /\ u.index = r.w.index /\ Len(r.w.journal) <= Len(u.journal)
        BY <1>8, <2>3, <4>1, <4>2, <4>3, PushIs
      <4> QED
        BY <1>8, <3>1, <4>4
    <3>2. CASE ~record
      <4>1. u = r.w
        BY <1>5, <3>2
      <4> QED
        BY <1>2, <1>8, <4>1 DEF SameRest
    <3> QED
      BY <3>1, <3>2
  <2>5. /\ o.w \in AllWorlds /\ SameRest(u, o.w) /\ o.w.index = NoIndex
        /\ o.w.runSeq = u.runSeq /\ o.w.journal = u.journal
    <3>1. u \in AllWorlds
      BY <2>4 DEF Kept
    <3>2. PICK x \in Indexes : x = NoIndex
      BY NoIndexIs
    <3>3. o.w = WithIndex(u, x)
      BY <1>6, <1>10, <3>2
    <3>4. o.w \in AllWorlds /\ SameRest(u, o.w) /\ o.w.index = x /\ o.w.runSeq = u.runSeq /\ o.w.journal = u.journal
      BY <3>1, <3>3, WithIndexIs
    <3> QED
      BY <3>2, <3>4
  <2>6. Kept(o.w)
    BY <2>4, <2>5 DEF Kept
  <2>7. o.w.client = w.client /\ o.w.db = r.w.db /\ o.w.count = r.w.count
    BY <1>8, <2>4, <2>5 DEF SameRest
  <2>8. Moves(w, o.w)
    BY <1>7, <1>9, <2>5, <2>6, <2>7, NoneCurrent DEF Moves
  <2>9. /\ Len(w.journal) <= Len(o.w.journal)
        /\ ~record => o.w.journal = w.journal
    BY <2>4, <2>5
  <2>10. \E t1 \in Target(before, w.ids, edit) : o.w.db[w.client.program] = Made(before, t1, edit).p
    BY <2>2, <2>7
  <2> QED
    BY <1>3, <1>6, <1>10, <1>a, <2>8, <2>9, <2>10
<1>11. CASE ~r.ok
  <2>1. o.w = r.w
    BY <1>6, <1>11
  <2>2. Current(w) => Current(o.w)
    <3>1. CASE Refused(before, w.ids, edit)
      BY <1>7, <2>1, <3>1
    <3>2. CASE ~Refused(before, w.ids, edit)
      <4>1. o.w.count.faults = w.count.faults + 1
        BY <1>7, <1>11, <2>1, <3>2
      <4>2. o.w.count.faults # 0
        BY <1>2, <4>1
      <4> QED
        BY <4>2 DEF Current
    <3> QED
      BY <3>1, <3>2
  <2>3. Moves(w, o.w)
    BY <1>7, <1>8, <1>9, <2>1, <2>2 DEF Moves
  <2>4. Len(w.journal) <= Len(o.w.journal) /\ o.w.journal = w.journal
    BY <1>2, <1>8, <2>1
  <2>5. ~Refused(before, w.ids, edit) => o.w.count.faults # w.count.faults
    <3>1. ~Refused(before, w.ids, edit) => o.w.count.faults = w.count.faults + 1
      BY <1>7, <1>11, <2>1
    <3> QED
      BY <1>2, <3>1
  <2> QED
    BY <1>3, <1>a, <2>1, <2>3, <2>4, <2>5
<1> QED
  BY <1>7, <1>10, <1>11

LEMMA MovesOn ==
    ASSUME NEW u, NEW v, NEW w, Moves(u, v), Moves(v, w),
           u.count.faults \in Nat, v.count.faults \in Nat, w.count.faults \in Nat
    PROVE  Moves(u, w)
<1>1. u.count.faults <= w.count.faults
  BY DEF Moves
<1> QED
  BY <1>1 DEF Moves

\* An undo takes the newest entry off, and puts its program back if it is there.
LEMMA UndoOneIs ==
    ASSUME NEW w, Kept(w), NEW n \in Nat \ {0}, n = Len(w.journal), NEW o \in UndoOne(w)
    PROVE  /\ o \in Answers
           /\ Moves(w, o.w)
           /\ o.w.journal = SubSeq(w.journal, 1, n - 1)
           /\ ReadsAs(w.db[w.client.program], w.journal[n].after) /\ ~Relabelled(w.journal[n])
              /\ o.w.count.faults = w.count.faults =>
                 o.ok /\ ReadsAs(o.w.db[w.client.program], w.journal[n].before)
<1>1. /\ w \in AllWorlds /\ Runs(w.journal, w.runSeq)
      /\ w.journal \in Seq(Entries) /\ w.runSeq \in Nat
      /\ w.db[w.client.program] \in Sane /\ w.ids \in [Variables -> Int]
      /\ w.count.faults \in Nat
  BY WorldFields DEF Kept
<1>2. PICK j : j = SubSeq(w.journal, 1, n - 1)
  OBVIOUS
<1>3. j \in Seq(Entries) /\ Len(j) = n - 1 /\ Runs(j, w.runSeq)
  <2>1. n - 1 \in 0 .. Len(w.journal)
    OBVIOUS
  <2>2. PICK k \in 0 .. Len(w.journal) : k = n - 1
    BY <2>1
  <2> QED
    BY <1>1, <1>2, <2>2, RunsPrefix
<1>4. PICK u : u = WithShorter(w, j)
  OBVIOUS
<1>5. u \in AllWorlds /\ SameRest(w, u) /\ u.index = w.index /\ u.runSeq = w.runSeq /\ u.journal = j
  BY <1>1, <1>3, <1>4, WithShorterIs
<1>6. Kept(u)
  BY <1>3, <1>5 DEF Kept
<1>7. PICK e : e = w.journal[n]
  OBVIOUS
<1>8. e \in Entries /\ Good(e.edit) /\ Undoable(e.edit, e.before, e.after)
  <2>1. n \in 1 .. Len(w.journal)
    OBVIOUS
  <2>2. e \in Entries /\ Sound(e)
    BY <1>1, <1>7, <2>1, ElementOfSeq DEF Runs
  <2> QED
    BY <2>2 DEF Sound
<1>9. PICK record \in BOOLEAN : record = FALSE
  OBVIOUS
<1>10. o \in ApplyDecompEdit(u, e.edit, record, record)
  BY <1>2, <1>4, <1>7, <1>9 DEF UndoOne, Last, Front, WithShorter
<1>11. /\ o \in Answers
       /\ Moves(u, o.w)
       /\ o.w.journal = u.journal
       /\ ~Refused(u.db[u.client.program], u.ids, e.edit) /\ o.w.count.faults = u.count.faults =>
             /\ o.ok
             /\ \E t \in Target(u.db[u.client.program], u.ids, e.edit) :
                   o.w.db[u.client.program] = Made(u.db[u.client.program], t, e.edit).p
  <2>1. PICK edit : edit = e.edit
    OBVIOUS
  <2>2. Good(edit) /\ o \in ApplyDecompEdit(u, edit, record, record)
    BY <1>8, <1>10, <2>1
  <2>3. /\ o \in Answers
        /\ Moves(u, o.w)
        /\ ~record => o.w.journal = u.journal
        /\ ~Refused(u.db[u.client.program], u.ids, edit) /\ o.w.count.faults = u.count.faults =>
              /\ o.ok
              /\ \E t \in Target(u.db[u.client.program], u.ids, edit) :
                    o.w.db[u.client.program] = Made(u.db[u.client.program], t, edit).p
    BY <1>6, <2>2, ApplyIs
  <2> QED
    BY <1>9, <2>1, <2>3
<1>12. Moves(w, o.w)
  BY <1>5, <1>11 DEF Moves, SameRest, Current
<1>13. ASSUME ReadsAs(w.db[w.client.program], e.after), ~Relabelled(e),
              o.w.count.faults = w.count.faults
       PROVE  o.ok /\ ReadsAs(o.w.db[w.client.program], e.before)
  <2>0. Reverses(e.edit, e.before, e.after)
    BY <1>8, <1>13 DEF Undoable, Relabels, Relabelled
  <2>1. PICK p \in Sane : p = w.db[w.client.program]
    BY <1>1
  <2>2. /\ ~Refused(p, w.ids, e.edit)
        /\ \A t \in Target(p, w.ids, e.edit) : ReadsAs(Made(p, t, e.edit).p, e.before)
    BY <1>1, <1>13, <2>0, <2>1 DEF Reverses
  <2>3. u.db[u.client.program] = p /\ u.ids = w.ids /\ u.client = w.client /\ u.count = w.count
    BY <1>5, <2>1 DEF SameRest
  <2>4. /\ o.ok
        /\ \E t \in Target(p, w.ids, e.edit) : o.w.db[w.client.program] = Made(p, t, e.edit).p
    BY <1>11, <1>13, <2>2, <2>3
  <2> QED
    BY <2>2, <2>4
<1> QED
  BY <1>2, <1>5, <1>7, <1>11, <1>12, <1>13

-----------------------------------------------------------------------------
(* Loops: a function defined by recursion on 0 .. k exists, and what each  *)
(* of its steps preserves holds of its values.                             *)

\* The order of the numbers is well-founded.
LEMMA Less == IsWellFoundedOn({p \in Nat \X Nat : p[1] < p[2]}, Nat)
<1>1. IsWellFoundedOn(OpToRel(<, Nat), Nat)
  BY NatLessThanWellFounded
<1> QED
  BY <1>1 DEF OpToRel

\* So every set of numbers has a least,
LEMMA Least ==
    ASSUME NEW T, T \subseteq Nat, T # {}
    PROVE  \E x \in T : \A y \in T : x <= y
<1>1. PICK R : R = {p \in Nat \X Nat : p[1] < p[2]}
  OBVIOUS
<1>2. IsWellFoundedOn(R, Nat)
  BY <1>1, Less
<1>3. PICK x \in T : \A y \in T : ~(<<y, x>> \in R)
  BY <1>2, WFMin
<1>4. ASSUME NEW y \in T PROVE x <= y
  <2>1. x \in Nat /\ y \in Nat /\ ~(<<y, x>> \in R)
    BY <1>3
  <2>2. y < x => <<y, x>> \in R
    BY <1>1, <2>1
  <2> QED
    BY <2>1, <2>2
<1> QED
  BY <1>4

\* and what holds of 0, and of the next number whenever it holds of one, holds
\* of all.
LEMMA Inductive ==
    ASSUME NEW S, 0 \in S, \A n \in Nat : n \in S => n + 1 \in S
    PROVE  Nat \subseteq S
<1>1. PICK T : T = {n \in Nat : n \notin S}
  OBVIOUS
<1>2. CASE T # {}
  <2>1. PICK x \in T : \A y \in T : x <= y
    BY <1>1, <1>2, Least
  <2>2. x \in Nat /\ x # 0 /\ x - 1 \in Nat /\ x - 1 \notin T
    BY <1>1, <2>1
  <2>3. x - 1 \in S /\ x - 1 + 1 = x
    BY <1>1, <2>2
  <2> QED
    BY <1>1, <2>1, <2>2, <2>3
<1> QED
  BY <1>1, <1>2

\* An undo that follows one that was answered.
Undoes(r) == IF r.ok THEN UndoOne(r.w) ELSE {r}

\* What is true before a run is undone, and kept by each undo of it, is true
\* after the last.
LEMMA UndoLoop ==
    ASSUME NEW w, NEW N \in Nat, NEW Q, [ok |-> TRUE, w |-> w] \in Q[0],
           \A n \in 1 .. N : \A r \in Q[n - 1] : Undoes(r) \subseteq Q[n]
    PROVE  UndoMany(w, N) \subseteq Q[N]
<1> DEFINE First == {[ok |-> TRUE, w |-> w]}
           Body(before) == UNION {Undoes(r) : r \in before}
           F(g, k) == [n \in 0 .. k |-> IF n = 0 THEN First ELSE Body(g[n - 1])]
           A == CHOOSE g : g = F(g, N)
           E == {k \in Nat : \E g : g = F(g, k)}
           S == {n \in Nat : n <= N => A[n] \subseteq Q[n]}
<1>1. UndoMany(w, N) = A[N]
  BY DEF UndoMany, Undoes
<1>b. ASSUME NEW n \in 1 .. N, NEW before, before \subseteq Q[n - 1]
      PROVE  Body(before) \subseteq Q[n]
  <2>1. \A r \in before : Undoes(r) \subseteq Q[n]
    BY <1>b
  <2> QED
    BY <2>1
<1>f. First \subseteq Q[0]
  OBVIOUS
<1> HIDE DEF Body, First
<1>2. 0 \in E
  <2>1. [n \in 0 .. 0 |-> First] = F([n \in 0 .. 0 |-> First], 0)
    OBVIOUS
  <2> QED
    BY <2>1
<1>3. ASSUME NEW k \in Nat, k \in E
      PROVE  k + 1 \in E
  <2>1. PICK g : g = F(g, k)
    BY <1>3
  <2> DEFINE h == [n \in 0 .. k + 1 |-> IF n = k + 1 THEN Body(g[k]) ELSE g[n]]
  <2>2. \A n \in 0 .. k : h[n] = g[n]
    OBVIOUS
  <2>3. h[k + 1] = Body(h[k])
    BY <2>2
  <2>4. \A n \in 0 .. k : g[n] = IF n = 0 THEN First ELSE Body(g[n - 1])
    BY <2>1
  <2>5. \A n \in 0 .. k : n # 0 => n - 1 \in 0 .. k
    OBVIOUS
  <2>6. \A n \in 0 .. k + 1 : n \in 0 .. k \/ n = k + 1
    OBVIOUS
  <2>7. k + 1 # 0 /\ k + 1 - 1 = k
    OBVIOUS
  <2>8. h = [n \in 0 .. k + 1 |-> h[n]]
    OBVIOUS
  <2> HIDE DEF h
  <2>9. ASSUME NEW n \in 0 .. k + 1
        PROVE  h[n] = IF n = 0 THEN First ELSE Body(h[n - 1])
    <3>1. CASE n \in 0 .. k /\ n = 0
      BY <2>2, <2>4, <3>1
    <3>2. CASE n \in 0 .. k /\ n # 0
      <4>1. n - 1 \in 0 .. k
        BY <2>5, <3>2
      <4>2. h[n - 1] = g[n - 1] /\ h[n] = g[n]
        BY <2>2, <3>2, <4>1
      <4>3. g[n] = Body(g[n - 1])
        BY <2>4, <3>2
      <4> QED
        BY <3>2, <4>2, <4>3
    <3>3. CASE n = k + 1
      <4>1. n # 0 /\ n - 1 = k
        BY <2>7, <3>3
      <4>2. h[n] = Body(h[k])
        BY <2>3, <3>3
      <4> QED
        BY <4>1, <4>2
    <3> QED
      BY <2>6, <3>1, <3>2, <3>3
  <2>10. h = F(h, k + 1)
    BY <2>8, <2>9
  <2> QED
    BY <2>10
<1>4. N \in E
  BY <1>2, <1>3, Inductive
<1>5. A = F(A, N)
  BY <1>4
<1> HIDE DEF A
<1>6. 0 \in S
  <2>1. A[0] = First
    BY <1>5
  <2> QED
    BY <1>f, <2>1
<1>7. ASSUME NEW n \in Nat, n \in S
      PROVE  n + 1 \in S
  <2> SUFFICES ASSUME n + 1 <= N
               PROVE  A[n + 1] \subseteq Q[n + 1]
    OBVIOUS
  <2>1. A[n] \subseteq Q[n]
    BY <1>7
  <2>2. n + 1 \in 0 .. N /\ n + 1 \in 1 .. N /\ n + 1 # 0 /\ n + 1 - 1 = n
    OBVIOUS
  <2>3. A[n + 1] = Body(A[n])
    <3>1. \A m \in 0 .. N : m # 0 => A[m] = Body(A[m - 1])
      BY <1>5
    <3>2. A[n + 1] = Body(A[n + 1 - 1])
      BY <2>2, <3>1
    <3> QED
      BY <2>2, <3>2
  <2> QED
    BY <1>b, <2>1, <2>2, <2>3
<1>8. N \in S
  BY <1>6, <1>7, Inductive
<1> QED
  BY <1>1, <1>8

\* So a bounded set of numbers has a greatest.
LEMMA MaxIs ==
    ASSUME NEW k \in Nat, NEW T, T \subseteq 0 .. k, T # {}
    PROVE  Max(T) \in T /\ \A y \in T : y <= Max(T)
<1>1. PICK U : U = {k - y : y \in T}
  OBVIOUS
<1>2. \A y \in T : y \in Nat /\ k - y \in Nat /\ k - (k - y) = y
  OBVIOUS
<1>3. U \subseteq Nat /\ U # {}
  BY <1>1, <1>2
<1>4. PICK x \in U : \A y \in U : x <= y
  BY <1>3, Least
<1>5. PICK z \in T : x = k - z
  BY <1>1, <1>4
<1>6. ASSUME NEW y \in T PROVE z >= y
  <2>1. x <= k - y
    BY <1>1, <1>4
  <2> QED
    BY <1>2, <1>5, <2>1
<1>7. \E v \in T : \A y \in T : v >= y
  BY <1>6
<1>8. Max(T) \in T /\ \A y \in T : Max(T) >= y
  BY <1>7 DEF Max
<1>9. Max(T) \in Nat
  BY <1>2, <1>8
<1> QED
  BY <1>2, <1>8, <1>9

\* The run on top of the journal, as far down as it goes.
LEMMA TopCountIs ==
    ASSUME NEW j \in Seq(Entries), NEW k, k = TopCount(j)
    PROVE  /\ k \in 0 .. Len(j)
           /\ \A i \in Len(j) - k + 1 .. Len(j) : j[i].run = TopRun(j)
<1> DEFINE T == {0} \cup {i \in DOMAIN j : j[i].run # TopRun(j)}
<1>1. Len(j) \in Nat /\ DOMAIN j = 1 .. Len(j)
  BY LenProperties
<1>2. T \subseteq 0 .. Len(j) /\ T # {}
  BY <1>1
<1>3. k = Len(j) - Max(T)
  BY DEF TopCount
<1>4. \A i \in 1 .. Len(j) : i \notin T => j[i].run = TopRun(j)
  BY <1>1
<1> HIDE DEF T
<1>5. Max(T) \in T /\ \A y \in T : y <= Max(T)
  BY <1>1, <1>2, MaxIs
<1>6. Max(T) \in 0 .. Len(j)
  BY <1>2, <1>5
<1>7. k \in 0 .. Len(j) /\ Len(j) - k = Max(T)
  BY <1>1, <1>3, <1>6
<1>8. ASSUME NEW i \in Len(j) - k + 1 .. Len(j)
      PROVE  j[i].run = TopRun(j)
  <2>1. i \in 1 .. Len(j) /\ ~(i <= Max(T))
    BY <1>1, <1>6, <1>7
  <2>2. i \notin T
    BY <1>5, <2>1
  <2> QED
    BY <1>4, <2>1, <2>2
<1> QED
  BY <1>7, <1>8

\* An edit left what the next one in the journal found, and the last what is there,
\* and did not give what it typed another name.
Meets(w, k) ==
    /\ ~Relabelled(w.journal[k])
    /\ k = Len(w.journal) => ReadsAs(w.db[w.client.program], w.journal[k].after)
    /\ k # Len(w.journal) => ReadsAs(w.journal[k + 1].before, w.journal[k].after)

LEMMA ReadsThrough ==
    ASSUME NEW p, NEW q, NEW r, ReadsAs(p, q), ReadsAs(q, r)
    PROVE  ReadsAs(p, r)
BY DEF ReadsAs

Chained(w, m) == \A k \in 1 .. Len(w.journal) : Len(w.journal) - m < k => Meets(w, k)

\* Where the undo of a run stands after n of its steps, m of which took an entry.
UndoneSoFar(w, r, n, m) ==
    /\ Moves(w, r.w)
    /\ r.w.journal = SubSeq(w.journal, 1, Len(w.journal) - m)
    /\ r.ok => m = n
    /\ ~r.ok => m # 0
    /\ Chained(w, m) /\ r.w.count.faults = w.count.faults =>
          /\ r.ok
          /\ m = 0 => ReadsAs(r.w.db[w.client.program], w.db[w.client.program])
          /\ m # 0 => ReadsAs(r.w.db[w.client.program], w.journal[Len(w.journal) - m + 1].before)

LEMMA UndoManyIs ==
    ASSUME NEW w, Kept(w), NEW want \in 0 .. Len(w.journal), NEW o \in UndoMany(w, want)
    PROVE  o \in Answers /\ \E m \in 0 .. want : UndoneSoFar(w, o, want, m)
<1> DEFINE N == Len(w.journal)
           Q == [n \in 0 .. want |-> {r \in Answers : \E m \in 0 .. n : UndoneSoFar(w, r, n, m)}]
<1>1. /\ w \in AllWorlds /\ Runs(w.journal, w.runSeq)
      /\ w.journal \in Seq(Entries) /\ w.runSeq \in Nat
      /\ w.count.faults \in Nat
  BY WorldFields DEF Kept
<1>2. N \in Nat /\ want \in Nat /\ want <= N
  BY <1>1, LenProperties
<1>3. [ok |-> TRUE, w |-> w] \in Q[0]
  <2>1. PICK r : r = [ok |-> TRUE, w |-> w]
    OBVIOUS
  <2>2. r \in Answers /\ r.ok = TRUE /\ r.w = w
    BY <1>1, <2>1 DEF Answers
  <2>3. SubSeq(w.journal, 1, Len(w.journal) - 0) = w.journal
    <3>1. Len(w.journal) - 0 = Len(w.journal)
      BY <1>2
    <3> QED
      BY <1>1, <3>1, SubSeqFull
  <2>4. Moves(w, w)
    <3>1. w.count.faults <= w.count.faults
      BY <1>1
    <3> QED
      BY <3>1 DEF Moves
  <2>5. UndoneSoFar(w, r, 0, 0)
    BY <2>2, <2>3, <2>4 DEF UndoneSoFar, ReadsAs
  <2>6. 0 \in 0 .. want /\ 0 \in 0 .. 0
    BY <1>2
  <2> QED
    BY <2>1, <2>2, <2>5, <2>6
<1>4. ASSUME NEW n \in 1 .. want, NEW r \in Q[n - 1], NEW v \in Undoes(r)
      PROVE  v \in Q[n]
  <2>1. n - 1 \in 0 .. want /\ n \in 0 .. want /\ n # 0 /\ n \in Nat /\ n <= N
    BY <1>2
  <2>2. r \in Answers /\ \E m \in 0 .. n - 1 : UndoneSoFar(w, r, n - 1, m)
    BY <1>4, <2>1
  <2>3. PICK m \in 0 .. n - 1 : UndoneSoFar(w, r, n - 1, m)
    BY <2>2
  <2>4. SUFFICES v \in Answers /\ \E l \in 0 .. n : UndoneSoFar(w, v, n, l)
    BY <2>1
  <2> HIDE DEF Q
  <2>5. m \in Nat /\ m <= n - 1 /\ m \in 0 .. n /\ m + 1 \in 0 .. n /\ m + 1 # 0
    BY <2>1
  <2>6. CASE ~r.ok
    <3>1. v = r
      BY <1>4, <2>6 DEF Undoes
    <3>2. ~(Chained(w, m) /\ r.w.count.faults = w.count.faults)
      BY <2>3, <2>6 DEF UndoneSoFar
    <3>3. UndoneSoFar(w, v, n, m)
      BY <2>3, <2>6, <3>1, <3>2 DEF UndoneSoFar
    <3> QED
      BY <2>2, <2>5, <3>1, <3>3
  <2>7. CASE r.ok
    <3>1. m = n - 1 /\ m + 1 = n
      <4>1. m = n - 1
        BY <2>3, <2>7 DEF UndoneSoFar
      <4>2. n - 1 + 1 = n
        BY <2>1
      <4> QED
        BY <4>1, <4>2
    <3>2. PICK k \in Nat \ {0} : k = N - m
      <4>1. m <= N - 1
        BY <1>2, <2>1, <3>1
      <4>2. N - m \in Nat \ {0}
        BY <1>2, <2>5, <4>1
      <4> QED
        BY <4>2
    <3>3. k \in 1 .. N /\ k - 1 \in 0 .. N /\ k - 1 = N - (m + 1) /\ N - (m + 1) + 1 = k /\ N - m = k
      <4>1. N \in Nat /\ m \in Nat
        BY <1>2, <2>5
      <4>2. \A a, b \in Nat : \A c \in Nat \ {0} : c = a - b =>
               /\ c \in 1 .. a /\ c - 1 \in 0 .. a /\ c - 1 = a - (b + 1)
               /\ a - (b + 1) + 1 = c /\ a - b = c
        OBVIOUS
      <4> HIDE DEF N
      <4> QED
        BY <3>2, <4>1, <4>2
    <3>4. /\ Moves(w, r.w) /\ r.w.journal = SubSeq(w.journal, 1, k)
      BY <2>3, <3>3 DEF UndoneSoFar
    <3>5. /\ r.w.journal \in Seq(Entries) /\ k = Len(r.w.journal)
          /\ \A i \in 1 .. k : r.w.journal[i] = w.journal[i]
      <4>1. k \in 0 .. N
        BY <1>2, <3>3
      <4> QED
        BY <1>1, <3>4, <4>1, RunsPrefix
    <3>6. v \in UndoOne(r.w) /\ Kept(r.w)
      BY <1>4, <2>7, <3>4 DEF Undoes, Moves
    <3>7. /\ v \in Answers
          /\ Moves(r.w, v.w)
          /\ v.w.journal = SubSeq(r.w.journal, 1, k - 1)
          /\ ReadsAs(r.w.db[r.w.client.program], r.w.journal[k].after) /\ ~Relabelled(r.w.journal[k])
             /\ v.w.count.faults = r.w.count.faults =>
                v.ok /\ ReadsAs(v.w.db[r.w.client.program], r.w.journal[k].before)
      <4>1. PICK x : x = r.w
        OBVIOUS
      <4>2. v \in UndoOne(x) /\ Kept(x) /\ k = Len(x.journal)
        BY <3>5, <3>6, <4>1
      <4>3. /\ v \in Answers
            /\ Moves(x, v.w)
            /\ v.w.journal = SubSeq(x.journal, 1, k - 1)
            /\ ReadsAs(x.db[x.client.program], x.journal[k].after) /\ ~Relabelled(x.journal[k])
               /\ v.w.count.faults = x.count.faults =>
                  v.ok /\ ReadsAs(v.w.db[x.client.program], x.journal[k].before)
        BY <3>2, <4>2, UndoOneIs
      <4> QED
        BY <4>1, <4>3
    <3>8. w.count.faults \in Nat /\ r.w.count.faults \in Nat /\ v.w.count.faults \in Nat
      <4>1. r.w \in AllWorlds /\ v.w \in AllWorlds
        BY <2>2, <3>7 DEF Answers
      <4> QED
        BY <1>1, <4>1, WorldFields
    <3>9. Moves(w, v.w)
      <4>1. PICK x, y : x = r.w /\ y = v.w
        OBVIOUS
      <4> QED
        BY <3>4, <3>7, <3>8, <4>1, MovesOn
    <3>10. v.w.journal = SubSeq(w.journal, 1, N - (m + 1))
      <4>1. k - 1 \in 0 .. Len(r.w.journal) /\ k - 1 \in 0 .. N
        BY <3>2, <3>3, <3>5
      <4>2. PICK l \in 0 .. N : l = k - 1 /\ l \in 0 .. Len(r.w.journal)
        BY <4>1
      <4>3. /\ SubSeq(w.journal, 1, l) \in Seq(Entries) /\ Len(SubSeq(w.journal, 1, l)) = l
            /\ \A i \in 1 .. l : SubSeq(w.journal, 1, l)[i] = w.journal[i]
        BY <1>1, RunsPrefix
      <4>4. /\ v.w.journal \in Seq(Entries) /\ Len(v.w.journal) = l
            /\ \A i \in 1 .. l : v.w.journal[i] = r.w.journal[i]
        <5>1. PICK j, c : j = r.w.journal /\ c = r.w.runSeq
          OBVIOUS
        <5>2. j \in Seq(Entries) /\ c \in Nat /\ Runs(j, c) /\ l \in 0 .. Len(j)
          BY <3>5, <3>6, <4>2, <5>1, WorldFields DEF Kept
        <5>3. /\ SubSeq(j, 1, l) \in Seq(Entries) /\ Len(SubSeq(j, 1, l)) = l
              /\ \A i \in 1 .. l : SubSeq(j, 1, l)[i] = j[i]
          BY <5>2, RunsPrefix
        <5> QED
          BY <3>7, <4>2, <5>1, <5>3
      <4>5. \A i \in 1 .. l : i \in 1 .. k
        BY <3>3, <4>2
      <4>6. \A i \in 1 .. l : v.w.journal[i] = SubSeq(w.journal, 1, l)[i]
        BY <3>5, <4>3, <4>4, <4>5
      <4>7. v.w.journal = SubSeq(w.journal, 1, l)
        <5>1. PICK a, b : a = v.w.journal /\ b = SubSeq(w.journal, 1, l)
          OBVIOUS
        <5>2. a \in Seq(Entries) /\ b \in Seq(Entries) /\ Len(a) = Len(b)
              /\ \A i \in 1 .. Len(a) : a[i] = b[i]
          BY <4>3, <4>4, <4>6, <5>1
        <5>3. a = b
          BY <5>2, SeqEqual
        <5> QED
          BY <5>1, <5>3
      <4> QED
        BY <3>3, <4>2, <4>7
    <3>11. ASSUME Chained(w, m + 1), v.w.count.faults = w.count.faults
           PROVE  v.ok /\ ReadsAs(v.w.db[w.client.program], w.journal[N - (m + 1) + 1].before)
      <4>1. Chained(w, m) /\ Meets(w, k)
        <5>1. \A i \in 1 .. N : N - m < i => N - (m + 1) < i
          BY <1>2, <2>5
        <5>2. N - (m + 1) < k
          BY <1>2, <2>5, <3>2
        <5> QED
          BY <3>3, <3>11, <5>1, <5>2 DEF Chained
      <4>2. r.w.count.faults = w.count.faults /\ v.w.count.faults = r.w.count.faults
        <5>1. w.count.faults <= r.w.count.faults /\ r.w.count.faults <= v.w.count.faults
          BY <3>4, <3>7 DEF Moves
        <5> QED
          BY <3>8, <3>11, <5>1
      <4>3. /\ m = 0 => ReadsAs(r.w.db[w.client.program], w.db[w.client.program])
            /\ m # 0 => ReadsAs(r.w.db[w.client.program], w.journal[N - m + 1].before)
        BY <2>3, <4>1, <4>2 DEF UndoneSoFar
      <4>m. /\ ~Relabelled(w.journal[k])
            /\ k = N => ReadsAs(w.db[w.client.program], w.journal[k].after)
            /\ k # N => ReadsAs(w.journal[k + 1].before, w.journal[k].after)
        BY <4>1 DEF Meets
      <4>4. ReadsAs(r.w.db[w.client.program], w.journal[k].after)
        <5>1. CASE m = 0
          <6>1. k = N
            BY <1>2, <3>2, <5>1
          <6> QED
            BY <4>3, <4>m, <5>1, <6>1, ReadsThrough
        <5>2. CASE m # 0
          <6>1. k # N /\ N - m + 1 = k + 1
            BY <1>2, <2>5, <3>2, <5>2
          <6>2. ReadsAs(w.journal[k + 1].before, w.journal[k].after)
            BY <4>m, <6>1
          <6> QED
            BY <4>3, <5>2, <6>1, <6>2, ReadsThrough
        <5> QED
          BY <5>1, <5>2
      <4>5. k \in 1 .. k /\ r.w.client = w.client
        BY <3>2, <3>4 DEF Moves
      <4>6. r.w.journal[k] = w.journal[k]
        BY <3>5, <4>5
      <4>7. v.ok /\ ReadsAs(v.w.db[w.client.program], w.journal[k].before)
        BY <3>7, <4>2, <4>m, <4>4, <4>5, <4>6
      <4> QED
        BY <3>3, <4>7
    <3>12. UndoneSoFar(w, v, n, m + 1)
      BY <2>5, <3>1, <3>9, <3>10, <3>11 DEF UndoneSoFar
    <3> QED
      BY <2>5, <3>7, <3>12
  <2> QED
    BY <2>6, <2>7
<1>5. Q[want] = {r \in Answers : \E m \in 0 .. want : UndoneSoFar(w, r, want, m)}
  BY <1>2
<1> HIDE DEF Q
<1>6. UndoMany(w, want) \subseteq Q[want]
  <2>1. \A n \in 1 .. want : \A r \in Q[n - 1] : Undoes(r) \subseteq Q[n]
    BY <1>4
  <2> QED
    BY <1>2, <1>3, <2>1, UndoLoop
<1> QED
  BY <1>5, <1>6

-----------------------------------------------------------------------------
(* Requests.                                                                *)

LEMMA WorldIs ==
    /\ World.client = client /\ World.db = db /\ World.disk = disk /\ World.ids = ids
    /\ World.journal = journal /\ World.runSeq = runSeq /\ World.index = index
    /\ World.count = count
BY DEF World

\* The world afterwards is the one the step becomes.
LEMMA Became ==
    ASSUME NEW w \in AllWorlds, Become(w)
    PROVE  World' = w /\ loaded' = loaded /\ setting' = setting
<1>1. World' = [client |-> client', db |-> db', disk |-> disk', ids |-> ids', journal |-> journal',
                runSeq |-> runSeq', index |-> index', count |-> count']
  BY DEF World
<1>2. World' = [client |-> w.client, db |-> w.db, disk |-> w.disk, ids |-> w.ids,
                journal |-> w.journal, runSeq |-> w.runSeq, index |-> w.index, count |-> w.count]
  BY <1>1 DEF Become
<1>3. w = [client |-> w.client, db |-> w.db, disk |-> w.disk, ids |-> w.ids,
           journal |-> w.journal, runSeq |-> w.runSeq, index |-> w.index, count |-> w.count]
  BY WorldFields
<1> QED
  BY <1>2, <1>3 DEF Become

\* What a step through edits leaves of the invariant.
LEMMA MovedInv ==
    ASSUME NEW w, Numbered(w), Current(w), w \in AllWorlds, NEW v, Moves(w, v)
    PROVE  Kept(v) /\ Numbered(v) /\ Current(v)
<1>1. v.index.of = w.index.of \/ v.index.of = 0
  BY NoIndexIs DEF Moves
<1>2. w.count.deaths \in Nat
  BY WorldFields
<1>3. v.client = w.client /\ v.count.deaths = w.count.deaths
  BY DEF Moves
<1>4. Numbered(v)
  BY <1>1, <1>2, <1>3 DEF Numbered
<1> QED
  BY <1>4 DEF Moves

\* An edit, of any kind.
LEMMA EditStep ==
    ASSUME EditsInv, NEW edit, Good(edit), NEW quiet, DecompEdit(edit, quiet)
    PROVE  EditsInv' /\ Len(journal) <= Len(journal')
<1>1. PICK w : w = [World EXCEPT !.count.edits = @ + 1]
  OBVIOUS
<1>2. World \in AllWorlds /\ Kept(World) /\ Numbered(World) /\ Current(World)
  BY DEF EditsInv, Kept
<1>3. /\ w \in AllWorlds /\ w.client = World.client /\ w.db = World.db /\ w.index = World.index
      /\ w.journal = World.journal /\ w.runSeq = World.runSeq
      /\ w.count.faults = World.count.faults /\ w.count.deaths = World.count.deaths
  <2> DEFINE count1 == [World.count EXCEPT !.edits = @ + 1]
  <2>1. w = [client |-> World.client, db |-> World.db, disk |-> World.disk, ids |-> World.ids,
             journal |-> World.journal, runSeq |-> World.runSeq, index |-> World.index, count |-> count1]
    BY <1>1, <1>2 DEF AllWorlds
  <2>2. /\ count1 \in [edits : Nat, faults : Nat, deaths : Nat]
        /\ count1.faults = World.count.faults /\ count1.deaths = World.count.deaths
    BY <1>2, WorldFields
  <2> HIDE DEF count1
  <2>3. w \in AllWorlds
    BY <1>2, <2>1, <2>2, WorldFields DEF AllWorlds
  <2> QED
    BY <2>1, <2>2, <2>3
<1>4. Kept(w) /\ Numbered(w) /\ Current(w)
  BY <1>2, <1>3 DEF Kept, Numbered, Current
<1>5. PICK r \in ApplyDecompEdit(w, edit, TRUE, quiet) : Become(r.w)
  BY <1>1 DEF DecompEdit
<1>6. Moves(w, r.w) /\ Len(w.journal) <= Len(r.w.journal)
  <2>1. PICK record \in BOOLEAN : record = TRUE
    OBVIOUS
  <2>2. r \in ApplyDecompEdit(w, edit, record, quiet)
    BY <1>5, <2>1
  <2> QED
    BY <1>4, <2>2, ApplyIs
<1>7. World' = r.w /\ loaded' = loaded /\ setting' = setting
  <2>1. r.w \in AllWorlds
    BY <1>6 DEF Moves, Kept
  <2> QED
    BY <1>5, <2>1, Became
<1>8. Kept(r.w) /\ Numbered(r.w) /\ Current(r.w)
  BY <1>3, <1>4, <1>6, MovedInv
<1>9. view' = view
  BY DEF DecompEdit
<1>10. Kept(World)' /\ Numbered(World)' /\ Current(World)'
  BY <1>7, <1>8 DEF Kept, Numbered, Current
<1>11. EditsInv'
  BY <1>7, <1>9, <1>10 DEF EditsInv
<1>12. Len(journal) <= Len(journal')
  <2>1. World.journal = journal /\ r.w.journal = journal'
    BY <1>5, WorldIs DEF Become
  <2> QED
    BY <1>3, <1>6, <2>1
<1> QED
  BY <1>11, <1>12


LEMMA AuthorIs ==
    ASSUME EditsInv, NEW author \in setting.authors
    PROVE  author \in Words
BY BoundsAssumption DEF EditsInv, Words

\* How a tab addresses a thing.
LEMMA Addressed ==
    ASSUME EditsInv, NEW t \in Things
    PROVE  /\ Kind(t) \in {"function", "variable", "global"}
           /\ Kind(t) = "function" <=> t = "F"
           /\ view.names[t] \in Words
           /\ (IF t \in Variables THEN view.ids[t] ELSE 0) \in Int
<1>1. view.names \in [Things -> Words \ {""}] /\ view.ids \in [Variables -> Int]
  BY DEF EditsInv, Views
<1>2. view.names[t] \in Words
  BY <1>1
<1>3. (IF t \in Variables THEN view.ids[t] ELSE 0) \in Int
  <2>1. CASE t \in Variables
    BY <1>1, <2>1
  <2>2. CASE t \notin Variables
    BY <2>2
  <2> QED
    BY <2>1, <2>2
<1>4. /\ Kind(t) \in {"function", "variable", "global"}
      /\ Kind(t) = "function" <=> t = "F"
  BY DEF Kind
<1> QED
  BY <1>2, <1>3, <1>4

LEMMA RenameStep ==
    ASSUME EditsInv, NEW t \in Things, NEW author \in setting.authors, NEW quiet,
           NEW name \in NewNames(t), DecompRename(t, name, author, quiet)
    PROVE  EditsInv' /\ Len(journal) <= Len(journal')
<1>1. PICK symbol : symbol = IF t \in Variables THEN view.ids[t] ELSE 0
  OBVIOUS
<1>2. PICK edit : edit = Edit("rename", Kind(t), symbol, view.names[t], Value(name, "", ""), author)
  OBVIOUS
<1>3. name \in Words /\ name # ""
  BY DEF NewNames, Words, Things, Variables
<1>4. Value(name, "", "") \in Values /\ Value(name, "", "").name = name
  BY <1>3 DEF Value, Values, Words
<1>5. symbol \in Int /\ view.names[t] \in Words /\ author \in Words
      /\ Kind(t) \in {"function", "variable", "global"}
  BY <1>1, Addressed, AuthorIs
<1>6. /\ edit.op = "rename" /\ edit.kind = Kind(t) /\ edit.value = Value(name, "", "")
      /\ edit \in AllEdits
  BY <1>2, <1>4, <1>5 DEF Edit, AllEdits
<1>7. Good(edit)
  BY <1>3, <1>4, <1>5, <1>6 DEF Good
<1>8. DecompEdit(edit, quiet)
  BY <1>1, <1>2 DEF DecompRename
<1> QED
  BY <1>7, <1>8, EditStep

LEMMA RetypeStep ==
    ASSUME EditsInv, NEW t \in Things, NEW author \in setting.authors, NEW quiet,
           NEW type \in NewTypes(t), DecompRetype(t, type, author, quiet)
    PROVE  EditsInv' /\ Len(journal) <= Len(journal')
<1>1. PICK symbol : symbol = IF t \in Variables THEN view.ids[t] ELSE 0
  OBVIOUS
<1>2. PICK name : name = IF t = "F" THEN "a" ELSE ""
  OBVIOUS
<1>3. PICK edit : edit = Edit("retype", Kind(t), symbol, view.names[t], Value(name, type, ""), author)
  OBVIOUS
<1>4. name \in Words /\ (t = "F" => name # "") /\ type \in Words
  BY <1>2 DEF Words, NewTypes
<1>5. Value(name, type, "") \in Values /\ Value(name, type, "").name = name
  BY <1>4 DEF Value, Values, Words
<1>6. symbol \in Int /\ view.names[t] \in Words /\ author \in Words
      /\ Kind(t) \in {"function", "variable", "global"} /\ (Kind(t) = "function" <=> t = "F")
  BY <1>1, Addressed, AuthorIs
<1>7. /\ edit.op = "retype" /\ edit.kind = Kind(t) /\ edit.value = Value(name, type, "")
      /\ edit \in AllEdits
  BY <1>3, <1>5, <1>6 DEF Edit, AllEdits
<1>8. Good(edit)
  BY <1>4, <1>5, <1>6, <1>7 DEF Good
<1>9. DecompEdit(edit, quiet)
  BY <1>1, <1>2, <1>3 DEF DecompRetype
<1> QED
  BY <1>8, <1>9, EditStep

LEMMA CommentStep ==
    ASSUME EditsInv, NEW text \in Words, NEW author \in setting.authors, NEW quiet,
           DecompComment(text, author, quiet)
    PROVE  EditsInv' /\ Len(journal) <= Len(journal')
<1>1. PICK symbol \in Int : symbol = 0
  OBVIOUS
<1>2. PICK name \in Words : name = ""
  BY DEF Words
<1>3. PICK value : value = Value("", "", text)
  OBVIOUS
<1>4. value \in Values
  BY <1>3 DEF Value, Values, Words
<1>5. PICK edit : edit = Edit("comment", "line", symbol, name, value, author)
  OBVIOUS
<1>6. edit.op = "comment" /\ edit.kind = "line" /\ edit \in AllEdits
  BY <1>4, <1>5, AuthorIs DEF Edit, AllEdits
<1>7. Good(edit)
  BY <1>6 DEF Good
<1>8. DecompEdit(edit, quiet)
  BY <1>1, <1>2, <1>3, <1>5 DEF DecompComment
<1> QED
  BY <1>7, <1>8, EditStep

\* Where an undo, of one edit or of a run, leaves things.
UndoLeaves(o, n, m) ==
    /\ Become(o.w)
    /\ UndoneSoFar(World, o, n, m)
    /\ \A i \in Len(journal) - n + 1 .. Len(journal) : journal[i].run = TopRun(journal)

LEMMA UndoLastIs ==
    ASSUME EditsInv, DecompUndoLast
    PROVE  \E o \in Answers : UndoLeaves(o, 1, 1) /\ 1 \in 1 .. Len(journal)
<1>1. PICK w : w = World
  OBVIOUS
<1>2. Kept(w) /\ w \in AllWorlds /\ w.journal = journal /\ w.journal \in Seq(Entries)
  BY <1>1, WorldIs, WorldFields DEF EditsInv, Kept
<1>3. PICK o \in UndoOne(w) : Become(o.w)
  BY <1>1 DEF DecompUndoLast
<1>4. PICK n \in Nat \ {0} : n = Len(w.journal)
  <2>1. w.journal # <<>>
    BY <1>2 DEF DecompUndoLast
  <2>2. Len(w.journal) \in Nat \ {0}
    BY <1>2, <2>1, EmptySeq, LenProperties
  <2> QED
    BY <2>2
<1>5. /\ o \in Answers
      /\ Moves(w, o.w)
      /\ o.w.journal = SubSeq(w.journal, 1, n - 1)
      /\ ReadsAs(w.db[w.client.program], w.journal[n].after) /\ ~Relabelled(w.journal[n])
         /\ o.w.count.faults = w.count.faults =>
            o.ok /\ ReadsAs(o.w.db[w.client.program], w.journal[n].before)
  BY <1>2, <1>3, <1>4, UndoOneIs
<1>6. n - 1 < n /\ n \in 1 .. n /\ 1 \in 1 .. n /\ n - 1 + 1 = n
  OBVIOUS
<1>7. Chained(w, 1) =>
         ReadsAs(w.db[w.client.program], w.journal[n].after) /\ ~Relabelled(w.journal[n])
  <2>1. Chained(w, 1) => Meets(w, n)
    BY <1>4, <1>6 DEF Chained
  <2> QED
    BY <1>4, <2>1 DEF Meets
<1>8. UndoneSoFar(w, o, 1, 1)
  <2>1. w.journal[Len(w.journal) - 1 + 1].before = w.journal[n].before
    BY <1>4, <1>6
  <2>2. Len(w.journal) - 1 = n - 1 /\ 1 # 0
    BY <1>4
  <2> QED
    BY <1>5, <1>7, <2>1, <2>2 DEF UndoneSoFar
<1>9. \A i \in n - 1 + 1 .. n : journal[i].run = TopRun(journal)
  <2>1. \A i \in n - 1 + 1 .. n : i = n
    BY <1>4
  <2>2. TopRun(journal) = journal[n].run
    BY <1>2, <1>4 DEF TopRun, Last, DecompUndoLast
  <2> QED
    BY <2>1, <2>2
<1> QED
  BY <1>1, <1>2, <1>3, <1>4, <1>5, <1>6, <1>8, <1>9 DEF UndoLeaves

LEMMA UndoRunIs ==
    ASSUME EditsInv, DecompUndoRun
    PROVE  \E n \in 1 .. Len(journal) : \E m \in 0 .. n : \E o \in Answers : UndoLeaves(o, n, m)
<1>1. PICK w : w = World
  OBVIOUS
<1>2. Kept(w) /\ w \in AllWorlds /\ w.journal = journal /\ w.journal \in Seq(Entries)
  BY <1>1, WorldIs, WorldFields DEF EditsInv, Kept
<1>3. PICK n : n = TopCount(journal)
  OBVIOUS
<1>4. /\ n \in 0 .. Len(journal)
      /\ \A i \in Len(journal) - n + 1 .. Len(journal) : journal[i].run = TopRun(journal)
  BY <1>2, <1>3, TopCountIs
<1>5. n \in 1 .. Len(journal)
  <2>1. n > 1
    BY <1>3 DEF DecompUndoRun
  <2> QED
    BY <1>4, <2>1
<1>6. PICK o \in UndoMany(w, n) : Become(o.w)
  BY <1>1, <1>3 DEF DecompUndoRun
<1>7. n \in 0 .. Len(w.journal)
  BY <1>2, <1>4
<1>8. o \in Answers /\ \E m \in 0 .. n : UndoneSoFar(w, o, n, m)
  BY <1>2, <1>6, <1>7, UndoManyIs
<1>9. PICK m \in 0 .. n : UndoneSoFar(w, o, n, m)
  BY <1>8
<1> QED
  BY <1>1, <1>4, <1>5, <1>6, <1>8, <1>9 DEF UndoLeaves

LEMMA UndoIs ==
    ASSUME EditsInv, DecompUndoLast \/ DecompUndoRun
    PROVE  \E n \in 1 .. Len(journal) : \E m \in 0 .. n : \E o \in Answers : UndoLeaves(o, n, m)
<1>1. CASE DecompUndoLast
  <2>1. PICK n \in 1 .. Len(journal) : n = 1 /\ \E o \in Answers : UndoLeaves(o, n, n)
    BY <1>1, UndoLastIs
  <2>2. n \in 0 .. n
    OBVIOUS
  <2> QED
    BY <2>1, <2>2
<1>2. CASE DecompUndoRun
  BY <1>2, UndoRunIs
<1> QED
  BY <1>1, <1>2

LEMMA UndoStep ==
    ASSUME EditsInv, DecompUndoLast \/ DecompUndoRun
    PROVE  EditsInv'
<1>a. PICK n \in 1 .. Len(journal) : \E m \in 0 .. n : \E o \in Answers : UndoLeaves(o, n, m)
  BY UndoIs
<1>1. PICK m \in 0 .. n, o \in Answers : UndoLeaves(o, n, m)
  BY <1>a
<1>2. Become(o.w) /\ Moves(World, o.w)
  BY <1>1 DEF UndoLeaves, UndoneSoFar
<1>3. World' = o.w /\ loaded' = loaded /\ setting' = setting
  <2>1. o.w \in AllWorlds
    BY <1>1 DEF Answers
  <2> QED
    BY <1>2, <2>1, Became
<1>4. Kept(o.w) /\ Numbered(o.w) /\ Current(o.w)
  <2>1. PICK w, v : w = World /\ v = o.w
    OBVIOUS
  <2>2. w \in AllWorlds /\ Numbered(w) /\ Current(w) /\ Moves(w, v)
    BY <1>2, <2>1 DEF EditsInv, Kept
  <2>3. Kept(v) /\ Numbered(v) /\ Current(v)
    BY <2>2, MovedInv
  <2> QED
    BY <2>1, <2>3
<1>5. view' = view
  BY DEF DecompUndoLast, DecompUndoRun
<1>6. Kept(World)' /\ Numbered(World)' /\ Current(World)'
  BY <1>3, <1>4 DEF Kept, Numbered, Current
<1> QED
  BY <1>3, <1>5, <1>6 DEF EditsInv

\* What the parts of the state are.
LEMMA Parts ==
    ASSUME EditsInv
    PROVE  /\ client \in [program : Programs, number : Nat]
           /\ db \in [Programs -> Sane] /\ disk \in [Programs -> Sane]
           /\ ids \in [Variables -> Int]
           /\ journal \in Seq(Entries) /\ runSeq \in Nat /\ Runs(journal, runSeq)
           /\ index \in Indexes
           /\ count \in [edits : Nat, faults : Nat, deaths : Nat]
           /\ client.number # 0 => client.number = count.deaths + 1
           /\ index.of <= count.deaths + 1
           /\ client.number = 0 => index.of <= count.deaths
<1>1. World \in AllWorlds /\ Runs(World.journal, World.runSeq) /\ Numbered(World)
  BY DEF EditsInv, Kept
<1>2. /\ World.client \in [program : Programs, number : Nat]
      /\ World.db \in [Programs -> Sane] /\ World.disk \in [Programs -> Sane]
      /\ World.ids \in [Variables -> Int]
      /\ World.journal \in Seq(Entries) /\ World.runSeq \in Nat
      /\ World.index \in Indexes
      /\ World.count \in [edits : Nat, faults : Nat, deaths : Nat]
  BY <1>1 DEF AllWorlds
<1>3. /\ client.number # 0 => client.number = count.deaths + 1
      /\ index.of <= count.deaths + 1
      /\ client.number = 0 => index.of <= count.deaths
  BY <1>1, WorldIs DEF Numbered
<1> QED
  BY <1>1, <1>2, <1>3, WorldIs

\* And the world they make.
LEMMA WorldBuilt ==
    ASSUME NEW c \in [program : Programs, number : Nat],
           NEW d \in [Programs -> Sane], NEW k \in [Programs -> Sane],
           NEW i \in [Variables -> Int], NEW j \in Seq(Entries), NEW r \in Nat, Runs(j, r),
           NEW x \in Indexes,
           NEW n \in [edits : Nat, faults : Nat, deaths : Nat],
           c.number # 0 => c.number = n.deaths + 1,
           x.of <= n.deaths + 1,
           c.number = 0 => x.of <= n.deaths,
           c.number # 0 /\ x.of = c.number /\ n.faults = 0 =>
              x.names = NamesOf(d[c.program], x.listed),
           NEW v,
           v = [client |-> c, db |-> d, disk |-> k, ids |-> i, journal |-> j,
                runSeq |-> r, index |-> x, count |-> n]
    PROVE  Kept(v) /\ Numbered(v) /\ Current(v)
<1>1. /\ v.client = c /\ v.db = d /\ v.disk = k /\ v.ids = i /\ v.journal = j
      /\ v.runSeq = r /\ v.index = x /\ v.count = n
  OBVIOUS
<1>2. v \in AllWorlds
  BY DEF AllWorlds
<1> QED
  BY <1>1, <1>2 DEF Kept, Numbered, Current

LEMMA Primed ==
    World' = [client |-> client', db |-> db', disk |-> disk', ids |-> ids', journal |-> journal',
              runSeq |-> runSeq', index |-> index', count |-> count']
BY DEF World

LEMMA NewProgramIs == NewProgram \in Sane
<1>1. Things \subseteq Words /\ "v1" \in Things /\ "v2" \in Things /\ "v1" # "v2"
  BY DEF Words, Things, Variables
<1>2. \A t \in Things : t # ""
  BY DEF Things, Variables
<1>3. PICK names, types : /\ names = [t \in Things |-> t]
                          /\ types = [t \in Things |-> IF t = "g" THEN "" ELSE "undefined"]
  OBVIOUS
<1>4. names \in [Things -> Words] /\ (\A t \in Things : names[t] # "") /\ names["v1"] # names["v2"]
  BY <1>1, <1>2, <1>3
<1>5. types \in [Things -> Words]
  <2>1. "" \in Words /\ "undefined" \in Words
    BY DEF Words
  <2> QED
    BY <1>3, <2>1
<1>6. NewProgram = [names |-> names, types |-> types, text |-> "", mark |-> "", own |-> TRUE]
  BY <1>3 DEF NewProgram
<1>7. PICK text \in Words : text = ""
  BY DEF Words
<1>o. PICK own \in BOOLEAN : own = TRUE
  OBVIOUS
<1>8. NewProgram = [names |-> names, types |-> types, text |-> text, mark |-> text, own |-> own]
  BY <1>6, <1>7, <1>o
<1>9. NewProgram \in Shapes /\ NewProgram.names = names /\ NewProgram.types = types
  BY <1>4, <1>5, <1>8 DEF Shapes
<1>10. names["g"] = Label(types["g"])
  BY <1>3 DEF Label, Things
<1> QED
  BY <1>4, <1>9, <1>10 DEF Sane

LEMMA InitInv ==
    ASSUME Init
    PROVE  EditsInv
<1>1. PICK p \in Sane : p = NewProgram
  BY NewProgramIs
<1>2. loaded \in Programs /\ setting \in Settings /\ client = [program |-> loaded, number |-> 1]
  BY DEF Init
<1>3. db \in [Programs -> Sane] /\ disk \in [Programs -> Sane]
  BY <1>1 DEF Init
<1>4. ids \in [Variables -> Int]
  BY DEF Init, Variables
<1>5. journal \in Seq(Entries) /\ Len(journal) = 0 /\ runSeq = 0 /\ runSeq \in Nat
  BY EmptySeq, LenProperties DEF Init
<1>6. Runs(journal, runSeq)
  BY <1>5 DEF Runs
<1>7. index = NoIndex /\ index \in Indexes /\ index.of = 0
  BY NoIndexIs DEF Init
<1>8. /\ count \in [edits : Nat, faults : Nat, deaths : Nat] /\ count.deaths = 0
      /\ client \in [program : Programs, number : Nat] /\ client.number = 1
  BY <1>2 DEF Init
<1>9. Kept(World) /\ Numbered(World) /\ Current(World)
  <2>1. /\ client.number # 0 => client.number = count.deaths + 1
        /\ index.of <= count.deaths + 1
        /\ client.number = 0 => index.of <= count.deaths
        /\ index.of # client.number
    BY <1>7, <1>8
  <2>2. PICK v : v = World
    OBVIOUS
  <2>3. v = [client |-> client, db |-> db, disk |-> disk, ids |-> ids, journal |-> journal,
             runSeq |-> runSeq, index |-> index, count |-> count]
    BY <2>2 DEF World
  <2>4. client.number # 0 /\ index.of = client.number /\ count.faults = 0 =>
           index.names = NamesOf(db[client.program], index.listed)
    BY <2>1
  <2>5. /\ journal \in Seq(Entries) /\ runSeq \in Nat /\ Runs(journal, runSeq)
        /\ index \in Indexes
        /\ count \in [edits : Nat, faults : Nat, deaths : Nat]
        /\ client \in [program : Programs, number : Nat]
    BY <1>5, <1>6, <1>7, <1>8
  <2>6. Kept(v) /\ Numbered(v) /\ Current(v)
    BY <1>3, <1>4, <2>1, <2>3, <2>4, <2>5, WorldBuilt
  <2> QED
    BY <2>2, <2>6
<1>10. view \in Views
  <2>1. p.names \in [Things -> Words \ {""}]
    <3>1. p.names \in [Things -> Words] /\ \A t \in Things : p.names[t] # ""
      BY DEF Sane, Shapes
    <3> QED
      BY <3>1
  <2>2. view = [names |-> p.names, ids |-> ids]
    BY <1>1 DEF Init
  <2> QED
    BY <1>4, <2>1, <2>2 DEF Views
<1> QED
  BY <1>2, <1>9, <1>10 DEF EditsInv

LEMMA IndexStep ==
    ASSUME EditsInv, NEW listed \in SUBSET Listed, DecompIndex(listed)
    PROVE  EditsInv'
<1>1. PICK x : x = [of |-> client.number, names |-> NamesOf(db[client.program], listed),
                    listed |-> listed]
  OBVIOUS
<1>2. client.number # 0 /\ client \in [program : Programs, number : Nat]
  BY Parts DEF DecompIndex, Ready
<1>3. x.of = client.number /\ x.names = NamesOf(db[client.program], x.listed)
  BY <1>1
<1>4. x \in Indexes
  <2>1. PICK p \in Sane : p = db[client.program]
    BY <1>2, Parts
  <2>2. p.names \in [Things -> Words] /\ listed \subseteq Things
    BY DEF Sane, Shapes, Things, Listed
  <2>3. \A t \in listed : <<t, p.names[t]>> \in Things \X Words
    BY <2>2
  <2>4. NamesOf(p, listed) \subseteq Things \X Words
    BY <2>3 DEF NamesOf
  <2> QED
    BY <1>1, <1>2, <2>1, <2>4 DEF Indexes
<1>5. index' = x
  BY <1>1 DEF DecompIndex
<1>6. client.number = count.deaths + 1 /\ count.deaths \in Nat
  BY <1>2, Parts
<1>7. x.of <= count.deaths + 1
  BY <1>3, <1>6
<1>8. PICK v : v = World'
  OBVIOUS
<1>9. v = [client |-> client, db |-> db, disk |-> disk, ids |-> ids, journal |-> journal,
           runSeq |-> runSeq, index |-> x, count |-> count]
  BY <1>5, <1>8, Primed DEF DecompIndex
<1>10. Kept(v) /\ Numbered(v) /\ Current(v)
  BY <1>2, <1>3, <1>4, <1>6, <1>7, <1>9, Parts, WorldBuilt
<1> QED
  BY <1>8, <1>10 DEF EditsInv, DecompIndex, Kept, Numbered, Current

LEMMA DiesStep ==
    ASSUME EditsInv, GhidraDies
    PROVE  EditsInv'
<1>1. PICK c : c = [client EXCEPT !.number = 0]
  OBVIOUS
<1>2. PICK n : n = [count EXCEPT !.deaths = @ + 1]
  OBVIOUS
<1>3. c \in [program : Programs, number : Nat] /\ c.number = 0
  BY <1>1, Parts
<1>4. /\ n \in [edits : Nat, faults : Nat, deaths : Nat] /\ n.deaths = count.deaths + 1
      /\ count.deaths \in Nat
  <2>1. PICK k \in [edits : Nat, faults : Nat, deaths : Nat] : k = count
    BY Parts
  <2>2. n = [edits |-> k.edits, faults |-> k.faults, deaths |-> k.deaths + 1]
    BY <1>2, <2>1
  <2> QED
    BY <2>1, <2>2
<1>5. index.of <= count.deaths + 1 /\ index.of \in Nat
  BY Parts DEF Indexes
<1>6. index.of <= n.deaths + 1 /\ index.of <= n.deaths
  BY <1>4, <1>5
<1>7. PICK v : v = World'
  OBVIOUS
<1>8. v = [client |-> c, db |-> disk, disk |-> disk, ids |-> ids, journal |-> journal,
           runSeq |-> runSeq, index |-> index, count |-> n]
  BY <1>1, <1>2, <1>7, Primed DEF GhidraDies
<1>9. Kept(v) /\ Numbered(v) /\ Current(v)
  BY <1>3, <1>4, <1>6, <1>8, Parts, WorldBuilt
<1> QED
  BY <1>7, <1>9 DEF EditsInv, GhidraDies, Kept, Numbered, Current

LEMMA StartsStep ==
    ASSUME EditsInv, GhidraStarts
    PROVE  EditsInv'
<1>1. loaded \in Programs
  BY DEF EditsInv
<1>2. /\ count.deaths \in Nat /\ index.of \in Nat /\ client.number = 0
      /\ index.of <= count.deaths /\ index.of <= count.deaths + 1
  BY Parts DEF GhidraStarts, Ready, Indexes
<1>3. PICK n : n = count.deaths + 1
  OBVIOUS
<1>4. n \in Nat /\ n # 0 /\ index.of # n
  BY <1>2, <1>3
<1>5. PICK c : c = [program |-> loaded, number |-> n]
  OBVIOUS
<1>6. c \in [program : Programs, number : Nat] /\ c.number = n
  BY <1>1, <1>4, <1>5
<1>7. PICK v : v = World'
  OBVIOUS
<1>8. v = [client |-> c, db |-> db, disk |-> disk, ids |-> ids, journal |-> journal,
           runSeq |-> runSeq, index |-> index, count |-> count]
  BY <1>3, <1>5, <1>7, Primed DEF GhidraStarts
<1>9. Kept(v) /\ Numbered(v) /\ Current(v)
  BY <1>2, <1>3, <1>4, <1>6, <1>8, Parts, WorldBuilt
<1> QED
  BY <1>7, <1>9 DEF EditsInv, GhidraStarts, Kept, Numbered, Current

\* What leaves the world as it is.
LEMMA RestStep ==
    ASSUME EditsInv, Reads \/ (\E prog \in Programs : ExeLoad(prog)) \/ UNCHANGED vars
    PROVE  EditsInv'
<1>1. /\ UNCHANGED <<client, db, disk, ids, journal, runSeq, index, count, setting>>
      /\ loaded' \in Programs
  BY DEF Reads, ExeLoad, vars, EditsInv
<1>2. World' = World
  BY <1>1 DEF World
<1>3. view' \in Views
  <2>1. CASE Reads
    <3>1. client \in [program : Programs, number : Nat] /\ db \in [Programs -> Sane]
          /\ ids \in [Variables -> Int]
      BY Parts
    <3>2. PICK p \in Sane : p = db[client.program]
      BY <3>1
    <3>3. p.names \in [Things -> Words \ {""}]
      <4>1. p.names \in [Things -> Words] /\ \A t \in Things : p.names[t] # ""
        BY DEF Sane, Shapes
      <4> QED
        BY <4>1
    <3>4. view' = [names |-> p.names, ids |-> ids]
      BY <2>1, <3>2 DEF Reads
    <3> QED
      BY <3>1, <3>3, <3>4 DEF Views
  <2>2. CASE ~Reads
    BY <2>2 DEF ExeLoad, vars, EditsInv
  <2> QED
    BY <2>1, <2>2
<1> QED
  BY <1>1, <1>2, <1>3 DEF EditsInv, Kept, Numbered, Current

\* Only an undo shortens the journal.
LEMMA EditsStep ==
    ASSUME EditsInv, [Next]_vars
    PROVE  EditsInv' /\ (Len(journal) <= Len(journal') \/ DecompUndoLast \/ DecompUndoRun)
<1>0. Len(journal) \in Nat /\ Len(journal) <= Len(journal)
  BY Parts, LenProperties
<1>1. ASSUME NEW t \in Things, NEW author \in setting.authors, NEW quiet \in BOOLEAN,
             NEW name \in NewNames(t), DecompRename(t, name, author, quiet)
      PROVE  EditsInv' /\ Len(journal) <= Len(journal')
  BY <1>1, RenameStep
<1>2. ASSUME NEW t \in Things, NEW author \in setting.authors, NEW quiet \in BOOLEAN,
             NEW type \in NewTypes(t), DecompRetype(t, type, author, quiet)
      PROVE  EditsInv' /\ Len(journal) <= Len(journal')
  BY <1>2, RetypeStep
<1>3. ASSUME NEW text \in Words, NEW author \in setting.authors, NEW quiet \in BOOLEAN,
             DecompComment(text, author, quiet)
      PROVE  EditsInv' /\ Len(journal) <= Len(journal')
  BY <1>3, CommentStep
<1>4. CASE DecompUndoLast \/ DecompUndoRun
  BY <1>4, UndoStep
<1>5. ASSUME NEW listed \in SUBSET Listed, DecompIndex(listed)
      PROVE  EditsInv' /\ Len(journal) <= Len(journal')
  <2>1. journal' = journal
    BY <1>5 DEF DecompIndex
  <2> QED
    BY <1>0, <1>5, <2>1, IndexStep
<1>6. CASE GhidraDies
  <2>1. journal' = journal
    BY <1>6 DEF GhidraDies
  <2> QED
    BY <1>0, <1>6, <2>1, DiesStep
<1>7. CASE GhidraStarts
  <2>1. journal' = journal
    BY <1>7 DEF GhidraStarts
  <2> QED
    BY <1>0, <1>7, <2>1, StartsStep
<1>8. CASE Reads \/ (\E prog \in Programs : ExeLoad(prog)) \/ UNCHANGED vars
  <2>1. journal' = journal
    BY <1>8 DEF Reads, ExeLoad, vars
  <2> QED
    BY <1>0, <1>8, <2>1, RestStep
<1>9. \A text \in {"", "c"} : text \in Words
  BY DEF Words
<1> QED
  BY <1>1, <1>2, <1>3, <1>4, <1>5, <1>6, <1>7, <1>8, <1>9 DEF Next

-----------------------------------------------------------------------------
(* Theorems.                                                               *)

\* In every behaviour the journal holds only inverses that put back what was
\* there before their edits (pushUndo, inverseOf), but for those of a type that
\* gave a global another of Ghidra's own names, in runs of one author each;
\* everything has a name, and the index of names is of the Ghidra in use only
\* while what its listings gave is up to date (forgetDecompIndex).
THEOREM EditsInvHolds == Spec => []EditsInv
<1>1. Init => EditsInv
  BY InitInv
<1>2. EditsInv /\ [Next]_vars => EditsInv'
  BY EditsStep
<1> QED
  BY <1>1, <1>2, PTL DEF Spec

\* The names go-to, breakpoints and searches are resolved with are those Ghidra
\* has, all that its listings gave, after any edits, undos, deaths and starts
\* (forgetDecompIndex on every edit, decompIndex for every Ghidra).  A listing
\* that failed or was cut short leaves names out, and none of them wrong.
THEOREM IndexCurrentHolds == Spec => []IndexCurrent
<1>1. EditsInv => IndexCurrent
  <2> SUFFICES ASSUME EditsInv PROVE IndexCurrent
    OBVIOUS
  <2>1. Current(World)
    BY DEF EditsInv
  <2> QED
    BY <2>1, WorldIs DEF Current, IndexCurrent, Ready
<1> QED
  BY <1>1, EditsInvHolds, PTL

\* The entries an undo takes off: the last of the journal.
LEMMA UndoneIs ==
    ASSUME NEW l \in Seq(Entries), NEW n \in 1 .. Len(l), NEW u, u = SubSeq(l, Len(l) - n + 1, Len(l))
    PROVE  /\ DOMAIN u = 1 .. n /\ Len(u) = n
           /\ \A i \in 1 .. n : u[i] = l[Len(l) - n + i]
<1>1. Len(l) \in Nat /\ n \in Nat
  BY LenProperties
<1>2. PICK a, b : a = Len(l) - n + 1 /\ b = Len(l)
  OBVIOUS
<1>3. /\ a \in Int /\ b \in Int /\ a <= b /\ b - a + 1 = n
      /\ \A i \in 1 .. n : a + i - 1 = Len(l) - n + i
      /\ \A i \in a .. b : i \in 1 .. Len(l)
  BY <1>1, <1>2
<1>4. \A i \in a .. b : l[i] \in Entries
  BY <1>3, ElementOfSeq
<1>5. u = SubSeq(l, a, b)
  BY <1>2
<1>6. /\ u \in Seq(Entries) /\ Len(u) = (IF a <= b THEN b - a + 1 ELSE 0)
      /\ \A i \in 1 .. b - a + 1 : u[i] = l[a + i - 1]
  <2>1. a \in Int /\ b \in Int
    BY <1>3
  <2>2. /\ SubSeq(l, a, b) \in Seq(Entries)
        /\ Len(SubSeq(l, a, b)) = (IF a <= b THEN b - a + 1 ELSE 0)
        /\ \A i \in 1 .. b - a + 1 : SubSeq(l, a, b)[i] = l[a + i - 1]
    BY <1>4, <2>1, SubSeqProperties
  <2> QED
    BY <1>5, <2>2
<1>7. Len(u) = n /\ DOMAIN u = 1 .. Len(u)
  BY <1>3, <1>6, LenProperties
<1>8. \A i \in 1 .. n : u[i] = l[a + i - 1]
  BY <1>3, <1>6
<1> QED
  BY <1>3, <1>7, <1>8

\* An undo of entries each of which left what the next one found, and none of
\* which gave what it typed another name, puts back what the first of them found.
LEMMA UndoRestoresStep ==
    ASSUME EditsInv, [Next]_vars
    PROVE  Restores
<1> SUFFICES ASSUME Len(journal') < Len(journal), count'.faults = count.faults, Unbroken,
                    \A i \in DOMAIN Undone : ~Relabelled(Undone[i])
             PROVE  /\ Text(db'[client.program]) = Text(Undone[1].before)
                    /\ \A i, j \in DOMAIN Undone : Undone[i].author = Undone[j].author
  BY DEF Restores
<1>1. journal \in Seq(Entries) /\ Runs(journal, runSeq) /\ Len(journal) \in Nat
  BY Parts, LenProperties
<1>2. EditsInv' /\ (Len(journal) <= Len(journal') \/ DecompUndoLast \/ DecompUndoRun)
  BY EditsStep
<1>3. Len(journal') \in Nat
  <2>1. World' \in AllWorlds
    BY <1>2 DEF EditsInv, Kept
  <2>2. PICK v : v = World' /\ v.journal = journal'
    BY Primed
  <2>3. journal' \in Seq(Entries)
    BY <2>1, <2>2, WorldFields
  <2> QED
    BY <2>3, LenProperties
<1>4. ~(Len(journal) <= Len(journal'))
  BY <1>1, <1>3
<1>5. \E n \in 1 .. Len(journal) : \E m \in 0 .. n : \E o \in Answers : UndoLeaves(o, n, m)
  BY <1>2, <1>4, UndoIs
<1>6. PICK n \in 1 .. Len(journal) : \E m \in 0 .. n : \E o \in Answers : UndoLeaves(o, n, m)
  BY <1>5
<1>7. PICK m \in 0 .. n, o \in Answers : UndoLeaves(o, n, m)
  BY <1>6
<1>8. /\ UndoneSoFar(World, o, n, m) /\ journal' = o.w.journal /\ db' = o.w.db /\ count' = o.w.count
      /\ \A i \in Len(journal) - n + 1 .. Len(journal) : journal[i].run = TopRun(journal)
  BY <1>7 DEF UndoLeaves, Become
<1>9. /\ journal' = SubSeq(journal, 1, Len(journal) - m)
      /\ o.ok => m = n
      /\ ~o.ok => m # 0
      /\ Chained(World, m) =>
            /\ o.ok
            /\ m # 0 => ReadsAs(db'[client.program], journal[Len(journal) - m + 1].before)
  BY <1>8, WorldIs DEF UndoneSoFar
<1>10. n # 0 /\ m # 0 /\ m \in 1 .. Len(journal) /\ Len(journal) - m \in 0 .. Len(journal)
  BY <1>1, <1>9
<1>11. Len(journal') = Len(journal) - m
  <2>1. PICK k \in 0 .. Len(journal) : k = Len(journal) - m
    BY <1>10
  <2>2. Len(SubSeq(journal, 1, k)) = k
    BY <1>1, RunsPrefix, Parts
  <2> QED
    BY <1>9, <2>1, <2>2
<1>12. PICK u : u = Undone
  OBVIOUS
<1>13. /\ DOMAIN u = 1 .. m /\ Len(u) = m
       /\ \A i \in 1 .. m : u[i] = journal[Len(journal) - m + i]
  <2>1. PICK l \in Seq(Entries) : l = journal
    BY <1>1
  <2>2. u = SubSeq(l, Len(l) - m + 1, Len(l)) /\ m \in 1 .. Len(l)
    BY <1>10, <1>11, <1>12, <2>1 DEF Undone
  <2>3. /\ DOMAIN u = 1 .. m /\ Len(u) = m
        /\ \A i \in 1 .. m : u[i] = l[Len(l) - m + i]
    BY <2>2, UndoneIs
  <2> QED
    BY <2>1, <2>3
<1>14. Last(u) = journal[Len(journal)] /\ u[1] = journal[Len(journal) - m + 1]
  <2>1. 1 \in 1 .. m /\ m \in 1 .. m /\ Len(journal) - m + m = Len(journal)
    BY <1>1, <1>10
  <2>2. u[m] = journal[Len(journal) - m + m]
    BY <1>13, <2>1
  <2> QED
    BY <1>13, <2>1, <2>2 DEF Last
<1>15. /\ ReadsAs(db[client.program], Last(u).after)
       /\ \A i \in 1 .. m : i > 1 => ReadsAs(u[i].before, u[i - 1].after)
  BY <1>12, <1>13 DEF Unbroken
<1>16. ASSUME NEW k \in 1 .. Len(journal), Len(journal) - m < k
       PROVE  Meets(World, k)
  <2>0. ~Relabelled(journal[k])
    <3>1. PICK i : i = k - (Len(journal) - m)
      OBVIOUS
    <3>2. i \in 1 .. m /\ Len(journal) - m + i = k
      BY <1>1, <1>10, <1>16, <3>1
    <3>3. u[i] = journal[k] /\ i \in DOMAIN u
      BY <1>13, <3>2
    <3> QED
      BY <1>12, <3>3
  <2>1. CASE k = Len(journal)
    BY <1>14, <1>15, <2>0, <2>1, WorldIs DEF Meets
  <2>2. CASE k # Len(journal)
    <3>1. PICK i : i = k - (Len(journal) - m) + 1
      OBVIOUS
    <3>2. /\ i \in 1 .. m /\ i > 1 /\ i - 1 \in 1 .. m
          /\ Len(journal) - m + i = k + 1 /\ Len(journal) - m + (i - 1) = k
      BY <1>1, <1>10, <1>16, <2>2, <3>1
    <3>3. u[i] = journal[Len(journal) - m + i] /\ u[i - 1] = journal[Len(journal) - m + (i - 1)]
      BY <1>13, <3>2
    <3>4. u[i] = journal[k + 1] /\ u[i - 1] = journal[k]
      BY <3>2, <3>3
    <3>5. ReadsAs(u[i].before, u[i - 1].after)
      BY <1>15, <3>2
    <3>6. ReadsAs(journal[k + 1].before, journal[k].after)
      BY <3>4, <3>5
    <3> QED
      BY <2>0, <2>2, <3>6, WorldIs DEF Meets
  <2> QED
    BY <2>1, <2>2
<1>17. Chained(World, m)
  BY <1>16, WorldIs DEF Chained
<1>18. Text(db'[client.program]) = Text(u[1].before)
  BY <1>9, <1>10, <1>14, <1>17 DEF ReadsAs
<1>19. ASSUME NEW i \in DOMAIN u, NEW j \in DOMAIN u
       PROVE  u[i].author = u[j].author
  <2>1. m = n
    BY <1>9, <1>17
  <2>2. PICK a, b : a = Len(journal) - m + i /\ b = Len(journal) - m + j
    OBVIOUS
  <2>3. /\ a \in 1 .. Len(journal) /\ b \in 1 .. Len(journal)
        /\ a \in Len(journal) - n + 1 .. Len(journal) /\ b \in Len(journal) - n + 1 .. Len(journal)
    <3>1. i \in 1 .. m /\ j \in 1 .. m
      BY <1>13
    <3> QED
      BY <1>1, <1>10, <2>1, <2>2, <3>1
  <2>4. journal[a].run = journal[b].run
    BY <1>8, <2>3
  <2>5. journal[a].author = journal[b].author
    BY <1>1, <2>3, <2>4 DEF Runs
  <2>6. u[i] = journal[a] /\ u[j] = journal[b]
    BY <1>13, <2>2
  <2> QED
    BY <2>5, <2>6
<1> QED
  BY <1>12, <1>18, <1>19

\* Undoing the last edit, or the run of edits on top of the journal, puts back
\* what the program said before them, whoever else has read it since, unless
\* something not in the journal changed it in between, or one of them was a type
\* that gave a global another of Ghidra's own names (undoOne, undoMany).
THEOREM UndoRestoresHolds == Spec => UndoRestores
<1>1. EditsInv /\ [Next]_vars => [Restores]_vars
  BY UndoRestoresStep
<1> QED
  BY <1>1, EditsInvHolds, PTL DEF Spec, UndoRestores
===============================================================================
