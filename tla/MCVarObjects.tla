---------------------------- MODULE MCVarObjects ----------------------------
(* What is asked of variable objects, in settings small enough for TLC.       *)
EXTENDS VarObjects

Setting(kinds, names, watches, stops, unheard, deaths) ==
    [kinds |-> kinds, names |-> names, watches |-> watches, stops |-> stops,
     unheard |-> unheard, deaths |-> deaths]

\* Rows opened and values written as frames come, go and are selected.
Frames == Setting({"expand", "assign", "write", "select", "add", "run"}, 4, 1, 2, 0, 0)

\* More rows and watches than the registry holds, and watches that are edited.
Full == Setting({"expand", "assign", "add", "remove", "edit", "run"}, 5, 2, 2, 0, 0)

\* Watches through a re-run, the console and a new gdb.
Rerun == Setting({"expand", "add", "edit", "typed", "run", "restart"}, 4, 2, 3, 0, 1)

\* Commands that gdb executes and nobody hears of.
Unheard == Setting({"expand", "add", "edit", "remove", "run"}, 4, 2, 2, 1, 0)

AllSettings == {Frames, Full, Rerun, Unheard}
=============================================================================
