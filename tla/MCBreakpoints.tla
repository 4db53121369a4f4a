---------------------------- MODULE MCBreakpoints ----------------------------
(* What is asked about breakpoints and what goes wrong, in settings small     *)
(* enough for TLC.                                                            *)
EXTENDS Breakpoints

Setting(kinds, numbers, tags, stops, late, deaths, refuse) ==
    [kinds |-> kinds, numbers |-> numbers, tags |-> tags, stops |-> stops,
     late |-> late, deaths |-> deaths, refuse |-> refuse]

\* Breakpoints on names, and runs that place them.
Deferring == Setting({"name", "enable", "load", "run", "runTo", "continue"},
    3, 2, 2, 0, 0, TRUE)

DeferringWell == Setting({"name", "line", "load", "run", "continue"},
    4, 2, 2, 0, 0, FALSE)

\* The pane and the console change the same breakpoints.
Typing == Setting({"line", "delete", "enable", "list", "typed"},
    3, 1, 0, 0, 0, FALSE)

\* Breakpoints are hit, lines are resolved anew and gdb makes its own.
Running == Setting({"temporary", "line", "delete", "list", "load", "run", "runTo"},
    3, 2, 2, 0, 0, FALSE)

\* Commands time out.
Unheard == Setting({"line", "delete", "list", "load", "run"},
    3, 1, 1, 1, 0, FALSE)

\* gdb dies and is replaced.
Replaced == Setting({"line", "name", "enable", "load", "run", "restart"},
    4, 2, 1, 0, 1, FALSE)

\* A library is loaded as the program runs, or is not before gdb dies.
Libraries == Setting({"library", "line", "list", "load", "run", "restart"},
    3, 2, 2, 0, 1, FALSE)

\* A run over a stopped program, whose exit is still queued when the next begins.
Overtaking == Setting({"name", "load", "run", "continue"},
    2, 1, 4, 0, 0, FALSE)

\* What was typed at a gdb that died is told of a number of the next one.
Inheriting == Setting({"name", "line", "load", "typed", "restart"},
    2, 2, 0, 0, 1, FALSE)

AllSettings == {Deferring, DeferringWell, Typing, Running, Unheard, Replaced,
                Libraries, Overtaking, Inheriting}
=============================================================================
