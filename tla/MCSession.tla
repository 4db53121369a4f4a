------------------------------ MODULE MCSession ------------------------------
(* What is asked of the session and what goes wrong, in settings small enough *)
(* for TLC.                                                                   *)
EXTENDS Session

CONSTANTS tab, tool

Setting(clients, kinds, modes, stops, runs, late, deaths) ==
    [clients |-> clients, kinds |-> kinds, modes |-> modes, stops |-> stops, runs |-> runs,
     late |-> late, deaths |-> deaths]

\* Commands time out and the console resumes behind the mirror's back.
Unheard == Setting({tool}, {"load", "run", "continue", "kill", "console"},
                   {"none"}, 2, 2, 1, 0)

\* gdb dies, with commands that timed out, and is replaced.
Replaced == Setting({tool}, {"load", "run", "continue", "restart"},
                    {"none"}, 2, 2, 1, 1)

\* Line walks, and runs that have deferred breakpoints.
Walked == Setting({tab, tool}, {"load", "run", "runTo", "continue", "stepLine"},
                  {"none", "resume", "stop"}, 3, 1, 0, 0)

\* The same with steps that time out.
WalkedUnheard == Setting({tab}, {"load", "run", "continue", "stepLine"},
                         {"none", "resume"}, 3, 1, 1, 0)

\* A program is run again while stops of the one before are on their way.
Rerun == Setting({tab}, {"load", "run", "continue", "kill"},
                 {"none"}, 4, 2, 0, 0)

\* The same with runs and resumes that time out.
RerunUnheard == Setting({tool}, {"load", "run", "continue", "kill"},
                        {"none", "resume"}, 3, 2, 1, 0)

AllSettings == {Unheard, Replaced, Walked, WalkedUnheard, Rerun, RerunUnheard}
=============================================================================
