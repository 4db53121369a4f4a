------------------------------ MODULE MCBridge -------------------------------
(* Instances of Bridge: what one behaviour of a run may meet; and of Login,  *)
(* which gets a bridge there.                                              *)
EXTENDS Bridge, Login

Setting(kinds, tools, resumes, chatter, breaks) ==
    [kinds |-> kinds, tools |-> tools, resumes |-> resumes, chatter |-> chatter, breaks |-> breaks]

\* An agent and a person who run one program.
Running == Setting({"exec", "pause", "wait"}, 2, 2, 0, FALSE)

\* A decompiler that comes and goes, and other reads.
Decompiling == Setting({"decomp", "pass"}, 2, 0, 3, FALSE)

\* A connection that breaks at any moment of any tool.
Breaking == Setting(Kinds, 2, 1, 0, TRUE)

\* No tool is called: bridges and people look for the server.
Joining == Setting({}, 0, 0, 0, FALSE)

AllSettings == {Running, Decompiling, Breaking, Joining}

-----------------------------------------------------------------------------

MCInit ==
    /\ Init /\ LoginInit
    /\ setting = Joining => program.state = "noProgram" /\ ~runAllowed

MCNext ==
    \/ Next /\ UNCHANGED loginVars
    \/ setting = Joining /\ LoginNext /\ UNCHANGED vars

MCFairSpec ==
    /\ MCInit /\ [][MCNext]_<<vars, loginVars>>
    /\ WF_vars(Answers) /\ WF_vars(Read \/ Push) /\ WF_vars(ReadFails)
    /\ WF_vars(Steps) /\ WF_vars(Deadline)
==============================================================================
