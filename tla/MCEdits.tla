------------------------------- MODULE MCEdits -------------------------------
(* Instances of Edits: what one behaviour of a run may meet.               *)
EXTENDS Edits

CONSTANTS A, B

Setting(edits, faults, deaths, authors) ==
    [edits |-> edits, faults |-> faults, deaths |-> deaths, authors |-> authors]

\* A person and an agent at work, and one more edit than the journal holds.
Together == Setting(3, 0, 0, {"", "agent"})

\* One edit whose answer never comes, or that is not saved.
Faulty == Setting(2, 1, 0, {""})

\* A Ghidra that dies, and one for what is loaded then.
Mortal == Setting(2, 0, 1, {"agent"})

AllSettings == {Together, Faulty, Mortal}
==============================================================================
