------------------------------ MODULE MCDecomp ------------------------------
(* Instances of Decomp small enough for TLC. *)
EXTENDS Decomp

Config(set) == [f \in {"ghidra", "kuna", "sidecars", "project", "binary"} |-> f \in set]

\* The command lines main accepts, by what maybeStartDecomp tells apart.
AllConfigs ==
    { Config(set) : set \in
        {{"ghidra"}, {"ghidra", "project"}, {"ghidra", "binary", "kuna"}, {"sidecars"}, {"kuna"},
         {"ghidra", "kuna"}, {"sidecars", "kuna"}, {"ghidra", "sidecars"},
         {"ghidra", "sidecars", "kuna"}} }

GhidraAndKuna == {Config({"ghidra", "kuna"})}
=============================================================================
