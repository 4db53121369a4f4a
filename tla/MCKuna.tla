-------------------------------- MODULE MCKuna --------------------------------
(* Two functions, asked for by two callers of one kuna. *)
EXTENDS Kuna
===============================================================================
