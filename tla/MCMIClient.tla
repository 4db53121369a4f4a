----------------------------- MODULE MCMIClient -----------------------------
(* Instances of MIClient small enough for TLC. *)
EXTENDS MIClient, TLC

CONSTANTS actor, tab, closer

\* One call each for the actor and a tab's pause, and the three commands of Close.
OneAndClose == (actor :> 1 @@ tab :> 1 @@ closer :> 3)

\* Two callers of Send, one of them twice; nobody closes the client.
TwoAndOne == (actor :> 2 @@ tab :> 1 @@ closer :> 0)
=============================================================================
