------------------------------ MODULE MICalls ------------------------------
(***************************************************************************)
(* What mi.Client promises to whoever calls Send or SendUnlocked, without  *)
(* tokens, queues and goroutines: a call may fail at any moment, but a     *)
(* command is executed at most once, a caller's commands are executed in   *)
(* the order they were issued, and success means it was executed.          *)
(***************************************************************************)
EXTENDS Naturals, Sequences

CONSTANT Callers    \* goroutines that issue commands

VARIABLES
    active,     \* the caller has a call outstanding
    calls,      \* number of its current (or last) call
    outcome,    \* how that call ended: "none", "reply", "failed"
    executed    \* the commands gdb has executed, in order

vars == <<active, calls, outcome, executed>>

Executed(c, n) == \E i \in 1..Len(executed) : executed[i] = [by |-> c, n |-> n]

Init ==
    /\ active = [c \in Callers |-> FALSE]
    /\ calls = [c \in Callers |-> 0]
    /\ outcome = [c \in Callers |-> "none"]
    /\ executed = <<>>

Begin(c) ==
    /\ ~active[c]
    /\ active' = [active EXCEPT ![c] = TRUE]
    /\ calls' = [calls EXCEPT ![c] = @ + 1]
    /\ outcome' = [outcome EXCEPT ![c] = "none"]
    /\ UNCHANGED executed

\* gdb executes call n of c, which may be one that c no longer waits for.
Execute(c, n) ==
    /\ n <= calls[c]
    /\ \A i \in 1..Len(executed) : executed[i].by = c => executed[i].n < n
    /\ executed' = Append(executed, [by |-> c, n |-> n])
    /\ UNCHANGED <<active, calls, outcome>>

Succeed(c) ==
    /\ active[c]
    /\ Executed(c, calls[c])
    /\ active' = [active EXCEPT ![c] = FALSE]
    /\ outcome' = [outcome EXCEPT ![c] = "reply"]
    /\ UNCHANGED <<calls, executed>>

\* The command may have been executed, may yet be, or never reached gdb.
Fail(c) ==
    /\ active[c]
    /\ active' = [active EXCEPT ![c] = FALSE]
    /\ outcome' = [outcome EXCEPT ![c] = "failed"]
    /\ UNCHANGED <<calls, executed>>

Next ==
    \E c \in Callers :
        \/ Begin(c) \/ Succeed(c) \/ Fail(c)
        \/ \E n \in 1..calls[c] : Execute(c, n)

Spec == Init /\ [][Next]_vars
=============================================================================
