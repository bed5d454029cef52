----------------------------- MODULE Allowance ------------------------------
(***************************************************************************)
(* What the executor promises of an account, however its runs overlap and  *)
(* whatever fails: a run is granted, once, a signed quantity per symbol;   *)
(* each grant is used at most once, moves the position in the granted      *)
(* direction by no more than was granted, and nothing else moves a         *)
(* position.                                                               *)
(***************************************************************************)
EXTENDS Integers

CONSTANTS Symbols, Runs

VARIABLES
    pos,        \* the position in each symbol
    granted,    \* the runs that have had their grant
    allowance   \* what each run may still move each position by

vars == <<pos, granted, allowance>>

Init ==
    /\ pos \in [Symbols -> Int]
    /\ granted = {}
    /\ allowance = [r \in Runs |-> [s \in Symbols |-> 0]]

Grant(r) ==
    /\ r \notin granted
    /\ granted' = granted \cup {r}
    /\ \A s \in Symbols : allowance'[r][s] \in Int
    /\ allowance' = [allowance EXCEPT ![r] = allowance'[r]]
    /\ UNCHANGED pos

Within(change, limit) == (0 <= change /\ change <= limit) \/ (limit <= change /\ change <= 0)

Use(r, s) ==
    /\ Within(pos'[s] - pos[s], allowance[r][s])
    /\ pos' = [pos EXCEPT ![s] = pos'[s]]
    /\ allowance' = [allowance EXCEPT ![r][s] = 0]
    /\ UNCHANGED granted

\* An order that fails, or a run that dies, gives up part of its grant; an
\* order rounded down gives up the rest of what was granted to it.
GiveUp(r) ==
    /\ \A s \in Symbols : Within(allowance'[r][s], allowance[r][s])
    /\ allowance' = [allowance EXCEPT ![r] = allowance'[r]]
    /\ UNCHANGED <<pos, granted>>

Next == \E r \in Runs : Grant(r) \/ GiveUp(r) \/ \E s \in Symbols : Use(r, s)

Spec == Init /\ [][Next]_vars
=============================================================================
