---------------------------- MODULE BoundedRetry ----------------------------
(***************************************************************************)
(* What the queue of derivation work promises to the rest of the service,  *)
(* without rows, clocks, reports or workers.  A job is asked for, is       *)
(* tried at most Budget times, and is then either done with or given up;   *)
(* a job that was given up is never tried again.  JobQueue implements it.  *)
(***************************************************************************)
EXTENDS Naturals

CONSTANTS Jobs,   \* what there may be work for
          Budget  \* how many times one request for work may be tried

VARIABLES phase,  \* [Jobs -> Phases]
          tries   \* how often the current (or last) request was tried

abstractVars == <<phase, tries>>

Phases == {"idle", "owed", "abandoned"}

Init == /\ phase = [j \in Jobs |-> "idle"]
        /\ tries = [j \in Jobs |-> 0]

\* Work is asked for; asking again while it is owed or abandoned changes nothing.
Ask(j) == /\ phase[j] = "idle"
          /\ phase' = [phase EXCEPT ![j] = "owed"]
          /\ tries' = [tries EXCEPT ![j] = 0]

\* The work is handed out once more, within its budget.
Try(j) == /\ phase[j] = "owed"
          /\ tries[j] < Budget
          /\ tries' = [tries EXCEPT ![j] = @ + 1]
          /\ UNCHANGED phase

\* Somebody reports that there is nothing left to do, abandoned or not.
Settle(j) == /\ phase[j] # "idle"
             /\ phase' = [phase EXCEPT ![j] = "idle"]
             /\ UNCHANGED tries

\* Some of the work that is owed is given up.
Abandon(S) == /\ \A j \in S : phase[j] = "owed"
              /\ phase' = [j \in Jobs |-> IF j \in S THEN "abandoned" ELSE phase[j]]
              /\ UNCHANGED tries

Next == \/ \E j \in Jobs : Ask(j) \/ Try(j) \/ Settle(j)
        \/ \E S \in SUBSET Jobs : Abandon(S)

Spec == Init /\ [][Next]_abstractVars

=============================================================================
