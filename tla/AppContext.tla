----------------------------- MODULE AppContext -----------------------------
(***************************************************************************)
(* What rsync promises about one AppContext: its status, the "status"      *)
(* level that the orchestrator reads, and the resources that exist in the  *)
(* clusters.  Goroutines, retries, the stop flag and the statuses of the   *)
(* single resources are below this level.                                  *)
(***************************************************************************)
EXTENDS Naturals

CONSTANTS
    Units,  \* the (app, cluster) pairs of the context
    NRes    \* the number of resources of a unit, in their order

VARIABLES
    status,  \* the AppContextStatus
    present  \* the resources of each unit that exist in its cluster

absVars == <<status, present>>

Init ==
    /\ status = "none"
    /\ present = [u \in Units |-> {}]

BeginInstantiate ==
    /\ status = "none"
    /\ status' = "Instantiating"
    /\ UNCHANGED present

\* Resources appear one by one and in order.
Install(u, i) ==
    /\ status = "Instantiating"
    /\ 1 .. (i - 1) \subseteq present[u]
    /\ present' = [present EXCEPT ![u] = @ \cup {i}]
    /\ UNCHANGED status

EndInstantiate ==
    /\ status = "Instantiating"
    /\ status' \in {"Instantiated", "InstantiateFailed"}
    /\ UNCHANGED present

\* A terminate waits for the end of an instantiation, successful or not, that
\* has begun.
BeginTerminate ==
    /\ status \in {"none", "Instantiated", "InstantiateFailed"}
    /\ status' = "Terminating"
    /\ UNCHANGED present

Delete(u, i) ==
    /\ status = "Terminating"
    /\ present' = [present EXCEPT ![u] = @ \ {i}]
    /\ UNCHANGED status

EndTerminate ==
    /\ status = "Terminating"
    /\ status' \in {"Terminated", "TerminateFailed"}
    /\ UNCHANGED present

Next ==
    \/ BeginInstantiate \/ EndInstantiate \/ BeginTerminate \/ EndTerminate
    \/ \E u \in Units, i \in 1 .. NRes : Install(u, i) \/ Delete(u, i)

Spec == Init /\ [][Next]_absVars

=============================================================================
