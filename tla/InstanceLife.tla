---------------------------- MODULE InstanceLife ----------------------------
(***************************************************************************)
(* What a Supvisors instance i promises about every instance j it knows:   *)
(* the state of j in its context only follows the life cycle of            *)
(* instancestatus.py, each transition having the one cause it may have.    *)
(* An event handled by i may take j through several states at once: a step *)
(* below is what is left of them when the handler returns.                 *)
(*                                                                         *)
(* The first two variables are the promise.  The others are what happens   *)
(* to i, about which nothing is promised.                                  *)
(***************************************************************************)
CONSTANTS Instance,
          AutoFence     \* auto_fence

VARIABLES alive,        \* alive[i]: i runs
          status,       \* status[i][j]: the state of j in the context of i
          answered,     \* answered[i][j]: the authorization i got from j, not handled yet
          reported,     \* reported[i]: the instances a failure was reported of
          silent,       \* silent[i]: the instances whose TICKs do not come
          restarted     \* restarted[i]: the instances whose TICKs come from a new life

Unknown(i) == \A j \in Instance : status[i][j] = "STOPPED"

\* Instances that do not run know nothing.  The others have any past.
Init == \A i \in Instance : ~alive[i] => Unknown(i)

\* What becomes of an instance that is lost: without auto_fence, it may come back.
\* The local instance is never isolated.
Gone(i, j) == IF AutoFence /\ j # i THEN {"STOPPED", "ISOLATED"} ELSE {"STOPPED"}

\* A handshake starts with a TICK, with an instance that is STOPPED.
Discovers(i, j) ==
    /\ status[i][j] = "STOPPED" /\ status'[i][j] = "CHECKING"
    /\ j = i \/ j \notin silent[i]

\* The handshake in progress ends as j has answered.
Accepts(i, j) ==
    /\ status[i][j] = "CHECKING" /\ answered[i][j] = "AUTHORIZED"
    /\ status'[i][j] \in {"CHECKED", "RUNNING"}

Rejects(i, j) ==
    /\ status[i][j] = "CHECKING" /\ answered[i][j] \in {"UNKNOWN", "NOT_AUTHORIZED"}
    /\ status'[i][j] = IF answered[i][j] = "NOT_AUTHORIZED" /\ j # i THEN "ISOLATED" ELSE "STOPPED"

\* An instance that has passed the handshake joins the others.
Joins(i, j) == status[i][j] = "CHECKED" /\ status'[i][j] = "RUNNING"

\* A request to j has failed.
Fails(i, j) ==
    /\ status[i][j] \in {"CHECKING", "CHECKED", "RUNNING"} /\ j \in reported[i]
    /\ status'[i][j] = "FAILED"

\* The periodical check finds j inactive.
Vanishes(i, j) ==
    /\ status[i][j] \notin {"STOPPED", "ISOLATED"} /\ j # i /\ j \in silent[i] \cup restarted[i]
    /\ status'[i][j] \in Gone(i, j)

\* A FAILED instance is invalidated.
Leaves(i, j) == status[i][j] = "FAILED" /\ status'[i][j] \in Gone(i, j)

Follows(i, j) ==
    \/ status'[i][j] = status[i][j]
    \/ Discovers(i, j) \/ Accepts(i, j) \/ Rejects(i, j) \/ Joins(i, j)
    \/ Fails(i, j) \/ Vanishes(i, j) \/ Leaves(i, j)

\* i starts, with its own handshake.
Begins(i) ==
    /\ ~alive[i] /\ alive'[i] /\ Discovers(i, i)
    /\ \A j \in Instance \ {i} : status'[i][j] = status[i][j]

\* i handles an event.
Handles(i) == alive[i] /\ alive'[i] /\ \A j \in Instance : Follows(i, j)

\* i stops and forgets everything.
Ends(i) == alive[i] /\ ~alive'[i] /\ Unknown(i)'

Next ==
    \E i \in Instance :
        /\ Begins(i) \/ Handles(i) \/ Ends(i)
        /\ \A k \in Instance \ {i} : alive'[k] = alive[k] /\ status'[k] = status[k]

Spec == Init /\ [][Next]_<<alive, status>>
=============================================================================
