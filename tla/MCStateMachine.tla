--------------------------- MODULE MCStateMachine ---------------------------
(* Small instances of StateMachine. *)
EXTENDS StateMachine, TLC

CONSTANTS a, b, c
TwoRanks   == a :> 1 @@ b :> 2
ThreeRanks == a :> 1 @@ b :> 2 @@ c :> 3

\* What a call to the Starter or the Stopper may leave in progress.
NoWorks    == {{}}
StartWorks == {{}, {"start"}}
AllWorks   == {{}, {"start"}, {"stop"}}

-----------------------------------------------------------------------------
(* Later states of the cluster to start from, each reached from Init. *)

AllRUNNING == [j \in Instance |-> "RUNNING"]

\* The cluster at work behind a, nothing being in flight.
Settled == [state |-> "OPERATION", master |-> a, states |-> AllRUNNING]
SettledInit ==
    /\ up = [i \in Instance |-> TRUE]
    /\ modes = [i \in Instance |-> [j \in Instance |-> Settled]]
    /\ mark = [i \in Instance |-> FALSE] /\ late = [i \in Instance |-> FALSE]
    /\ degraded = [i \in Instance |-> FALSE] /\ jobs = [i \in Instance |-> {}]
    /\ answer = [i \in Instance |-> [j \in Instance |-> NoAnswer]]
    /\ outbox = [i \in Instance |-> [j \in Instance |-> <<>>]]
    /\ failing = [i \in Instance |-> {}]
    /\ heard = [i \in Instance |-> [j \in Instance |-> 2]]
    /\ cut = {} /\ crashes = 0 /\ cuts = 0 /\ conflicts = 0
SettledSpec == SettledInit /\ [][Next]_vars /\ Fairness

\* Instances started together: each has just activated the others, and holds
\* what it got from them in the handshakes, when they had activated nobody yet.
Met == [state |-> "SYNCHRONIZATION", master |-> NoMaster, states |-> AllRUNNING]
MetInit ==
    LET m(j) == [Met EXCEPT !.states = [k \in Instance |-> IF k = j THEN "RUNNING" ELSE "CHECKING"]]
    IN  /\ up = [i \in Instance |-> TRUE]
        /\ modes = [i \in Instance |-> [j \in Instance |-> IF i = j THEN Met ELSE m(j)]]
        /\ mark = [i \in Instance |-> TRUE] /\ late = [i \in Instance |-> FALSE]
        /\ degraded = [i \in Instance |-> TRUE] /\ jobs = [i \in Instance |-> {}]
        /\ answer = [i \in Instance |-> [j \in Instance |-> NoAnswer]]
        /\ outbox = [i \in Instance |-> [j \in Instance |-> <<>>]]
        /\ failing = [i \in Instance |-> {}]
        /\ heard = [i \in Instance |-> [j \in Instance |-> 2]]
        /\ cut = {} /\ crashes = 0 /\ cuts = 0 /\ conflicts = 0
MetSpec == MetInit /\ [][Next]_vars /\ Fairness
=============================================================================
