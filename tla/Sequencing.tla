----------------------------- MODULE Sequencing -----------------------------
(***************************************************************************)
(* What a Starter or a Stopper promises about the order of its commands:   *)
(* the applications are processed by rank, and the processes of an         *)
(* application by number. Nothing begins before what precedes it is        *)
(* complete, and nothing that waits is overtaken.                          *)
(***************************************************************************)
EXTENDS Integers

CONSTANTS RankOf,     \* the rank of each application
          NumberOf,   \* the number of each process in its application
          Owner       \* the application of each process

VARIABLES expected,   \* the applications that wait for their turn
          round,      \* the applications being processed
          deferred,   \* the applications requested once something else ends
          todo,       \* the processes of the round that wait for their turn
          busy        \* the processes of the round being commanded

(* The applications A begin together: they have the same rank as those     *)
(* being processed, which is not later than the ranks left behind.         *)
Begins(A, working, behind) ==
  \A a \in A : /\ \A b \in working : RankOf[b] = RankOf[a]
               /\ \A b \in behind : RankOf[b] >= RankOf[a]

(* The processes P are commanded together: they have the same number as    *)
(* those being commanded in their application, which is not later than the *)
(* numbers left behind.                                                    *)
Commands(P, working, behind) ==
  \A p \in P : /\ \A q \in working : Owner[q] = Owner[p] => NumberOf[q] = NumberOf[p]
               /\ \A q \in behind : Owner[q] = Owner[p] => NumberOf[q] >= NumberOf[p]

Init ==
  /\ Begins(round, round, expected)
  /\ Commands(busy, busy, todo)

(* Requests may be added at any time, of any rank and of any number. Those *)
(* deferred may join the applications that wait after what the step begins.*)
Rounds == Begins(round' \ round, round', expected' \ deferred)
Groups ==
  /\ Commands(busy' \ busy, busy', todo')
  /\ \A p \in busy' \ busy : Owner[p] \in round'

Spec == Init /\ [][Rounds /\ Groups]_<<expected, round, deferred, todo, busy>>
=============================================================================
