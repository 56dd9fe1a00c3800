---------------------------- MODULE MCSequencer ----------------------------
(* Two machines with one instance each.                                    *)
EXTENDS Sequencer

Rule(p, app, start, load) ==
  [app |-> app, program |-> p, start |-> start, stop |-> start, load |-> load,
   required |-> FALSE, waits |-> FALSE, starting |-> "CONTINUE", running |-> "CONTINUE",
   signs |-> {}, pattern |-> FALSE, on |-> <<"s1", "s2">>, startticks |-> 0, stopticks |-> 0]
AppRule(start) ==
  [managed |-> TRUE, start |-> start, stop |-> start, distribution |-> "ALL_INSTANCES",
   on |-> <<"s1", "s2">>, hash |-> <<>>, number |-> 0, strategy |-> "CONFIG", formula |-> <<>>]

(* Whatever the rules file says, the rules corrected are consistent, and    *)
(* there is nothing left to correct.                                       *)
RulesRead ==
  {[Rule("p", "a", n, 0) EXCEPT !.stop = m, !.required = q, !.pattern = t, !.signs = s] :
     n \in 0..1, m \in -1..1, q \in BOOLEAN, t \in BOOLEAN, s \in SUBSET {"at", "hash"}}
AppRulesRead ==
  {[AppRule(n) EXCEPT !.stop = m, !.hash = s, !.number = k] :
     n \in 0..1, m \in -1..1, s \in {<<>>, <<"s2">>, <<"s2", "s1">>}, k \in 0..3}
ASSUME CorrectionAssumption ==
  /\ \A r \in RulesRead :
       LET c == CheckDependencies(r)
       IN  /\ CheckDependencies(c) = c
           /\ c.stop \in Nat /\ (c.required => c.start > 0)
           /\ Cardinality(c.signs) <= 1 /\ (c.signs # {} => c.pattern)
  /\ \A r \in AppRulesRead :
       LET c == CheckApplication(r)
       IN  /\ CheckApplication(c) = c
           /\ c.stop \in Nat
           /\ r.hash # <<>> => c.start = 0 \/ (Len(c.on) = 1 /\ c.on[1] \in ToSet(r.hash))

MCNode == [i \in {"s1", "s2"} |-> i]

(* Two applications of successive ranks: the first one has two groups,     *)
(* and waits for the exit of a process. A shutdown may cross a request.    *)
TierOrder == <<"p", "q", "r">>
TierApps == <<"a", "b">>
TierRules ==
  [p |-> [Rule("p", "a", 1, 30) EXCEPT !.program = "q", !.required = TRUE, !.starting = "STOP",
                                     !.running = "RESTART_PROCESS"],
   q |-> [Rule("q", "a", 2, 30) EXCEPT !.waits = TRUE, !.running = "STOP_APPLICATION"],
   r |-> Rule("r", "b", 1, 40)]
TierAppRules == [a |-> AppRule(1), b |-> [AppRule(2) EXCEPT !.distribution = "SINGLE_INSTANCE"]]
TierBudget ==
  [x \in Incidents |-> CASE x = "any" -> 2
                        [] x \in {"user", "end", "lose", "backoff"} -> 1
                        [] OTHER -> 0]

(* An application whose processes do not fit together on a machine, and    *)
(* whose failures ask for contradictory jobs.                              *)
PairOrder == <<"p", "q">>
PairApps == <<"a">>
PairRules ==
  [p |-> [Rule("p", "a", 1, 50) EXCEPT !.running = "RESTART_APPLICATION"],
   q |-> [Rule("q", "a", 1, 60) EXCEPT !.running = "STOP_APPLICATION", !.required = TRUE]]
PairAppRules == [a |-> [AppRule(1) EXCEPT !.strategy = "LESS_LOADED"]]
PairBudget ==
  [x \in Incidents |-> CASE x = "any" -> 2
                        [] x = "backoff" -> 0
                        [] OTHER -> 1]
=============================================================================
