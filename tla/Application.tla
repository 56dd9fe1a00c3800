---------------------------- MODULE Application ----------------------------
(***************************************************************************)
(* The applications of Supvisors (application.py): the state and the       *)
(* failures deduced from the status of their processes, the Supvisors      *)
(* instances where they may be started, and the assignment of the          *)
(* processes of a homogeneous group to instances.                          *)
(*                                                                         *)
(* The operators take procs, the status of every process as in Process,    *)
(* and ids, the instances allowed to each process by its rules.            *)
(***************************************************************************)
EXTENDS Process, SequencesExt, Integers

CONSTANTS Order,      \* the processes, in the order of the dictionaries
          AppOrder,   \* the applications, in the order of the context
          Rules,      \* the rules of each process, once corrected
          AppRules,   \* the rules of each application, once corrected
          Node        \* the machine of each Supvisors instance

Processes == ToSet(Order)
Applications == ToSet(AppOrder)
Nodes == {Node[i] : i \in Supervisors}

(* The rules are corrected when they have been read. The signs, "at" or    *)
(* "hash" if the processes of a homogeneous group are spread over the      *)
(* instances, only make sense in a pattern, and one at a time; only a      *)
(* process of the start sequence may be required; the stop sequence is the *)
(* start sequence unless it is set. (The autorestart of Supervisor, that   *)
(* some running failure strategies disable, is not modelled.)              *)
CheckPattern(r) ==
  IF r.pattern \/ r.signs = {} THEN r ELSE [r EXCEPT !.on = SetToSeq(Supervisors), !.signs = {}]
CheckSignIdentifiers(r) == [r EXCEPT !.signs = IF "at" \in @ THEN @ \ {"hash"} ELSE @]
CheckStartSequence(r) == [r EXCEPT !.required = @ /\ r.start > 0]
CheckStopSequence(r) == [r EXCEPT !.stop = IF @ < 0 THEN r.start ELSE @]
CheckDependencies(r) ==
  CheckStopSequence(CheckStartSequence(CheckSignIdentifiers(CheckPattern(r))))

(* The rules of an application may hold a list hash of instances: the      *)
(* number that ends the name of the application selects one of them, in    *)
(* rotation. Without such a number, or with 0, it is not started.          *)
CheckHashIdentifiers(r) ==
  IF r.number = 0 THEN [r EXCEPT !.start = 0]
  ELSE [r EXCEPT !.on = <<r.hash[((r.number - 1) % Len(r.hash)) + 1]>>]
CheckApplication(r) ==
  LET checked == CheckStopSequence(r)
  IN  IF r.hash = <<>> THEN checked ELSE CheckHashIdentifiers(checked)

(* on      the instances allowed, in the order of the configuration        *)
(* waits   the process is expected to exit before the sequence goes on     *)
(* starting, running  the strategies upon a starting or a running failure  *)
ASSUME RulesAssumption ==
  /\ \A p \in Processes :
       /\ Rules[p] = CheckDependencies(Rules[p])
       /\ Rules[p].app \in Applications
       /\ {Rules[p].start, Rules[p].stop, Rules[p].load} \subseteq Nat
       /\ {Rules[p].required, Rules[p].waits, Rules[p].pattern} \subseteq BOOLEAN
       /\ Rules[p].starting \in {"ABORT", "STOP", "CONTINUE"}
       /\ Rules[p].running \in
            {"CONTINUE", "RESTART_PROCESS", "STOP_APPLICATION", "RESTART_APPLICATION"}
       /\ Rules[p].signs \subseteq {"at", "hash"}
  /\ \A a \in Applications : AppRules[a] = CheckApplication(AppRules[a])

Of(a) == {p \in Processes : Rules[p].app = a}

(* Without an application rule, the application is not managed and has no  *)
(* start sequence. A process with a null sequence number is not started    *)
(* with its application, although it belongs to the start sequence.        *)
Managed(a) == AppRules[a].managed
InStartSequence(p) == Managed(Rules[p].app)
StartSequenced(p) == InStartSequence(p) /\ Rules[p].start > 0

(* The processes of a set by sequence number, in the order of the          *)
(* dictionaries.                                                           *)
Sequence(set, number(_)) ==
  [n \in {number(p) : p \in set} |-> SelectSeq(Order, LAMBDA p : p \in set /\ number(p) = n)]
StartSequence(a) ==
  Sequence({p \in Of(a) : StartSequenced(p)}, LAMBDA p : Rules[p].start)
StopSequence(a) == Sequence(Of(a), LAMBDA p : Rules[p].stop)
StartLoad(a) == MapThenSumSet(LAMBDA p : Rules[p].load, {p \in Of(a) : StartSequenced(p)})

-----------------------------------------------------------------------------
(* The state of an application, from the displayed states of its           *)
(* processes, and its failures.                                            *)

AppState(procs, a) ==
  LET shown == {DisplayedState(procs[p]) : p \in Of(a)}
      starting == shown \cap {"STARTING", "BACKOFF"} # {}
  IN  CASE "STOPPING" \in shown -> "STOPPING"
        [] "STOPPING" \notin shown /\ starting -> "STARTING"
        [] "STOPPING" \notin shown /\ ~starting /\ "RUNNING" \in shown -> "RUNNING"
        [] OTHER -> "STOPPED"

HasRunning(procs, a) == \E p \in Of(a) : IsRunning(procs[p])

(* touched holds the pairs of a process and an instance where the process  *)
(* has ended once: Supervisor keeps the date of the last end.              *)
NeverStarted(procs, touched, a) ==
  \A p \in Of(a) : \A i \in DOMAIN procs[p].info :
    procs[p].info[i].state = "STOPPED" /\ <<p, i>> \notin touched

ExitedAsExpected(p) == DisplayedState(p) = "EXITED" /\ p.expected
Failed(p) ==
  \/ DisplayedState(p) \in {"FATAL", "UNKNOWN"}
  \/ DisplayedState(p) = "EXITED" /\ ~p.expected

(* The status formula. Its leaves are the sets of processes that match a   *)
(* name or a pattern. The value is the sequence of the Boolean values      *)
(* found: it is empty in case of error, and a sequence of several values   *)
(* is only accepted by the functions any and all.                          *)
Single(value) == Len(value) = 1
RECURSIVE Evaluate(_, _)
Evaluate(procs, f) ==
  LET args == [k \in 1..Len(f.args) |-> Evaluate(procs, f.args[k])]
      values == {args[k][1] : k \in 1..Len(args)}
      fine(p) == DisplayedState(procs[p]) \in RunningStates \/ ExitedAsExpected(procs[p])
  IN  CASE f.op = "match" ->
             LET found == SelectSeq(Order, LAMBDA p : p \in f.of)
             IN  [k \in 1..Len(found) |-> fine(found[k])]
        [] f.op = "any" -> IF args[1] = <<>> THEN <<>> ELSE <<TRUE \in ToSet(args[1])>>
        [] f.op = "all" -> IF args[1] = <<>> THEN <<>> ELSE <<FALSE \notin ToSet(args[1])>>
        [] \E k \in 1..Len(args) : ~Single(args[k]) -> <<>>
        [] OTHER -> << CASE f.op = "and" -> FALSE \notin values
                         [] f.op = "or" -> TRUE \in values
                         [] f.op = "not" -> FALSE \in values >>

(* Without a formula, a required process that is stopped counts only if    *)
(* the application is not stopped.                                         *)
MajorFailure(procs, a) ==
  IF AppRules[a].formula # <<>> THEN Evaluate(procs, AppRules[a].formula[1]) # <<TRUE>>
  ELSE \E p \in Of(a) :
         /\ Rules[p].required
         /\ \/ Failed(procs[p])
            \/ AppState(procs, a) # "STOPPED" /\ DisplayedState(procs[p]) = "STOPPED"

MinorFailure(procs, a) ==
  /\ ~MajorFailure(procs, a)
  /\ \E p \in Of(a) : /\ InStartSequence(p) /\ Failed(procs[p])
                      /\ AppRules[a].formula # <<>> \/ ~Rules[p].required

-----------------------------------------------------------------------------
(* Where an application may be started.                                    *)

Available(procs, p) == {i \in DOMAIN procs[p].info : ~procs[p].info[i].disabled}

(* The instances where every process of the application is available.      *)
PossibleInstances(procs, a) ==
  SelectSeq(AppRules[a].on, LAMBDA i : \A p \in Of(a) : i \in Available(procs, p))

(* The instances of the machines where every process is available on one   *)
(* instance at least. Some processes may not be available on all of them.  *)
PossibleNodeInstances(procs, a) ==
  LET allowed == ToSet(AppRules[a].on)
      solutions(p, n) == {i \in allowed \cap Available(procs, p) : Node[i] = n}
      fits == {n \in Nodes : \A p \in Of(a) : solutions(p, n) # {}}
  IN  SelectSeq(AppRules[a].on,
                LAMBDA i : Node[i] \in fits /\ \E p \in Of(a) : i \in Available(procs, p))

(* The instances where a process may be started, in order of preference.   *)
PossibleFor(procs, ids, p) == SelectSeq(ids[p], LAMBDA i : i \in Available(procs, p))

-----------------------------------------------------------------------------
(* The homogeneous groups: the processes of an application that come from  *)
(* the same program. ids[p] is empty as long as p is not assigned.         *)

Group(p) == SelectSeq(Order, LAMBDA q : Rules[q].app = Rules[p].app
                                        /\ Rules[q].program = Rules[p].program)
Assigned(ids, q) == ids[q] # <<>>
Unassigned(ids, group) == SelectSeq(group, LAMBDA q : ~Assigned(ids, q))

(* One process at most per instance: the processes in excess are left      *)
(* without any instance.                                                   *)
AssignAt(ids, group, known) ==
  LET waiting == Unassigned(ids, group)
      taken == {ids[q][1] : q \in {q \in ToSet(group) : Assigned(ids, q)}}
      free == SelectSeq(known, LAMBDA i : i \notin taken)
      pairs == Min({Len(waiting), Len(free)})
  IN  [q \in DOMAIN ids |->
         IF \E k \in 1..pairs : waiting[k] = q
         THEN <<free[CHOOSE k \in 1..pairs : waiting[k] = q]>> ELSE ids[q]]

(* Each process goes to the first of the instances with the fewest         *)
(* processes of the group.                                                 *)
Share(ids, group, i) == Cardinality({q \in ToSet(group) : ids[q] = <<i>>})
FewestFirst(ids, group, known) ==
  SelectInSeq(known, LAMBDA i : \A j \in ToSet(known) :
                                  Share(ids, group, i) <= Share(ids, group, j))
AssignHash(ids, group, known) ==
  FoldLeft(LAMBDA m, q : [m EXCEPT ![q] = <<known[FewestFirst(m, group, known)]>>],
           ids, Unassigned(ids, group))

(* The rules of the groups of the start sequence are resolved when the     *)
(* application is planned, with the instances known at that time.          *)
ResolveRules(ids, a, known) ==
  LET applicable(p) == SelectSeq(Rules[p].on, LAMBDA i : i \in known)
      resolve(m, p) ==
        CASE "at" \in Rules[p].signs -> AssignAt(m, Group(p), applicable(p))
          [] "hash" \in Rules[p].signs -> AssignHash(m, Group(p), applicable(p))
          [] OTHER -> m
  IN  FoldLeft(resolve, ids, SelectSeq(Order, LAMBDA p : p \in Of(a) /\ InStartSequence(p)))

InitialIds == [p \in Processes |-> IF Rules[p].signs = {} THEN Rules[p].on ELSE <<>>]
=============================================================================
