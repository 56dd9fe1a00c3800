------------------------------ MODULE Strategy ------------------------------
(***************************************************************************)
(* The choice of a Supvisors instance to start a process (strategy.py):    *)
(* the first or the last of the instances allowed, by load, provided that  *)
(* the machine can bear the process. A load is a percentage: what the      *)
(* running processes are expected to take, and what has been requested     *)
(* and does not run yet.                                                   *)
(***************************************************************************)
EXTENDS Application

CONSTANTS Local,        \* the instance that holds the Starter and the Stopper
          NoInstance    \* the absence of a choice

ASSUME LocalAssumption == Local \in Supervisors /\ NoInstance \notin Supervisors

MaxLoad == 100

InstanceLoad(procs, i) ==
  MapThenSumSet(LAMBDA p : Rules[p].load, {p \in Processes : RunningOn(procs[p], i)})

(* The load of a machine is the sum of what its instances bear.            *)
NodeSum(load(_), n) == MapThenSumSet(load, {i \in Supervisors : Node[i] = n})
NodeLoad(procs, n) == NodeSum(LAMBDA i : InstanceLoad(procs, i), n)

(* The order is lexicographic: of two instances with the same first load,  *)
(* the second one decides.                                                 *)
Lighter(x, y) == x[1] < y[1] \/ (x[1] = y[1] /\ x[2] < y[2])

\* (mutant) The requests in progress are not counted in the load of the machine.
ChooseHasty(procs, alive, strategy, allowed, load, requests) ==
  LET valid == SelectSeq(allowed, LAMBDA i : i \in alive
                                    /\ NodeLoad(procs, Node[i]) + load <= MaxLoad)
  IN  IF valid = <<>> THEN NoInstance ELSE valid[1]

(* The instance chosen among those that bear the load, by the total loads  *)
(* of the instances and of their machines. The sorts of Python are stable. *)
FirstBest(valid, key) ==
  valid[SelectInSeq(valid, LAMBDA i : \A j \in ToSet(valid) : ~Lighter(key[j], key[i]))]
LastBest(valid, key) ==
  valid[SelectLastInSeq(valid, LAMBDA i : \A j \in ToSet(valid) : ~Lighter(key[i], key[j]))]
Key(strategy, total) ==
  [i \in Supervisors |-> IF strategy \in {"LESS_LOADED", "MOST_LOADED"}
                         THEN <<total[i].instance, total[i].node>>
                         ELSE <<total[i].node, total[i].instance>>]
Preferred(strategy, valid, total) ==
  CASE valid = <<>> -> NoInstance
    [] strategy = "LOCAL" -> IF Contains(valid, Local) THEN Local ELSE NoInstance
    [] valid # <<>> /\ strategy = "CONFIG" -> valid[1]
    [] valid # <<>> /\ strategy \in {"LESS_LOADED", "LESS_LOADED_NODE"} ->
         FirstBest(valid, Key(strategy, total))
    [] valid # <<>> /\ strategy \in {"MOST_LOADED", "MOST_LOADED_NODE"} ->
         LastBest(valid, Key(strategy, total))

(* Among the instances allowed, it must be running, and its machine must   *)
(* bear the load.                                                          *)
Borne(procs, requests) ==
  [i \in Supervisors |-> InstanceLoad(procs, i) + requests[i]]
Total(borne) ==
  [i \in Supervisors |->
     [instance |-> borne[i], node |-> NodeSum(LAMBDA j : borne[j], Node[i])]]
ChosenAmong(alive, strategy, allowed, load, total) ==
  Preferred(strategy,
    SelectSeq(allowed, LAMBDA i : i \in alive /\ total[i].node + load <= MaxLoad), total)
GetInstance(procs, alive, strategy, allowed, load, requests) ==
  ChosenAmong(alive, strategy, allowed, load, Total(Borne(procs, requests)))

(* The machine that can bear a whole application, through its instance.    *)
SameNode(allowed, i) ==
  SelectSeq(allowed, LAMBDA j : i # NoInstance /\ Node[j] = Node[i])
InstancesOfNode(procs, alive, strategy, allowed, load, requests) ==
  SameNode(allowed, GetInstance(procs, alive, strategy, allowed, load, requests))

(* Only the processes of managed applications are in conflict.             *)
Conflicts(procs) ==
  {p \in Processes : IsConflicting(procs[p]) /\ Managed(Rules[p].app)}

(* A process in conflict is kept on one instance by SENICIDE and           *)
(* INFANTICIDE: the one where it has run for the shortest or the longest   *)
(* time. The dates are abstracted: any instance may be the one kept.       *)
Survivors(procs) ==
  {kept \in [Conflicts(procs) -> Supervisors] :
     \A p \in Conflicts(procs) : kept[p] \in procs[p].running}
=============================================================================
