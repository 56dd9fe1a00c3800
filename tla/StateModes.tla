----------------------------- MODULE StateModes -----------------------------
(***************************************************************************)
(* The state and modes that every Supvisors instance declares, and the     *)
(* master selection computed from them (supvisors/statemodes.py).          *)
(*                                                                         *)
(* A "view" v is the working copy one instance has of everything that      *)
(* SupvisorsStateModes and Context hold on its behalf:                     *)
(*   v.modes    the StateModes of every instance, its own included;        *)
(*   v.mark     update_mark, a publication is due at the next timer event; *)
(*   v.late     uptime >= synchro_timeout;                                 *)
(*   v.jobs     the local Starter and Stopper that have jobs in progress;  *)
(*   v.degraded degraded_mode;                                             *)
(*   v.out      the publications of the handler being executed, in order.  *)
(* The state Context keeps for instance j and the one the local StateModes *)
(* publish for j are always assigned together (instancestatus.py:200), so  *)
(* v.modes[i].states stands for both.                                      *)
(***************************************************************************)
EXTENDS Naturals, Sequences, FiniteSets

CONSTANTS
    Instance,       \* the identifiers known to the mapper
    NoMaster,       \* the empty master_identifier ''
    Rank,           \* the order of the nick identifiers
    InitialInstance,\* initial_identifiers, the ones of supvisors_list
    CoreInstance    \* core_identifiers

ASSUME NoMasterAssumption == NoMaster \notin Instance
ASSUME RankAssumption ==
    /\ Rank \in [Instance -> Nat]
    /\ \A i, j \in Instance : Rank[i] = Rank[j] => i = j
ASSUME ListAssumption == InitialInstance \subseteq Instance /\ CoreInstance \subseteq Instance

-----------------------------------------------------------------------------
InstanceStates == {"STOPPED", "CHECKING", "CHECKED", "RUNNING", "FAILED", "ISOLATED"}
ActiveStates   == {"CHECKING", "CHECKED", "RUNNING", "FAILED"}
StableStates   == {"RUNNING", "STOPPED", "ISOLATED"}

FsmStates == {"OFF", "SYNCHRONIZATION", "ELECTION", "DISTRIBUTION", "OPERATION",
              "CONCILIATION", "RESTARTING", "SHUTTING_DOWN", "FINAL"}
WorkingStates == {"ELECTION", "DISTRIBUTION", "OPERATION", "CONCILIATION"}

StateModesRecord == [state  : FsmStates,
                     master : Instance \cup {NoMaster},
                     states : [Instance -> InstanceStates]]

\* A new StateModes.  Its instance_states is an empty dictionary, which every
\* method reads as a dictionary where nobody is RUNNING.
FreshModes == [state  |-> "OFF",
               master |-> NoMaster,
               states |-> [j \in Instance |-> "STOPPED"]]

View == [modes : [Instance -> StateModesRecord],
         mark : BOOLEAN, late : BOOLEAN, degraded : BOOLEAN,
         jobs : SUBSET {"start", "stop"}, out : Seq(StateModesRecord)]

FreshView == [modes |-> [j \in Instance |-> FreshModes],
              mark |-> FALSE, late |-> FALSE, degraded |-> FALSE,
              jobs |-> {}, out |-> <<>>]

-----------------------------------------------------------------------------
(* What one StateModes structure declares. *)

RunningIdentifiers(m) == {j \in Instance : m.states[j] = "RUNNING"}

StableRunningIdentifiers(m) ==
    IF \A j \in Instance : m.states[j] \in StableStates
    THEN RunningIdentifiers(m) ELSE {}

(* The shortcuts of SupvisorsStateModes, for the instance i that holds v. *)

Running(v, i)  == RunningIdentifiers(v.modes[i])
IsMaster(v, i) == v.modes[i].master = i
MasterState(v, i) == IF v.modes[i].master = NoMaster THEN "NONE"
                     ELSE v.modes[v.modes[i].master].state

\* (mutant) The instances that are not RUNNING have their say.
StableWithLost(v, i) ==
    LET declared == {StableRunningIdentifiers(v.modes[j]) : j \in Instance}
    IN  IF \A S, T \in declared : S = T THEN UNION declared ELSE {}

\* evaluate_stability: the set of instances that all the RUNNING ones see
\* RUNNING, when they agree on it and none of them sees a transitional state.
StableIdentifiers(v, i) ==
    LET declared == {StableRunningIdentifiers(v.modes[j]) : j \in Running(v, i)}
    IN  IF \A S, T \in declared : S = T THEN UNION declared ELSE {}

MasterIdentifiers(v, i) == {v.modes[j].master : j \in Running(v, i)}

\* (mutant) The Masters declared may differ.
CheckAnyMaster(v, i) == NoMaster \notin MasterIdentifiers(v, i)

CheckMaster(v, i) ==
    /\ NoMaster \notin MasterIdentifiers(v, i)
    /\ \A m, n \in MasterIdentifiers(v, i) : m = n

\* The consolidated running instances, the stable_identifiers being S.
AllRunning(S)     == S = Instance
InitialRunning(S) == InitialInstance # {} /\ InitialInstance \subseteq S
CoreRunning(S)    == CoreInstance # {} /\ CoreInstance \subseteq S

-----------------------------------------------------------------------------
(* Updates.  Every setter publishes on change, those of degraded_mode,        *)
(* starting_jobs and stopping_jobs too: nobody but displays reads these three *)
(* in what is published, but what is published with them refreshes the rest.  *)

PublishStatus(v, i) == [v EXCEPT !.out = Append(@, v.modes[i])]

SetState(v, i, s) ==
    IF v.modes[i].state = s THEN v
    ELSE PublishStatus([v EXCEPT !.modes[i].state = s], i)

SetMaster(v, i, m) ==
    IF v.modes[i].master = m THEN v
    ELSE PublishStatus([v EXCEPT !.modes[i].master = m], i)

SetDegraded(v, i, d) ==
    IF v.degraded = d THEN v ELSE PublishStatus([v EXCEPT !.degraded = d], i)

SetJobs(v, i, js) ==
    IF v.jobs = js THEN v ELSE PublishStatus([v EXCEPT !.jobs = js], i)

\* abort of the Starter and the Stopper: their next periodic check publishes it.
AbortJobs(v) == IF v.jobs = {} THEN v ELSE [v EXCEPT !.jobs = {}, !.mark = TRUE]

\* (mutant) A Master that is not RUNNING anymore stays the Master.
KeepLostMaster(v, i, j, s) ==
    LET recorded == [v EXCEPT !.modes[i].states[j] = s]
        forgot   == IF s \in {"STOPPED", "ISOLATED"} /\ j # i
                    THEN [recorded EXCEPT !.modes[j] = FreshModes] ELSE recorded
    IN  [forgot EXCEPT !.mark = TRUE]

\* update_instance_state: the new state of instance j is recorded in the local
\* modes, the modes received from a lost instance are forgotten, and a Master
\* that is not RUNNING anymore is not the Master anymore.
UpdateInstanceState(v, i, j, s) ==
    LET recorded == [v EXCEPT !.modes[i].states[j] = s]
        forgot   == IF s \in {"STOPPED", "ISOLATED"} /\ j # i
                    THEN [recorded EXCEPT !.modes[j] = FreshModes] ELSE recorded
    IN  IF s # "RUNNING" /\ v.modes[i].master = j
        THEN SetMaster(forgot, i, NoMaster)
        ELSE [forgot EXCEPT !.mark = TRUE]

\* (mutant) The publication that is due is forgotten.
DeferredNever(v, i) == [v EXCEPT !.mark = FALSE]

DeferredPublishStatus(v, i) ==
    IF v.mark THEN [PublishStatus(v, i) EXCEPT !.mark = FALSE] ELSE v

\* (mutant) The Master is read from the wrong key of the payload.
OnInstanceStateSwapped(v, i, j, m) ==
    IF j = i THEN v ELSE [v EXCEPT !.modes[j] = [m EXCEPT !.master = m.state]]

\* on_instance_state_event: the modes m received from a remote instance j.
OnInstanceStateEvent(v, i, j, m) ==
    IF j = i THEN v ELSE [v EXCEPT !.modes[j] = m]

\* (mutant) The Masters declared are not preferred.
AllCandidates(v, i) ==
    LET core == CoreInstance \cap Running(v, i)
    IN  IF core # {} THEN core ELSE Running(v, i)

\* select_master: a declared Master first, then a core instance, then the
\* lowest nick identifier.
Candidates(v, i) ==
    LET declared == MasterIdentifiers(v, i) \ {NoMaster}
        all      == IF declared # {} THEN declared ELSE Running(v, i)
        core     == CoreInstance \cap all
    IN  IF core # {} THEN core ELSE all

Lowest(S) == CHOOSE c \in S : \A d \in S : Rank[c] <= Rank[d]

SelectMaster(v, i) == SetMaster(v, i, Lowest(Candidates(v, i)))

\* accept_master: next(iter(masters)) picks any declared Master; p is the
\* preference of the hash order.
AcceptMaster(v, i, p) ==
    LET masters == MasterIdentifiers(v, i) \ {NoMaster}
    IN  IF masters = {} THEN v
        ELSE SetMaster(v, i, IF p \in masters THEN p ELSE Lowest(masters))
=============================================================================
