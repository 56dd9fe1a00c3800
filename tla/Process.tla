------------------------------ MODULE Process ------------------------------
(***************************************************************************)
(* The status of one process, as one Supvisors instance keeps it           *)
(* (process.py, class ProcessStatus): what each Supervisor has declared    *)
(* about the process, and the synthesis of these declarations that every   *)
(* decision of Supvisors is based on.                                      *)
(*                                                                         *)
(* All the definitions are operators on the record of a process; the       *)
(* modules that extend this one hold the variables and the actions.        *)
(***************************************************************************)
EXTENDS Naturals, FiniteSets

CONSTANTS Supervisors,   \* the identifiers of the Supvisors instances
          NoState        \* the absence of a forced state

-----------------------------------------------------------------------------
(* The states of a process in Supervisor.                                  *)

StoppedStates == {"STOPPED", "EXITED", "FATAL", "UNKNOWN"}
RunningStates == {"RUNNING", "BACKOFF", "STARTING"}
ProcessStates == StoppedStates \cup RunningStates \cup {"STOPPING"}

ASSUME NoStateAssumption == NoState \notin ProcessStates

(* What a Supervisor declares: the state, whether an exit was expected,    *)
(* whether the program is disabled there, and the date of the declaration  *)
(* in the clock of that Supervisor.                                        *)
Info == [state: ProcessStates, expected: BOOLEAN, disabled: BOOLEAN, time: Nat]
Declaration(state, expected, disabled, time) ==
  [state |-> state, expected |-> expected, disabled |-> disabled, time |-> time]

(* info      what the Supervisors that know the process have declared      *)
(* running   the instances where the process is held as running            *)
(* state     the synthetic state, and expected the nature of its exit      *)
(* forced    the state forced by the Starter or the Stopper of a Master    *)
IsProcessStatus(p) ==
  /\ p = [info |-> p.info, running |-> p.running, state |-> p.state,
          expected |-> p.expected, forced |-> p.forced]
  /\ DOMAIN p.info \subseteq Supervisors
  /\ p.info \in [DOMAIN p.info -> Info]
  /\ p.running \subseteq Supervisors
  /\ p.state \in ProcessStates
  /\ p.expected \in BOOLEAN
  /\ p.forced \in ProcessStates \cup {NoState}

NewProcess ==
  [info |-> [i \in {} |-> 0], running |-> {}, state |-> "UNKNOWN",
   expected |-> TRUE, forced |-> NoState]

-----------------------------------------------------------------------------
(* Accessors.                                                              *)

Knows(p, i) == i \in DOMAIN p.info
DisplayedState(p) == IF p.forced = NoState THEN p.state ELSE p.forced
Stopped(p) == p.state \in StoppedStates
IsRunning(p) == p.state \in RunningStates
RunningOn(p, i) == IsRunning(p) /\ i \in p.running
IsConflicting(p) == \E i, j \in p.running : i # j
Crashed(p) == p.state = "FATAL" \/ (p.state = "EXITED" /\ ~p.expected)
DisabledOn(p, i) == Knows(p, i) /\ p.info[i].disabled

(* The instances where the program may be started: allowed by the rules,   *)
(* known by the Supervisor and not disabled there.                         *)
PossibleIdentifiers(p, allowed) ==
  {i \in allowed : Knows(p, i) /\ ~DisabledOn(p, i)}

-----------------------------------------------------------------------------
(* The synthesis. Of several running states, the first in the order of     *)
(* Supervisor's RUNNING_STATES is retained, STOPPING coming last.          *)

RunningState(states) ==
  CASE "RUNNING" \in states -> "RUNNING"
    [] "RUNNING" \notin states /\ "BACKOFF" \in states -> "BACKOFF"
    [] states \cap {"RUNNING", "BACKOFF"} = {} /\ "STARTING" \in states -> "STARTING"
    [] states \cap RunningStates = {} /\ "STOPPING" \in states -> "STOPPING"
    [] OTHER -> "UNKNOWN"

\* (mutant) The last running state received hides the other instances.
LastRunning(p, i, s) ==
  CASE s \in StoppedStates -> p.running \ {i}
    [] s \in RunningStates -> {i}
    [] OTHER -> p.running

(* An instance joins the running ones with a running state and leaves them *)
(* with a stopped one: STOPPING changes nothing. The first running state   *)
(* of a stopped process replaces the whole set.                            *)
UpdatedRunning(p, i, s) ==
  CASE s \in StoppedStates -> p.running \ {i}
    [] s \in RunningStates -> IF Stopped(p) THEN {i} ELSE p.running \cup {i}
    [] OTHER -> p.running

(* The declaration just received is the latest one: it gives the state of  *)
(* a process that neither runs nor stops anywhere. An instance held as     *)
(* running without a declaration is an exception: the state is left as is. *)
UpdateStatus(p, i) ==
  LET running == UpdatedRunning(p, i, p.info[i].state)
      q == [p EXCEPT !.running = running]
      failed == ~(running \subseteq DOMAIN p.info)
  IN  CASE failed -> q
        [] ~failed /\ IsConflicting(q) ->
             [q EXCEPT !.state = RunningState({p.info[j].state : j \in running})]
        [] ~failed /\ ~IsConflicting(q) /\ running # {} ->
             [q EXCEPT !.state = p.info[CHOOSE j \in running : TRUE].state,
                       !.expected = TRUE]
        [] running = {} /\ \E j \in DOMAIN p.info : p.info[j].state = "STOPPING" ->
             [q EXCEPT !.state = "STOPPING", !.expected = TRUE]
        [] OTHER ->
             [q EXCEPT !.state = p.info[i].state, !.expected = p.info[i].expected]

-----------------------------------------------------------------------------
(* The operations. A process record is changed by nothing else.            *)

SetInfo(p, i, declared) ==
  [p EXCEPT !.info = [j \in DOMAIN p.info \cup {i} |->
                        IF j = i THEN declared ELSE p.info[j]]]

(* The first declaration of a Supervisor, got by the handshake, resets a   *)
(* forced state unless it declares the process STOPPED.                    *)
AddInfo(p, i, declared) ==
  LET q == SetInfo(p, i, declared)
      keeps == declared.state = "STOPPED"
  IN  UpdateStatus([q EXCEPT !.forced = IF keeps THEN p.forced ELSE NoState], i)

(* An event always resets the forced state.                                *)
UpdateInfo(p, i, declared) ==
  UpdateStatus([SetInfo(p, i, declared) EXCEPT !.forced = NoState], i)

(* A forced state is dismissed if its target has declared something since  *)
(* the date at which it was decided. A target that the process does not    *)
(* know, or no target, dismisses nothing.                                  *)
Dismissed(p, i, time) == Knows(p, i) /\ p.info[i].time > time
\* (mutant) The first two fields of the forced event are swapped.
ForceTarget(p, i, time, s) ==
  IF Dismissed(p, i, time) THEN p ELSE [p EXCEPT !.forced = i]

ForceState(p, i, time, s) ==
  IF Dismissed(p, i, time) THEN p ELSE [p EXCEPT !.forced = s]

(* The process is declared FATAL on a lost instance where it was running,  *)
(* at the date of the last TICK of that instance.                          *)
InvalidateIdentifier(p, i, time) ==
  IF i \notin p.running THEN p
  ELSE UpdateInfo(p, i, Declaration("FATAL", FALSE, p.info[i].disabled, time))

(* The loss of an instance is a failure of the process if it ran nowhere   *)
(* else.                                                                   *)
FailsWith(p, i) == p.running = {i}

UpdateDisability(p, i, disabled) ==
  IF Knows(p, i) THEN [p EXCEPT !.info[i].disabled = disabled] ELSE p

(* The program is removed from a Supervisor. Nothing else is re-evaluated. *)
RemoveIdentifier(p, i) ==
  [p EXCEPT !.info = [j \in DOMAIN p.info \ {i} |-> p.info[j]]]
=============================================================================
