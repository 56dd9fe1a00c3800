---------------------------- MODULE ProcessView ----------------------------
(***************************************************************************)
(* The views that several Supvisors instances (Observers) have of one      *)
(* process, and the Supervisors where the process really lives.            *)
(*                                                                         *)
(* A view is fed by the handshake with each instance (context.py,          *)
(* load_processes), then by the events that the instance publishes         *)
(* (on_process_state_event, on_process_disability_event,                   *)
(* on_process_removed_event), and corrected when the instance is lost      *)
(* (invalidate_failed) or when a Master gives up a request                 *)
(* (force_process_state).                                                  *)
(***************************************************************************)
EXTENDS Process, Sequences

CONSTANTS Observers,   \* the instances whose view is considered
          Master,      \* the one that may force the state of the process
          Features,    \* what may happen besides the life of the process
          MaxTime,     \* a bound on the clock of a Supervisor
          MaxForced    \* a bound on the number of forced states

Hazards == {"lose", "restart", "slow", "lag", "blind", "force", "disable", "remove"}

ASSUME ViewAssumption ==
  /\ Master \in Observers
  /\ Features \subseteq Hazards
  /\ MaxTime \in Nat
  /\ MaxForced \in Nat

VARIABLES
  real,      \* what each Supervisor knows of the process
  installed, \* the Supervisors where the program is configured
  link,      \* the state of each instance in the eyes of each observer
  sees,      \* whether an instance holds an observer as active
  channel,   \* the events published by an instance to an observer
  shake,     \* the progress of a handshake
  ignored,   \* an event has been ignored since the handshake got its answer
  view,      \* the status of the process for each observer
  orders,    \* the forced states sent by the Master to each observer
  forces,    \* the number of forced states
  missed     \* history: an event was not published to a connected observer

vars == <<real, installed, link, sees, channel, shake, ignored, view, orders,
          forces, missed>>

LinkStates == {"STOPPED", "CHECKING", "CHECKED", "FAILED"}
Phases == {"none", "asked", "taken", "answered", "loaded"}
Shakes == [phase: Phases, known: BOOLEAN, declared: Info]
Shake(phase, known, declared) ==
  [phase |-> phase, known |-> known, declared |-> declared]
Absent == Shake("none", FALSE, Declaration("UNKNOWN", TRUE, FALSE, 0))
Event == [type: {"state", "disability", "added", "removed"}, declared: Info]
Order == [target: Supervisors, time: Nat, state: {"FATAL", "STOPPED"}]

TypeOK ==
  /\ real \in [Supervisors -> Info]
  /\ installed \subseteq Supervisors
  /\ link \in [Observers -> [Supervisors -> LinkStates]]
  /\ sees \in [Supervisors -> SUBSET Observers]
  /\ channel \in [Observers -> [Supervisors -> Seq(Event)]]
  /\ shake \in [Observers -> [Supervisors -> Shakes]]
  /\ ignored \in [Observers -> SUBSET Supervisors]
  /\ DOMAIN view = Observers /\ \A o \in Observers : IsProcessStatus(view[o])
  /\ orders \in [Observers -> Seq(Order)]
  /\ forces \in 0..MaxForced
  /\ missed \in [Observers -> SUBSET Supervisors]

Init ==
  /\ real \in [Supervisors -> [state: {"STOPPED", "STARTING", "RUNNING", "STOPPING"},
                             expected: {TRUE}, disabled: {FALSE}, time: {0}]]
  /\ installed = Supervisors
  /\ link = [o \in Observers |-> [i \in Supervisors |-> "STOPPED"]]
  /\ sees \in {[i \in Supervisors |-> active] :
               active \in {Observers} \cup (IF "blind" \in Features THEN {{}} ELSE {})}
  /\ channel = [o \in Observers |-> [i \in Supervisors |-> <<>>]]
  /\ shake = [o \in Observers |-> [i \in Supervisors |-> Absent]]
  /\ ignored = [o \in Observers |-> {}]
  /\ view = [o \in Observers |-> NewProcess]
  /\ orders = [o \in Observers |-> <<>>]
  /\ forces = 0
  /\ missed = [o \in Observers |-> {}]

-----------------------------------------------------------------------------
(* The life of the process in a Supervisor.                                *)

Successors(s) ==
  CASE s \in {"STOPPED", "EXITED", "FATAL"} -> {"STARTING"}
    [] s = "STARTING" -> {"RUNNING", "BACKOFF", "STOPPING"}
    [] s = "BACKOFF" -> {"STARTING", "FATAL", "STOPPED"}
    [] s = "RUNNING" -> {"STOPPING", "EXITED"}
    [] s = "STOPPING" -> {"STOPPED"}
    [] OTHER -> {}

(* An event is published to the observers that the instance holds as       *)
(* active. Those that rely on what they got from it miss it.               *)
Relies(o, i) == link[o][i] = "CHECKED" \/ shake[o][i].phase \notin {"none", "asked"}
Publish(i, e) ==
  /\ channel' = [o \in Observers |->
                   [channel[o] EXCEPT ![i] = IF o \in sees[i] THEN Append(@, e) ELSE @]]
  /\ missed' = [o \in Observers |->
                  IF o \notin sees[i] /\ Relies(o, i) THEN missed[o] \cup {i}
                                                      ELSE missed[o]]

Declare(i, declared, type) ==
  /\ declared.time <= MaxTime
  /\ real' = [real EXCEPT ![i] = declared]
  /\ Publish(i, [type |-> type, declared |-> declared])
  /\ UNCHANGED <<installed, link, sees, shake, ignored, view, orders, forces>>

Evolve(i) ==
  /\ i \in installed
  /\ \E s \in Successors(real[i].state), expected \in BOOLEAN :
       /\ s = "STARTING" => ~real[i].disabled
       /\ s # "EXITED" => expected
       /\ Declare(i, Declaration(s, expected, real[i].disabled, real[i].time + 1), "state")

(* A program is disabled or enabled on an instance.                        *)
Toggle(i) ==
  /\ "disable" \in Features /\ i \in installed
  /\ \E disabled \in BOOLEAN \ {real[i].disabled} :
       Declare(i, Declaration(real[i].state, real[i].expected, disabled, real[i].time + 1),
               "disability")

(* A program whose number of processes decreases, or whose group is        *)
(* removed: the process is stopped first, or has just failed to start. It  *)
(* may be added again.                                                     *)
Uninstall(i) ==
  /\ "remove" \in Features /\ i \in installed
  /\ real[i].state \in StoppedStates \cup {"BACKOFF"}
  /\ installed' = installed \ {i}
  /\ Publish(i, [type |-> "removed", declared |-> real[i]])
  /\ UNCHANGED <<real, link, sees, shake, ignored, view, orders, forces>>

Install(i) ==
  /\ i \notin installed /\ real[i].time < MaxTime
  /\ LET declared == Declaration("STOPPED", TRUE, FALSE, real[i].time + 1)
     IN  /\ real' = [real EXCEPT ![i] = declared]
         /\ Publish(i, [type |-> "added", declared |-> declared])
  /\ installed' = installed \cup {i}
  /\ UNCHANGED <<link, sees, shake, ignored, view, orders, forces>>

-----------------------------------------------------------------------------
(* The handshake: CHECKING is entered, the proxy thread gets the status of *)
(* the process by XML-RPC, then the main thread handles what it posted.    *)

Check(o, i) ==
  /\ link[o][i] = "STOPPED"
  /\ link' = [link EXCEPT ![o][i] = "CHECKING"]
  /\ shake' = [shake EXCEPT ![o][i] = Shake("asked", FALSE, Absent.declared)]
  /\ ignored' = [ignored EXCEPT ![o] = @ \ {i}]
  /\ UNCHANGED <<real, installed, sees, channel, view, orders, forces, missed>>

(* The Supervisor answers. The date of the answer is taken when it is      *)
(* received by the proxy thread: that may be later. An event published     *)
(* before may also be received after.                                      *)
Answer(o, i) ==
  /\ shake[o][i].phase = "asked" /\ real[i].time < MaxTime
  /\ channel[o][i] = <<>> \/ "lag" \in Features
  /\ LET declared == Declaration(real[i].state, real[i].expected, real[i].disabled,
                                 real[i].time + 1)
         phase == IF "slow" \in Features THEN "taken" ELSE "answered"
     IN  /\ real' = [real EXCEPT ![i] = declared]
         /\ shake' = [shake EXCEPT ![o][i] = Shake(phase, i \in installed, declared)]
  /\ missed' = [missed EXCEPT ![o] = @ \ {i}]
  /\ UNCHANGED <<installed, link, sees, channel, ignored, view, orders, forces>>

(* An event ignored before that date is forgotten.                         *)
TransferProcessInfo(o, i) ==
  /\ shake[o][i].phase = "taken"
  /\ shake' = [shake EXCEPT ![o][i] = Shake("answered", @.known, @.declared)]
  /\ ignored' = [ignored EXCEPT ![o] = @ \ {i}]
  /\ UNCHANGED <<real, installed, link, sees, channel, view, orders, forces, missed>>

LoadProcesses(o, i) ==
  /\ shake[o][i].phase = "answered" /\ link[o][i] = "CHECKING"
  /\ shake' = [shake EXCEPT ![o][i] = Shake("loaded", @.known, @.declared)]
  /\ view' = IF shake[o][i].known
             THEN [view EXCEPT ![o] = AddInfo(@, i, shake[o][i].declared)]
             ELSE view
  /\ UNCHANGED <<real, installed, link, sees, channel, ignored, orders, forces, missed>>

\* (mutant) The events ignored during the handshake are forgotten.
OnAuthorizationAnyway(o, i) ==
  /\ shake[o][i].phase = "loaded" /\ link[o][i] = "CHECKING"
  /\ shake' = [shake EXCEPT ![o][i] = Absent]
  /\ link' = [link EXCEPT ![o][i] = "CHECKED"]
  /\ ignored' = [ignored EXCEPT ![o] = @ \ {i}]
  /\ UNCHANGED <<real, installed, sees, channel, view, orders, forces, missed>>

(* The instance is accepted unless an event has been ignored since the     *)
(* date of the answer.                                                     *)
OnAuthorization(o, i) ==
  /\ shake[o][i].phase = "loaded" /\ link[o][i] = "CHECKING"
  /\ shake' = [shake EXCEPT ![o][i] = Absent]
  /\ link' = [link EXCEPT ![o][i] = IF i \in ignored[o] THEN "STOPPED" ELSE "CHECKED"]
  /\ ignored' = [ignored EXCEPT ![o] = @ \ {i}]
  /\ UNCHANGED <<real, installed, sees, channel, view, orders, forces, missed>>

-----------------------------------------------------------------------------
(* The events. They are ignored, but noted, during the handshake, and      *)
(* dropped when the instance is not active or the process not known there. *)

Applied(p, i, e) ==
  CASE e.type = "added" -> AddInfo(p, i, e.declared)
    [] e.type # "added" /\ ~Knows(p, i) -> p
    [] Knows(p, i) /\ e.type = "state" -> UpdateInfo(p, i, e.declared)
    [] Knows(p, i) /\ e.type = "disability" -> UpdateDisability(p, i, e.declared.disabled)
    [] Knows(p, i) /\ e.type = "removed" -> RemoveIdentifier(p, i)

OnProcessEvent(o, i) ==
  /\ channel[o][i] # <<>>
  /\ channel' = [channel EXCEPT ![o][i] = Tail(@)]
  /\ ignored' = [ignored EXCEPT ![o] =
                  IF link[o][i] = "CHECKING" /\ Head(channel[o][i]).type # "added"
                  THEN @ \cup {i} ELSE @]
  /\ view' = IF link[o][i] = "CHECKED" \/ Head(channel[o][i]).type = "added"
             THEN [view EXCEPT ![o] = Applied(@, i, Head(channel[o][i]))]
             ELSE view
  /\ UNCHANGED <<real, installed, link, sees, shake, orders, forces, missed>>

-----------------------------------------------------------------------------
(* The loss of an instance: it is FAILED first, and invalidated at the     *)
(* next periodic check. Only a process that is held as running there is    *)
(* updated.                                                                *)

Lose(o, i) ==
  /\ "lose" \in Features
  /\ link[o][i] \in {"CHECKING", "CHECKED"}
  /\ link' = [link EXCEPT ![o][i] = "FAILED"]
  /\ shake' = [shake EXCEPT ![o][i] = Absent]
  /\ channel' = [channel EXCEPT ![o][i] = <<>>]
  /\ UNCHANGED <<real, installed, sees, ignored, view, orders, forces, missed>>

InvalidateFailed(o, i) ==
  /\ link[o][i] = "FAILED"
  /\ link' = [link EXCEPT ![o][i] = "STOPPED"]
  /\ ignored' = [ignored EXCEPT ![o] = @ \ {i}]
  /\ IF RunningOn(view[o], i) /\ Knows(view[o], i)
     THEN \E time \in view[o].info[i].time..real[i].time :
            view' = [view EXCEPT ![o] = InvalidateIdentifier(@, i, time)]
     ELSE view' = view
  /\ UNCHANGED <<real, installed, sees, channel, shake, orders, forces, missed>>

(* The Supervisor restarts, once all the observers have lost it.           *)
Restart(i) ==
  /\ "restart" \in Features
  /\ \A o \in Observers : link[o][i] = "STOPPED" /\ channel[o][i] = <<>>
  /\ real[i].state # "STOPPED" /\ real[i].time < MaxTime
  /\ real' = [real EXCEPT ![i] = Declaration("STOPPED", TRUE, real[i].disabled,
                                             real[i].time + 1)]
  /\ UNCHANGED <<installed, link, sees, channel, shake, ignored, view, orders,
                 forces, missed>>

(* An instance takes an observer as active at the TICK of the observer.    *)
See(i) ==
  /\ sees[i] # Observers
  /\ sees' = [sees EXCEPT ![i] = Observers]
  /\ UNCHANGED <<real, installed, link, channel, shake, ignored, view, orders,
                 forces, missed>>

-----------------------------------------------------------------------------
(* The Master gives up a request: the state is forced locally, then for    *)
(* the others, with the date of the last event it got from the target.     *)

ForceProcessState(i) ==
  /\ "force" \in Features /\ forces < MaxForced
  /\ link[Master][i] = "CHECKED" /\ Knows(view[Master], i)
  /\ \E s \in {"FATAL", "STOPPED"} :
       LET time == view[Master].info[i].time
           order == [target |-> i, time |-> time, state |-> s]
       IN  /\ view' = [view EXCEPT ![Master] = ForceState(@, i, time, s)]
           /\ orders' = [o \in Observers |-> IF o = Master THEN orders[o]
                                             ELSE Append(orders[o], order)]
  /\ forces' = forces + 1
  /\ UNCHANGED <<real, installed, link, sees, channel, shake, ignored, missed>>

OnForcedEvent(o) ==
  /\ orders[o] # <<>>
  /\ LET order == Head(orders[o])
     IN  view' = [view EXCEPT ![o] = ForceState(@, order.target, order.time, order.state)]
  /\ orders' = [orders EXCEPT ![o] = Tail(@)]
  /\ UNCHANGED <<real, installed, link, sees, channel, shake, ignored, forces, missed>>

-----------------------------------------------------------------------------
Next ==
  \/ \E i \in Supervisors : Evolve(i) \/ Toggle(i) \/ Uninstall(i) \/ Install(i) \/ Restart(i)
                             \/ See(i) \/ ForceProcessState(i)
  \/ \E o \in Observers, i \in Supervisors :
       Check(o, i) \/ Answer(o, i) \/ TransferProcessInfo(o, i) \/ LoadProcesses(o, i)
         \/ OnAuthorization(o, i) \/ OnProcessEvent(o, i) \/ Lose(o, i)
         \/ InvalidateFailed(o, i)
  \/ \E o \in Observers : OnForcedEvent(o)

Spec == Init /\ [][Next]_vars

-----------------------------------------------------------------------------
(* Properties.                                                             *)

(* The synthesis is the one of the declarations, whatever the order in     *)
(* which they were received: the process is held as running exactly where  *)
(* a Supervisor last declared it in a running state (or STOPPING, which    *)
(* keeps the instance), and its state is running if and only if such a     *)
(* declaration exists. An instance left out here would let the Starter     *)
(* start a second copy, an extra one would raise a false conflict.         *)
Synthesis ==
  \A o \in Observers :
    LET p == view[o]
        declaring == {i \in DOMAIN p.info : p.info[i].state \in RunningStates}
    IN  p.running \subseteq DOMAIN p.info =>
        /\ declaring \subseteq p.running
        /\ \A i \in p.running \ declaring : p.info[i].state = "STOPPING"
        /\ IsRunning(p) <=> declaring # {}
        /\ Stopped(p) => p.running = {}

(* Once the events of an accepted instance are consumed, the view tells    *)
(* what the Supervisor knows: nothing is lost between the answer to the    *)
(* handshake and the first event handled, unless the instance did not hold *)
(* the observer as active.                                                 *)
Faithful ==
  \A o \in Observers, i \in installed :
    (link[o][i] = "CHECKED" /\ channel[o][i] = <<>> /\ i \notin missed[o]) =>
      LET declared == view[o].info[i]
      IN  /\ Knows(view[o], i)
          /\ declared.state = real[i].state
          /\ declared.disabled = real[i].disabled
          /\ real[i].state = "EXITED" => declared.expected = real[i].expected
=============================================================================
