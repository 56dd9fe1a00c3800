------------------------------ MODULE Programs ------------------------------
(***************************************************************************)
(* One program in the local Supervisor: its number of processes, that the  *)
(* users change at run time (update_numprocs), and its disability, that is *)
(* persisted on disk (enable, disable).                                    *)
(*                                                                         *)
(* The requests of the RPC interface (rpcinterface.py) go through the      *)
(* SupervisorUpdater to the internal data of Supervisor (supervisordata.py)*)
(* and to the options (options.py). A process in excess is deleted at once *)
(* if it is stopped. Otherwise it is marked obsolete, and deleted when the *)
(* listener handles the event that tells that it has stopped. Meanwhile,   *)
(* Supervisor goes on, other users ask for other changes, and those who    *)
(* wait are polled.                                                        *)
(***************************************************************************)
EXTENDS Integers

CONSTANTS Groups,       \* the groups of processes that include the program
          Configured,   \* numprocs in the configuration file
          MaxNumprocs,  \* a bound on numprocs
          Elsewhere,    \* whether other instances have the same processes
          MaxUses       \* a bound on the actions of the users, and the crashes

ASSUME ProgramsAssumption ==
  /\ MaxNumprocs \in Nat /\ Configured \in 1..MaxNumprocs
  /\ Elsewhere \in BOOLEAN
  /\ MaxUses \in Nat

VARIABLES
  up,        \* whether supervisord is up, down, or cannot start
  numprocs,  \* the number of processes, in each group
  procs,     \* the processes of Supervisor, with their state
  obsolete,  \* those marked to be deleted
  disabled,  \* the disability of the program
  file,      \* the disabilities file
  wished,    \* history: the disability that was last asked for
  asked,     \* the XML-RPC requests to Supervisor on their way
  commands,  \* the commands of the Starter and the Stopper in progress
  waiting,   \* the users whose request is deferred
  uses       \* the number of actions of the users

vars == <<up, numprocs, procs, obsolete, disabled, file, wished, asked, commands,
          waiting, uses>>

(* A process is identified by its group and its index in the program.      *)
Names == Groups \X (0..MaxNumprocs - 1)
(* EXITED is not told from STOPPED, nor UNKNOWN from FATAL.                *)
StoppedStates == {"STOPPED", "FATAL"}
RunningStates == {"STARTING", "RUNNING", "BACKOFF"}
States == StoppedStates \cup RunningStates \cup {"STOPPING"}
Orders == {"start", "stop"} \X Names

(* names     the processes that the request is about                       *)
(* stops     those that had to be stopped                                  *)
(* stopping  whether the stops are still waited for                        *)
Requests == [kind: {"decrease", "disable", "enable"}, names: SUBSET Names,
             stops: SUBSET Names, stopping: BOOLEAN]

TypeOK ==
  /\ up \in {"up", "down", "broken"}
  /\ numprocs \in 1..MaxNumprocs
  /\ DOMAIN procs \subseteq Names /\ procs \in [DOMAIN procs -> States]
  /\ obsolete \subseteq DOMAIN procs
  /\ disabled \in BOOLEAN
  /\ file \in {"enabled", "disabled", "truncated"}
  /\ wished \in BOOLEAN
  /\ asked \subseteq Orders /\ commands \subseteq Orders
  /\ waiting \subseteq Requests
  /\ uses \in 0..MaxUses

Known == DOMAIN procs
Upto(low, high) == Groups \X (low..high - 1)
Current == Upto(0, numprocs)
Content(value) == IF value THEN "disabled" ELSE "enabled"

Init ==
  /\ up = "up"
  /\ numprocs = Configured
  /\ procs = [p \in Upto(0, Configured) |-> "STOPPED"]
  /\ obsolete = {}
  /\ disabled = FALSE /\ file = "enabled" /\ wished = FALSE
  /\ asked = {} /\ commands = {} /\ waiting = {}
  /\ uses = 0

-----------------------------------------------------------------------------
(* What is done with the processes of Supervisor.                          *)

Without(names) == [p \in Known \ names |-> procs[p]]

(* What is left of the commands when a process declares a state: a start   *)
(* command ends with the RUNNING state or with an unexpected one, a stop   *)
(* command with a stopped state.                                           *)
Remaining(p, s) ==
  {c \in commands : \/ c[2] # p
                    \/ c[1] = "start" /\ s \in {"STARTING", "BACKOFF"}
                    \/ c[1] = "stop" /\ s \notin StoppedStates}

\* (mutant) An obsolete process is only deleted when it fails to start.
UpdateStopLate(p, s) ==
  IF p \in obsolete /\ s = "BACKOFF"
  THEN procs' = Without({p}) /\ obsolete' = obsolete \ {p}
  ELSE procs' = [procs EXCEPT ![p] = s] /\ UNCHANGED obsolete

(* The listener deletes an obsolete process that stops, exits or fails to  *)
(* start: but not one that becomes FATAL.                                  *)
UpdateStop(p, s) ==
  IF p \in obsolete /\ s \in {"STOPPED", "BACKOFF"}
  THEN procs' = Without({p}) /\ obsolete' = obsolete \ {p}
  ELSE procs' = [procs EXCEPT ![p] = s] /\ UNCHANGED obsolete

(* Supervisor declares a new state of a process: the sequencers are        *)
(* informed before the process is deleted.                                 *)
OnProcessState(p, s) ==
  /\ commands' = Remaining(p, s)
  /\ UpdateStop(p, s)

(* A process is only spawned if it is neither disabled nor obsolete.       *)
Spawnable(p) == ~disabled /\ p \notin obsolete

-----------------------------------------------------------------------------
(* The life of the processes in Supervisor.                                *)

Quiet == UNCHANGED <<up, numprocs, disabled, file, wished, waiting, uses>>

(* Autostart, autorestart, or a new attempt.                               *)
Spawn(p) ==
  /\ up = "up" /\ p \in Known /\ procs[p] \in {"STOPPED", "BACKOFF"} /\ Spawnable(p)
  /\ OnProcessState(p, "STARTING")
  /\ Quiet /\ UNCHANGED asked

Evolve(p) ==
  /\ up = "up" /\ p \in Known
  /\ \E s \in CASE procs[p] = "STARTING" -> {"RUNNING", "BACKOFF"}
                [] procs[p] = "RUNNING" -> {"STOPPED"}
                [] procs[p] = "BACKOFF" -> {"FATAL"}
                [] OTHER -> {} :
       OnProcessState(p, s)
  /\ Quiet /\ UNCHANGED asked

(* A process that does not stop is killed after stopwaitsecs.              *)
Stopped(p) ==
  /\ up = "up" /\ p \in Known /\ procs[p] = "STOPPING"
  /\ OnProcessState(p, "STOPPED")
  /\ Quiet /\ UNCHANGED asked

-----------------------------------------------------------------------------
(* The requests to Supervisor. One that cannot be obeyed is a fault, that  *)
(* changes nothing.                                                        *)

StartProcess(p) ==
  /\ up = "up" /\ <<"start", p>> \in asked
  /\ asked' = asked \ {<<"start", p>>}
  /\ IF p \in Known /\ procs[p] \in StoppedStates /\ Spawnable(p)
     THEN OnProcessState(p, "STARTING")
     ELSE UNCHANGED <<procs, obsolete, commands>>
  /\ Quiet

StopProcess(p) ==
  /\ up = "up" /\ <<"stop", p>> \in asked
  /\ asked' = asked \ {<<"stop", p>>}
  /\ IF p \in Known /\ procs[p] \in RunningStates
     THEN OnProcessState(p, IF procs[p] = "BACKOFF" THEN "STOPPED" ELSE "STOPPING")
     ELSE UNCHANGED <<procs, obsolete, commands>>
  /\ Quiet

(* The Starter and the Stopper check their commands at every TICK. A       *)
(* command about a process that Supervisor does not know any more raises   *)
(* an exception: no command times out, and the TICK is not published.      *)
Wedged == \E c \in commands : c[2] \notin Known

TimeOut(c) ==
  /\ up = "up" /\ c \in commands /\ ~Wedged
  /\ commands' = commands \ {c}
  /\ Quiet /\ UNCHANGED <<procs, obsolete, asked>>

-----------------------------------------------------------------------------
(* The requests of the users.                                              *)

Use == up = "up" /\ uses < MaxUses /\ uses' = uses + 1
Defer(r) == waiting' = waiting \cup {r}
StopperInProgress == \E c \in commands : c[1] = "stop"

(* The Stopper commands the processes that run.                            *)
ToStop(names) == {p \in names \cap Known : procs[p] \in RunningStates}
StopAll(names) ==
  /\ commands' = commands \cup ({"stop"} \X ToStop(names))
  /\ asked' = asked \cup (({"stop"} \X ToStop(names)) \ commands)

(* A start request, from any instance.                                     *)
UserStart(p) ==
  /\ Use /\ p \in Known /\ procs[p] \in StoppedStates /\ ~disabled
  /\ commands' = commands \cup {<<"start", p>>}
  /\ asked' = asked \cup {<<"start", p>>}
  /\ UNCHANGED <<up, numprocs, procs, obsolete, disabled, file, wished, waiting>>

\* (mutant) The processes kept since a former decrease stay obsolete.
AddProcessesObsolete(names) ==
  /\ procs' = [p \in Known \cup names |-> IF p \in Known THEN procs[p] ELSE "STOPPED"]
  /\ UNCHANGED obsolete

(* The processes that an increase adds, unless they are still there since  *)
(* a former decrease: these are not obsolete any more.                     *)
AddProcesses(names) ==
  /\ procs' = [p \in Known \cup names |-> IF p \in Known THEN procs[p] ELSE "STOPPED"]
  /\ obsolete' = obsolete \ names

\* (mutant) One process too many.
NewProcessesMore(n) == Groups \X (numprocs..n)

NewProcesses(n) == Upto(numprocs, n)

Increase(n) ==
  /\ Use /\ n > numprocs
  /\ numprocs' = n
  /\ AddProcesses(NewProcesses(n))
  /\ UNCHANGED <<up, disabled, file, wished, asked, commands, waiting>>

(* The processes in excess that are stopped are deleted, the others marked *)
(* and returned.                                                           *)
Excess(n) == Upto(n, numprocs)
Deleted(n) == {p \in Excess(n) : procs[p] \in StoppedStates}
ObsoleteProcesses(n) ==
  /\ procs' = Without(Deleted(n))
  /\ obsolete' = obsolete \cup (Excess(n) \ Deleted(n))

(* Without wait, the answer is immediate. In the lazy mode nothing is      *)
(* stopped.                                                                *)
Decrease(n) ==
  /\ Use /\ n < numprocs
  /\ numprocs' = n
  /\ ObsoleteProcesses(n)
  /\ LET names == Excess(n) \ Deleted(n)
     IN  \/ StopAll(names) /\ UNCHANGED waiting
         \/ /\ StopAll(names) /\ names # {}
            /\ Defer([kind |-> "decrease", names |-> names, stops |-> ToStop(names),
                      stopping |-> TRUE])
         \/ UNCHANGED <<asked, commands, waiting>>
  /\ UNCHANGED <<up, disabled, file, wished>>

\* (mutant) The file is only written at the next start.
PersistLater(value) == disabled' = value /\ wished' = value /\ UNCHANGED file

(* The program is updated, then the file.                                  *)
Persist(value) == disabled' = value /\ wished' = value /\ file' = Content(value)

(* The processes in excess are not considered.                             *)
Disable ==
  /\ Use
  /\ Persist(TRUE)
  /\ StopAll(Current)
  /\ \/ Defer([kind |-> "disable", names |-> Current, stops |-> ToStop(Current),
               stopping |-> TRUE])
     \/ UNCHANGED waiting
  /\ UNCHANGED <<up, numprocs, procs, obsolete>>

(* The processes configured to start automatically are started at once.    *)
Enable ==
  /\ Use
  /\ Persist(FALSE)
  /\ \E started \in SUBSET {p \in Known \ obsolete : procs[p] = "STOPPED"} :
       procs' = [p \in Known |-> IF p \in started THEN "STARTING" ELSE procs[p]]
  /\ \/ Defer([kind |-> "enable", names |-> Current, stops |-> {}, stopping |-> FALSE])
     \/ UNCHANGED waiting
  /\ UNCHANGED <<up, numprocs, obsolete, asked, commands>>

-----------------------------------------------------------------------------
(* The polling of a deferred request: TRUE, a fault, or not done yet.      *)

Running(names) == \E p \in names \cap Known : procs[p] \in RunningStates

\* (mutant) The user waits until the processes have left Supvisors.
DecreaseVerdictPatient(r) ==
  IF StopperInProgress \/ r.names \cap Known # {} THEN "later" ELSE "done"

(* When the Stopper has nothing left to do, the processes must not be      *)
(* running, and must have left Supvisors.                                  *)
DecreaseVerdict(r) ==
  CASE StopperInProgress -> "later"
    [] ~StopperInProgress /\ r.names \cap Known # {} -> "fault"
    [] OTHER -> "done"

(* A process that has been removed is unknown, which is a fault, unless    *)
(* other instances have it: it is then not considered as disabled here.    *)
DisabilityVerdict(r) ==
  CASE r.stopping /\ StopperInProgress -> "later"
    [] r.stopping /\ ~StopperInProgress /\ Running(r.stops) -> "fault"
    [] ~Elsewhere /\ ~(r.names \subseteq Known) -> "fault"
    [] r.kind = "disable" /\ ~(disabled /\ r.names \subseteq Known) -> "later"
    [] r.kind = "enable" /\ disabled /\ r.names \cap Known # {} -> "later"
    [] OTHER -> "done"

Verdict(r) ==
  IF r.kind = "decrease" THEN DecreaseVerdict(r) ELSE DisabilityVerdict(r)

(* The stops are not looked at again once they are over.                   *)
Poll(r) ==
  /\ up = "up" /\ r \in waiting
  /\ IF Verdict(r) = "later"
     THEN /\ r.kind = "disable" /\ r.stopping /\ ~StopperInProgress
          /\ waiting' = (waiting \ {r}) \cup {[r EXCEPT !.stopping = FALSE]}
     ELSE waiting' = waiting \ {r}
  /\ UNCHANGED <<up, numprocs, procs, obsolete, disabled, file, wished, asked,
                 commands, uses>>

-----------------------------------------------------------------------------
(* supervisord crashes, maybe while it writes the file, and starts again   *)
(* with its configuration file. It cannot parse an empty file.             *)

Crash ==
  /\ up = "up" /\ uses < MaxUses /\ uses' = uses + 1
  /\ up' = "down"
  /\ \E content \in {file, "truncated"} : file' = content
  /\ procs' = Without(Known) /\ obsolete' = {}
  /\ asked' = {} /\ commands' = {} /\ waiting' = {}
  /\ UNCHANGED <<numprocs, disabled, wished>>

Restart ==
  /\ up = "down"
  /\ up' = IF file = "truncated" THEN "broken" ELSE "up"
  /\ numprocs' = Configured
  /\ procs' = IF file = "truncated" THEN procs
              ELSE [p \in Upto(0, Configured) |-> "STOPPED"]
  /\ disabled' = (file = "disabled")
  /\ UNCHANGED <<obsolete, file, wished, asked, commands, waiting, uses>>

(* The user removes the file.                                              *)
RemoveFile ==
  /\ up = "broken"
  /\ up' = "down" /\ file' = "enabled" /\ wished' = FALSE
  /\ UNCHANGED <<numprocs, procs, obsolete, disabled, asked, commands, waiting, uses>>

-----------------------------------------------------------------------------
Life == \E p \in Names : Spawn(p) \/ Evolve(p) \/ Stopped(p) \/ StartProcess(p) \/ StopProcess(p)
Users == \/ \E p \in Names : UserStart(p)
         \/ \E n \in 1..MaxNumprocs : Increase(n) \/ Decrease(n)
         \/ Disable \/ Enable
Next ==
  \/ Life
  \/ Users
  \/ \E c \in commands : TimeOut(c)
  \/ \E r \in waiting : Poll(r)
  \/ Crash \/ Restart \/ RemoveFile

(* The proxy thread sends what is asked, Supervisor kills what does not    *)
(* stop, the TICKs count and the deferred requests are polled.             *)
Fairness ==
  /\ \A p \in Names : WF_vars(StartProcess(p)) /\ WF_vars(StopProcess(p)) /\ WF_vars(Stopped(p))
  /\ \A c \in Orders : WF_vars(TimeOut(c))
  /\ WF_vars(\E r \in waiting : Poll(r))

Spec == Init /\ [][Next]_vars /\ Fairness

-----------------------------------------------------------------------------
(* Properties.                                                             *)

(* Whatever the increases and decreases, and the processes still there     *)
(* from a former value, Supervisor has exactly the processes that numprocs *)
(* tells, and the others it still has are all bound to be deleted.         *)
Counted == up = "up" => Known \ obsolete = Current

(* supervisord starts with the disability last asked for, whatever it was  *)
(* doing when it crashed: unless it cannot start.                          *)
Durable == [][up = "down" /\ up' = "up" => disabled' = wished]_vars

(* A process in excess that has been asked to stop leaves Supervisor, or   *)
(* is needed again, or failed to start before it was told to stop.         *)
Leaves ==
  \A p \in Names :
    (p \in obsolete /\ <<"stop", p>> \in asked) ~>
      (p \notin obsolete \/ procs[p] = "FATAL")

(* The users who wait get an answer: again and again nobody is left        *)
(* waiting, except those that the contrary request, or a decrease that     *)
(* removes a process they wait for, has overtaken, and except while a      *)
(* command is left without its process.                                    *)
Overtaken(r) ==
  \/ r.kind = "disable" /\ ~(disabled /\ r.names \subseteq Known)
  \/ r.kind = "enable" /\ disabled
Answered == []<>(Wedged \/ \A r \in waiting : Overtaken(r))
=============================================================================
