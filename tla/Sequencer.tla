----------------------------- MODULE Sequencer -----------------------------
(***************************************************************************)
(* The Starter, the Stopper and the failure handler of the Master at work: *)
(* the Supervisors that run the processes, the requests they are sent, the *)
(* events they return, the loss of an instance, the requests of the users  *)
(* (rpcinterface.py) and the state machine of this Master, from its first  *)
(* DISTRIBUTION on: OPERATION, CONCILIATION, the elections that a newcomer *)
(* requires and that it wins, and the end of Supvisors (statemachine.py).  *)
(*                                                                         *)
(* The events reach the Master at once, in order. The requests are handled *)
(* by a Supervisor later than sent, or never.                              *)
(***************************************************************************)
EXTENDS Commander, Integers

CONSTANTS Budget,         \* how many times each incident may happen, and all of them
          MaxPending,     \* a bound on the requests that wait at a Supervisor
          Ticking,        \* the periodic checks are told apart, for their fairness
          Conciliation,   \* the conciliation strategy of the configuration
          UserStrategies  \* the starting strategies that the users may choose

Incidents == {"user", "backoff", "exit", "crash", "direct", "drop", "lose", "return", "disable",
              "end", "any"}
ASSUME BudgetAssumption == Budget \in [Incidents -> Nat]

VARIABLES
  procs,      \* the status of the processes, as held by the Master
  ids,        \* the instances allowed to each process
  touched,    \* the processes that have ended once on an instance
  alive,      \* the instances held as RUNNING
  checked,    \* the instances held as CHECKED, to be activated
  strange,    \* the instances RUNNING that do not declare the Master yet
  gone,       \* the instances that are really lost
  jobs,       \* the jobs in the Starter and in the Stopper
  planned, current,   \* the references to the jobs, planned and in progress
  restarts, starts,   \* the starts deferred by the Stopper
  handler,    \* the jobs of the failure handler
  sent,       \* the requests on their way to each Supervisor
  fsm,        \* the state of Supvisors
  left,       \* the incidents that may still happen
  tick        \* the parity of the periodic checks: each of them is a step

vars == <<procs, ids, touched, alive, checked, strange, gone, jobs, planned, current, restarts, starts,
          handler, sent, fsm, left, tick>>

World ==
  [procs |-> procs, ids |-> ids, touched |-> touched, alive |-> alive, jobs |-> jobs,
   planned |-> planned, current |-> current, restarts |-> restarts, starts |-> starts,
   handler |-> handler, failed |-> {}, sent |-> sent, raised |-> FALSE,
   checked |-> checked, strange |-> strange, fsm |-> fsm]

(* The variables take the values of the world left by the calls. What is   *)
(* sent to a lost Supervisor is lost too.                                  *)
Take(w) ==
  /\ procs' = w.procs /\ ids' = w.ids /\ touched' = w.touched /\ alive' = w.alive
  /\ jobs' = w.jobs /\ planned' = w.planned /\ current' = w.current
  /\ restarts' = w.restarts /\ starts' = w.starts /\ handler' = w.handler
  /\ checked' = w.checked /\ strange' = w.strange /\ fsm' = w.fsm
  /\ sent' = [i \in Supervisors |-> IF i \in gone' THEN <<>> ELSE w.sent[i]]
Becomes(w) == Take(Returned(w))

Spend(incident) ==
  /\ left[incident] > 0 /\ left["any"] > 0
  /\ left' = [left EXCEPT ![incident] = @ - 1, !["any"] = @ - 1]
  /\ UNCHANGED tick
Spare == UNCHANGED <<left, tick>>

-----------------------------------------------------------------------------
(* Supvisors enters DISTRIBUTION with every process stopped everywhere.    *)

Unused == [NewProcess EXCEPT !.info =
  [i \in Supervisors |-> Declaration("STOPPED", TRUE, FALSE, 0)], !.state = "STOPPED"]

Blank ==
  [procs |-> [p \in Processes |-> Unused], ids |-> InitialIds, touched |-> {},
   alive |-> Supervisors, jobs |-> <<>>, planned |-> [k \in Kinds |-> Empty],
   current |-> [k \in Kinds |-> Empty], restarts |-> Empty, starts |-> Empty,
   handler |-> Handler!NoJob, failed |-> {}, sent |-> [i \in Supervisors |-> <<>>],
   raised |-> FALSE, checked |-> {}, strange |-> {}, fsm |-> "DISTRIBUTION"]

Starts(w) ==
  /\ procs = w.procs /\ ids = w.ids /\ touched = w.touched /\ alive = w.alive
  /\ jobs = w.jobs /\ planned = w.planned /\ current = w.current
  /\ restarts = w.restarts /\ starts = w.starts /\ handler = w.handler
  /\ checked = w.checked /\ strange = w.strange /\ fsm = w.fsm
  /\ sent = w.sent /\ gone = {} /\ left = Budget /\ tick = FALSE
Init == Starts(Returned(StartApplications(Blank)))

-----------------------------------------------------------------------------
(* The events. Supervisor keeps the date of the end of a process.          *)

Event(w, p, i, state, expected) ==
  LET declared == Declaration(state, expected, w.procs[p].info[i].disabled, 0)
      seen == [w EXCEPT !.procs[p] = UpdateInfo(@, i, declared),
                        !.touched = IF state \in StoppedStates THEN @ \cup {<<p, i>>} ELSE @]
  IN  OnProcessEvent(seen, p, i)

State(p, i) == procs[p].info[i].state
Here(i) == i \notin gone

(* A Supervisor handles the oldest request it has received. It refuses to  *)
(* start what runs or is disabled, and to stop what does not run.          *)
Answer(p, i, kind) ==
  LET state == State(p, i)
  IN  CASE kind = "start" /\ state \in StoppedStates /\ ~DisabledOn(procs[p], i) -> "STARTING"
        [] kind = "stop" /\ state \in {"STARTING", "RUNNING"} -> "STOPPING"
        [] kind = "stop" /\ state = "BACKOFF" -> "STOPPED"
        [] OTHER -> "none"
Serve(i) ==
  /\ Here(i) /\ sent[i] # <<>>
  /\ Spare /\ UNCHANGED gone
  /\ LET r == Head(sent[i])
         w == [World EXCEPT !.sent[i] = Tail(@)]
         state == Answer(r.p, i, r.kind)
     IN  Becomes(IF state = "none" THEN w ELSE Event(w, r.p, i, state, TRUE))

(* The request is lost.                                                    *)
Drop(i) ==
  /\ Here(i) /\ sent[i] # <<>>
  /\ Spend("drop") /\ UNCHANGED gone
  /\ Becomes([World EXCEPT !.sent[i] = Tail(@)])

Lives(p, i, state, expected) ==
  /\ UNCHANGED gone
  /\ Becomes(Event(World, p, i, state, expected))

Progress(p, i) ==
  /\ Here(i) /\ Spare
  /\ \E n \in {<<"STARTING", "RUNNING">>, <<"STOPPING", "STOPPED">>, <<"BACKOFF", "STARTING">>,
                <<"RUNNING", "EXITED">>} :
       /\ State(p, i) = n[1]
       /\ n[2] = "EXITED" => Rules[p].waits
       /\ Lives(p, i, n[2], TRUE)

(* A process exits too early, ends, crashes, or is given up by Supervisor. *)
Fail(p, i) ==
  /\ Here(i)
  /\ \E n \in {<<"STARTING", "BACKOFF", "backoff">>, <<"BACKOFF", "FATAL", "backoff">>,
                <<"RUNNING", "EXITED", "exit">>, <<"RUNNING", "EXITED", "crash">>} :
       /\ State(p, i) = n[1]
       /\ IF n[2] = "FATAL" THEN Spare ELSE Spend(n[3])
       /\ Lives(p, i, n[2], n[2] = "BACKOFF" \/ n[3] = "exit")

(* A user starts a process through Supervisor, without Supvisors.          *)
StartDirectly(p, i) ==
  /\ Here(i) /\ State(p, i) \in StoppedStates /\ ~DisabledOn(procs[p], i)
  /\ Spend("direct")
  /\ Lives(p, i, "STARTING", TRUE)

-----------------------------------------------------------------------------
(* The loss of an instance. The Master holds it as RUNNING until its next  *)
(* periodic check.                                                         *)

Lose(i) ==
  /\ i # Local /\ Here(i)
  /\ Spend("lose")
  /\ gone' = gone \cup {i}
  /\ sent' = [sent EXCEPT ![i] = <<>>]
  /\ UNCHANGED <<procs, ids, touched, alive, checked, strange, jobs, planned, current,
                 restarts, starts, handler, fsm>>

(* The processes that ran on a lost instance are declared FATAL there.     *)
Invalidated(w, lost) ==
  LET one(v, i) ==
        LET hit == {p \in Processes : RunningOn(v.procs[p], i)}
        IN  [v EXCEPT !.failed = @ \cup {p \in hit : FailsWith(v.procs[p], i)},
                      !.procs = [p \in Processes |->
                         IF p \in hit THEN InvalidateIdentifier(v.procs[p], i, 0) ELSE v.procs[p]]]
  IN  IF w.raised THEN w
      ELSE [FoldLeft(one, w, SetToSeq(lost)) EXCEPT
              !.alive = @ \ lost, !.checked = @ \ lost, !.strange = @ \ lost]

(* The Starter and the Stopper first remove what they command from the     *)
(* processes lost. The Master then handles the others, unless this turn    *)
(* leads to or remains in ELECTION, or it waits for an instance activated. *)
Removed(w, lost) == IF lost = {} THEN w ELSE OnInvalidation(w, lost)
HandleFailures(w) ==
  IF w.raised \/ w.failed = {} \/ w.fsm \notin {"DISTRIBUTION", "OPERATION"} THEN w
  ELSE TriggerJobs(FoldLeft(AddFailure, w, SelectSeq(Order, LAMBDA p : p \in w.failed)))
Inconsistent(w) ==
  \/ w.fsm \in {"ELECTION", "FINAL"}
  \/ w.fsm \in {"CONCILIATION", "SHUTTING_DOWN"} /\ w.strange # {}
Handled(w, lost) ==
  IF w.raised \/ Inconsistent(w) THEN w ELSE HandleFailures(Removed(w, lost))

-----------------------------------------------------------------------------
(* The turns of the state machine. The Master remains the Master: it is in *)
(* ELECTION until the instances activated declare it.                      *)

Idle(w) == Busy(w, "start") \cup Busy(w, "stop") = {}
Conflicting(w) == Conflicts(w.procs) # {}

(* What the Stopper has deferred is not aborted.                           *)
Aborted(w) ==
  [w EXCEPT !.jobs = <<>>, !.planned = [k \in Kinds |-> Empty],
            !.current = [k \in Kinds |-> Empty], !.handler = Handler!NoJob]
Activated(w) ==
  [w EXCEPT !.alive = @ \cup w.checked, !.strange = @ \cup w.checked, !.checked = {}]
Elect(w) == [Aborted(Activated(w)) EXCEPT !.fsm = "ELECTION"]

(* The first turn, in the state that the event finds. An instance is not   *)
(* activated in DISTRIBUTION; activated in OPERATION, it leads to ELECTION,*)
(* and the losses of that turn are not handled. CONCILIATION does not lead *)
(* to ELECTION: it waits. The end of Supvisors is hastened.                *)
Turn(w) ==
  CASE w.raised \/ w.fsm = "DISTRIBUTION" \/ (w.fsm = "OPERATION" /\ w.checked = {}) -> w
    [] ~w.raised /\ w.fsm = "OPERATION" /\ w.checked # {} -> Elect(w)
    [] OTHER -> Activated(w)

(* The transitions that follow, each one evaluated in the state left by    *)
(* the one before.                                                         *)
Distributed(w) ==
  IF w.raised \/ w.fsm # "ELECTION" \/ w.strange # {} THEN w
  ELSE StartApplications([w EXCEPT !.fsm = "DISTRIBUTION"])

IsDistributed(w) == w.fsm = "DISTRIBUTION" /\ Busy(w, "start") = {}
IsConciliated(w) == w.fsm = "CONCILIATION" /\ w.strange = {} /\ Idle(w) /\ ~Conflicting(w)
Operated(w) ==
  CASE w.raised \/ ~(IsDistributed(w) \/ IsConciliated(w)) -> w
    [] OTHER -> IF w.checked # {} THEN Elect(w) ELSE [w EXCEPT !.fsm = "OPERATION"]

(* A conflict that remains with nothing in progress is conciliated again.  *)
Conciliates(w) ==
  /\ Idle(w) /\ Conflicting(w)
  /\ w.fsm = "OPERATION" \/ (w.fsm = "CONCILIATION" /\ w.strange = {})
Ends(w) == w.fsm = "SHUTTING_DOWN" /\ (Busy(w, "stop") = {} \/ w.strange # {})
Ended(w) == IF Ends(w) THEN [w EXCEPT !.fsm = "FINAL"] ELSE w
Conciliated(w) ==
  IF ~Conciliates(w) THEN Becomes(w)
  ELSE \E kept \in Survivors(w.procs) :
         Becomes(Conciliate([w EXCEPT !.fsm = "CONCILIATION"], Conciliation, kept))
Finish(w) ==
  IF w.raised THEN Becomes(w) ELSE Conciliated(Ended(w))
Evaluated(w) == IF w.raised THEN Becomes(w) ELSE Finish(Operated(Distributed(w)))

Worked(w) == TriggerJobs(Check(w))

-----------------------------------------------------------------------------
(* The return of an instance: its handshake ends, and the state machine is *)
(* evaluated. It declares the Master later, or never if it is lost again.  *)

Loaded(w, i) ==
  [w EXCEPT !.procs = [p \in Processes |->
               AddInfo(w.procs[p], i, Declaration("STOPPED", TRUE, FALSE, 0))],
            !.touched = {t \in @ : t[2] # i}, !.checked = @ \cup {i}]

Return(i) ==
  /\ i \in gone \ (alive \cup checked)
  /\ Spend("return")
  /\ gone' = gone \ {i}
  /\ Evaluated(Turn(Worked(Loaded(World, i))))

Adopt(i) ==
  /\ i \in strange \ gone /\ fsm # "FINAL"
  /\ Spare /\ UNCHANGED gone
  /\ Becomes([World EXCEPT !.strange = @ \ {i}])

-----------------------------------------------------------------------------
(* The periodic check. The ticks of the instances have been received.      *)

Aged(c) ==
  IF ~Here(c.i) THEN c
  ELSE [c EXCEPT !.age = Min({@ + 1, MinimumTicks + Rules[c.p].startticks
                                       + Rules[c.p].stopticks + 1})]
Ticked(w) ==
  LET working == {w.current[k][a] : <<k, a>> \in
                    {x \in Kinds \X Applications : x[2] \in DOMAIN w.current[x[1]]}}
  IN  [w EXCEPT !.jobs = [r \in DOMAIN @ |->
         IF r \notin working THEN @[r]
         ELSE [@[r] EXCEPT !.current = [k \in 1..Len(@) |-> Aged(@[k])]]]]

(* No check is modelled while too many requests wait at a Supervisor.      *)
Timer ==
  /\ \A i \in Supervisors : Len(sent[i]) < MaxPending
  /\ tick' = (Ticking /\ ~tick) /\ UNCHANGED <<gone, left>>
  /\ LET lost == (alive \cup checked) \cap gone
     IN  Evaluated(Handled(Turn(Invalidated(Worked(Ticked(World)), lost)), lost))

-----------------------------------------------------------------------------
(* The requests of the users.                                              *)

Request(states, w) ==
  /\ fsm \in states
  /\ Spend("user") /\ UNCHANGED gone
  /\ Becomes(w)
Operating == {"OPERATION"}
Working == {"OPERATION", "CONCILIATION"}

UserStartApplication(a, strategy) ==
  /\ Managed(a) /\ AppState(procs, a) = "STOPPED"
  /\ Request(Operating, StartApplication(World, a, strategy))

UserStopApplication(a) ==
  /\ Managed(a) /\ HasRunning(procs, a)
  /\ Request(Working, StopApplication(World, a))

(* The restart of an application that is not managed is not refused.       *)
UserRestartApplication(a, strategy) ==
  Request(Operating,
    CommanderNext(PlanRestart(World, a, strategy), IF HasRunning(procs, a) THEN "stop" ELSE "start"))

(* The requests on processes are for one process or for all those of an    *)
(* application.                                                            *)
ConciliationStrategies ==
  {"SENICIDE", "INFANTICIDE", "USER", "STOP", "RESTART", "RUNNING_FAILURE"}
Selections == {<<p>> : p \in Processes}
                \cup {SelectSeq(Order, LAMBDA p : p \in Of(a)) : a \in Applications}

UserStartProcess(ps, strategy) ==
  /\ \A p \in ToSet(ps) : ~IsRunning(procs[p])
  /\ Request(Operating, FoldLeft(LAMBDA w, p : StartProcess(w, p, strategy), World, ps))

(* The first process that can be placed, of those that do not run.         *)
UserStartAnyProcess(ps, strategy) ==
  LET fits(p) == ~IsRunning(procs[p])
                   /\ Choose(World, strategy, PossibleFor(procs, ids, p), Rules[p].load) # NoInstance
      found == SelectSeq(ps, fits)
  IN  /\ found # <<>>
      /\ Request(Operating, StartProcess(World, found[1], strategy))

UserStopProcess(ps) ==
  Request(Working, CommanderNext(
    FoldLeft(LAMBDA w, p : PlanStopProcess(w, p, Supervisors), World, ps), "stop"))

RestartProcess(w, p, strategy) ==
  IF w.raised THEN w
  ELSE CommanderNext(PlanRestartProcess(w, p, strategy),
                     IF IsRunning(w.procs[p]) THEN "stop" ELSE "start")
UserRestartProcess(ps, strategy) ==
  Request(Operating, FoldLeft(LAMBDA w, p : RestartProcess(w, p, strategy), World, ps))

UserRestartSequence ==
  /\ Busy(World, "start") \cup Busy(World, "stop") = {}
  /\ Request(Operating, StartApplications(World))

(* Supvisors is shut down: everything is aborted, then stopped. The state  *)
(* is evaluated at once, without any check.                                *)
Hastened(w) == IF w.raised THEN w ELSE Ended(Activated(w))
UserShutdown ==
  /\ fsm \in {"DISTRIBUTION", "OPERATION", "CONCILIATION"}
  /\ Spend("end") /\ UNCHANGED gone
  /\ Becomes(Hastened(StopApplications([Aborted(World) EXCEPT !.fsm = "SHUTTING_DOWN"])))

(* The conflicts may be left to the user.                                  *)
UserConciliate(strategy) ==
  /\ strategy # "USER"
  /\ \E kept \in Survivors(procs) :
       Request({"CONCILIATION"}, Conciliate(World, strategy, kept))

(* A program is disabled or enabled on the local Supervisor. The processes *)
(* disabled are stopped.                                                   *)
Disabled(w, ps, disabled) ==
  [w EXCEPT !.procs = [p \in Processes |->
     IF p \in ToSet(ps) THEN UpdateDisability(w.procs[p], Local, disabled) ELSE w.procs[p]]]

ProcessesOf(program) == SelectSeq(Order, LAMBDA p : Rules[p].program = program)
Disable(program) ==
  LET ps == ProcessesOf(program)
      running == SelectSeq(ps, LAMBDA p : RunningOn(procs[p], Local))
  IN  /\ fsm \in Operating /\ Spend("disable") /\ UNCHANGED gone
      /\ Becomes(CommanderNext(FoldLeft(LAMBDA w, p : PlanStopProcess(w, p, {Local}),
                                        Disabled(World, ps, TRUE), running), "stop"))

Enable(program) ==
  /\ fsm \in Operating /\ \A p \in ToSet(ProcessesOf(program)) : DisabledOn(procs[p], Local)
  /\ Spare /\ UNCHANGED gone
  /\ Becomes(Disabled(World, ProcessesOf(program), FALSE))

-----------------------------------------------------------------------------
Users ==
  \/ \E a \in Applications : UserStopApplication(a)
  \/ \E a \in Applications, s \in UserStrategies : UserStartApplication(a, s)
  \/ \E a \in Applications, s \in UserStrategies : UserRestartApplication(a, s)
  \/ \E ps \in Selections, s \in UserStrategies : UserStartProcess(ps, s)
  \/ \E ps \in Selections, s \in UserStrategies : UserStartAnyProcess(ps, s)
  \/ \E ps \in Selections, s \in UserStrategies : UserRestartProcess(ps, s)
  \/ \E ps \in Selections : UserStopProcess(ps)
  \/ \E p \in Processes : Disable(Rules[p].program)
  \/ \E p \in Processes : Enable(Rules[p].program)
  \/ \E s \in ConciliationStrategies : UserConciliate(s)
  \/ UserRestartSequence
  \/ UserShutdown

Life ==
  \/ \E i \in Supervisors : Serve(i)
  \/ \E p \in Processes, i \in Supervisors : Progress(p, i)
  \/ \E i \in Supervisors : Adopt(i)

Mishaps ==
  \/ \E i \in Supervisors : Drop(i)
  \/ \E i \in Supervisors : Lose(i)
  \/ \E i \in Supervisors : Return(i)
  \/ \E p \in Processes, i \in Supervisors : Fail(p, i)
  \/ \E p \in Processes, i \in Supervisors : StartDirectly(p, i)

Next == Users \/ Life \/ Mishaps \/ Timer

(* Supvisors is ticked by Supervisor every 5 seconds. Nothing is assumed   *)
(* of the requests, of the processes and of the users.                     *)
Fairness == WF_tick(tick' = ~tick)

Spec == Init /\ [][Next]_vars /\ Fairness

-----------------------------------------------------------------------------
(* Properties.                                                             *)

JobsOf(kind) == {jobs[current[kind][a]] : a \in DOMAIN current[kind]}
ProcessesIn(commands) == {c.p : c \in commands}
InCommand(kind) == ProcessesIn(UNION {ToSet(job.current) : job \in JobsOf(kind)})

(* What waits in a sequence. A request on several processes adds them one  *)
(* by one: the first one is commanded before the next ones are known.      *)
InWaiting(kind) ==
  LET single(c) == \/ kind = "start" /\ c.alone
                   \/ kind = "stop" /\ \E a \in DOMAIN starts : \E s \in ToSet(starts[a]) : s.p = c.p
  IN  ProcessesIn({c \in UNION {ToSet(PlannedCommands(job)) : job \in JobsOf(kind)} : ~single(c)})
Owners == [p \in Processes |-> Rules[p].app]

(* The types: the status of the processes, and the jobs of the Starter and *)
(* of the Stopper, each held once under the name of its application.       *)
TypeOK ==
  /\ \A p \in Processes : IsProcessStatus(procs[p])
  /\ ids \in [Processes -> Seq(Supervisors)]
  /\ touched \subseteq Processes \X Supervisors
  /\ alive \subseteq Supervisors /\ gone \subseteq Supervisors
  /\ checked \subseteq Supervisors \ alive /\ strange \subseteq alive
  /\ \A k \in Kinds : /\ DOMAIN planned[k] \cup DOMAIN current[k] \subseteq Applications
                      /\ \A a \in DOMAIN planned[k] : jobs[planned[k][a]].app = a
                      /\ \A a \in DOMAIN current[k] : jobs[current[k][a]].app = a
  /\ Referenced(World) = DOMAIN jobs
  /\ DOMAIN restarts \cup DOMAIN starts \subseteq Applications
  /\ handler \in Handler!Jobs
  /\ \A i \in Supervisors : \A n \in DOMAIN sent[i] :
       sent[i][n].kind \in Kinds /\ sent[i][n].p \in Processes
  /\ fsm \in {"ELECTION", "DISTRIBUTION", "OPERATION", "CONCILIATION", "SHUTTING_DOWN", "FINAL"}
  /\ left \in [Incidents -> Nat]

(* The Starter processes the applications and their processes by           *)
(* increasing number, whatever is asked meanwhile. What has been deferred  *)
(* or is asked one by one comes when it is asked.                          *)
StartOrder == INSTANCE Sequencing WITH
  RankOf <- [a \in Applications |-> AppRules[a].start],
  NumberOf <- [p \in Processes |-> Rules[p].start], Owner <- Owners,
  expected <- DOMAIN planned["start"], round <- DOMAIN current["start"],
  deferred <- DOMAIN restarts \cup DOMAIN starts,
  todo <- InWaiting("start"), busy <- InCommand("start")
StartsInOrder == StartOrder!Spec

(* The Stopper processes the applications and their processes by           *)
(* decreasing number, whatever is asked meanwhile, in the same way.        *)
StopOrder == INSTANCE Sequencing WITH
  RankOf <- [a \in Applications |-> 0 - AppRules[a].stop],
  NumberOf <- [p \in Processes |-> 0 - Rules[p].stop], Owner <- Owners,
  expected <- DOMAIN planned["stop"], round <- DOMAIN current["stop"],
  deferred <- {a \in DOMAIN current["start"] : jobs[current["start"][a]].stop},
  todo <- InWaiting("stop"), busy <- InCommand("stop")
StopsInOrder == StopOrder!Spec

(* The requests sent by a step, which may have handled the oldest one.     *)
Requests == [kind : Kinds, p : Processes]
New(i) == LET kept == IF IsPrefix(sent[i], sent'[i]) THEN Len(sent[i]) ELSE Len(sent[i]) - 1
          IN  ToSet(SubSeq(sent'[i], kept + 1, Len(sent'[i])))

(* A request is followed by a command as long as it waits at a Supervisor, *)
(* until an event of its process comes first, its time is over, or an      *)
(* election or the end of Supvisors aborts all. The requests sent with a   *)
(* process of the same application given up are left out: the failure ends *)
(* the jobs of that application, and the code then deletes the next ones.  *)
HasCommand(r, i) ==
  \E a \in DOMAIN current[r.kind] :
    \E c \in ToSet(jobs[current[r.kind][a]].current) : c.p = r.p /\ c.i = i
HadItsTime(r, i) ==
  \E k \in DOMAIN jobs : \E c \in ToSet(jobs[k].current) :
    jobs[k].kind = r.kind /\ c.p = r.p /\ c.i = i /\ c.age >= MinimumTicks
Aborts ==
  /\ fsm \in {"DISTRIBUTION", "OPERATION", "CONCILIATION"}
  /\ fsm' \in {"ELECTION", "SHUTTING_DOWN", "FINAL"}
GivenUp(p) == \E q \in Of(Rules[p].app) \ {p} : procs'[q].forced = "FATAL"
Followed ==
  [][\A i \in Supervisors, r \in Requests : r \in ToSet(sent'[i]) =>
       \/ HasCommand(r, i)' \/ Aborts
       \/ r \in New(i) /\ GivenUp(r.p)
       \/ /\ r \notin New(i)
          /\ \/ ~HasCommand(r, i) \/ HadItsTime(r, i)
             \/ State(r.p, i)' # State(r.p, i)]_vars

(* A process is not asked to start while it is held as running somewhere,  *)
(* or as long as the Starter commands another start of it. A request given *)
(* up by a time-out or by an election may still wait: it is asked again.   *)
StartCommands(p) ==
  {<<r, k>> \in (DOMAIN jobs) \X (1..Cardinality(Processes)) :
     jobs[r].kind = "start" /\ k \in DOMAIN jobs[r].current /\ jobs[r].current[k].p = p}
NoDoubleStart ==
  [][\A i \in Supervisors, p \in Processes : [kind |-> "start", p |-> p] \in New(i) =>
       Stopped(procs'[p]) /\ Cardinality(StartCommands(p)') <= 1]_vars

(* A machine is never asked to start more than it can bear, with what it   *)
(* runs and the requests that wait there, unless one of these has been     *)
(* given up: the load of what a time-out or an election has made the       *)
(* Starter forget is not counted.                                          *)
Requested(n) ==
  {x \in Processes \X {j \in Supervisors : Node[j] = n} :
     \E r \in ToSet(sent[x[2]]) : r.kind = "start" /\ r.p = x[1]}
Forgotten(n) ==
  \E x \in Requested(n) : ~HasCommand([kind |-> "start", p |-> x[1]], x[2])
NodeDemand(n) ==
  LET waiting == {x \in Requested(n) : ~RunningOn(procs[x[1]], x[2])}
  IN  NodeLoad(procs, n) + FoldSet(LAMBDA x, sum : Rules[x[1]].load + sum, 0, waiting)
NoOverload ==
  [][\A i \in Supervisors :
       (\E r \in New(i) : r.kind = "start") /\ ~Forgotten(Node[i])'
       => NodeDemand(Node[i])' <= MaxLoad]_vars

(* A start is deferred with a stop of its application in the Stopper, and  *)
(* is not left behind when this stop ends. An election and the end of      *)
(* Supvisors abort the stop and not the start (commander.py:985).          *)
Waiting(a) ==
  <<IF a \in DOMAIN restarts THEN <<restarts[a]>> ELSE <<>>,
    IF a \in DOMAIN starts THEN starts[a] ELSE <<>>>>
Backed(a) == Waiting(a) = <<<<>>, <<>>>> \/ a \in Busy(World, "stop")
DeferredStarts ==
  [][\A a \in Applications :
       Backed(a)' \/ Aborts \/ (~Backed(a) /\ Waiting(a)' = Waiting(a))]_vars

(* The loss of an instance is repaired: a process that ran nowhere else,   *)
(* neither commanded nor planned at that time, is restarted with its       *)
(* application or alone, now or later. It is given up when no instance can *)
(* bear it, when a failure asks to stop its application, or when its       *)
(* application is still STOPPING: it is then neither restarted nor started.*)
Commanded(p, kinds) ==
  \E r \in DOMAIN jobs :
    /\ jobs[r].kind \in kinds
    /\ \E c \in ToSet(PlannedCommands(jobs[r]) \o jobs[r].current) : c.p = p
Repaired(p) ==
  LET a == Rules[p].app
  IN  \/ p \in handler.again \/ a \in handler.restart \cup handler.stop
      \/ a \in DOMAIN restarts
      \/ a \in DOMAIN starts /\ \E s \in ToSet(starts[a]) : s.p = p
      \/ Commanded(p, {"start"})
      \/ procs[p].forced = "FATAL"
      \/ AppState(procs, a) = "STOPPING"
LostAlone(p, lost) == IsRunning(procs[p]) /\ procs[p].running \subseteq lost
LossRepaired ==
  [][\A p \in Processes :
       (/\ LostAlone(p, alive \ alive') /\ ~Commanded(p, Kinds)
        /\ fsm \in {"DISTRIBUTION", "OPERATION"} /\ checked = {}
        /\ Rules[p].running \in {"RESTART_PROCESS", "RESTART_APPLICATION"}
        /\ Rules[p].app \notin handler.stop
        /\ \A q \in Of(Rules[p].app) :
             LostAlone(q, alive \ alive') => Rules[q].running # "STOP_APPLICATION")
       => Repaired(p)']_vars

(* The jobs of the failure handler are never contradictory.                *)
Consistent == Handler!Precedence(handler)

(* Whatever is lost or late, the jobs end thanks to the time-outs, unless  *)
(* the Starter waits for the exit of a process that keeps running, or the  *)
(* conflicts are conciliated again.                                        *)
WaitsForExit ==
  \E a \in DOMAIN current["start"] : \E c \in ToSet(jobs[current["start"][a]].current) :
    WaitsExit(c) /\ State(c.p, c.i) = "RUNNING"
JobsEnd == []<>(Idle(World) \/ WaitsForExit \/ fsm = "CONCILIATION")

(* A shutdown ends, whatever does not stop.                                *)
ShutdownEnds == fsm = "SHUTTING_DOWN" ~> fsm = "FINAL"
=============================================================================
