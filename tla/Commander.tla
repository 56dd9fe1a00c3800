----------------------------- MODULE Commander -----------------------------
(***************************************************************************)
(* The Starter and the Stopper of a Supvisors instance (commander.py).     *)
(*                                                                         *)
(* Both hold jobs per application: a sequence of groups of commands. The   *)
(* applications are processed by rank, and the groups of an application by *)
(* sequence number, lowest first for the Starter and greatest first for    *)
(* the Stopper. A group is complete when the events received tell that     *)
(* every command has succeeded, failed or timed out.                       *)
(*                                                                         *)
(* All the calls are synchronous, and re-entrant: the state of a process   *)
(* forced by a job is an event for the Starter and for the Stopper. An     *)
(* operator is then a method: it takes the world w left by the previous    *)
(* call and returns the world it leaves.                                   *)
(*   procs, ids, touched     see Application                               *)
(*   alive      the instances held as RUNNING                              *)
(*   jobs       the jobs of an application, by reference                   *)
(*   planned, current   the references held by "start" and by "stop"       *)
(*   restarts, starts   the applications and the processes to be started   *)
(*              by the Stopper when the application has been stopped       *)
(*   handler    the jobs of the failure handler                            *)
(*   failed     the processes lost with an instance, still to be handled   *)
(*   sent       the requests sent to each Supervisor and not handled yet   *)
(*   raised     an exception has been raised: the callers are unwound      *)
(***************************************************************************)
EXTENDS Strategy

CONSTANT MinimumTicks   \* the ticks granted to any request

Handler == INSTANCE FailureHandler
  WITH Program <- Processes, Owner <- [p \in Processes |-> Rules[p].app],
       Sequenced <- {p \in Processes : StartSequenced(p)}

Kinds == {"start", "stop"}
StarterFirst == <<"start", "stop">>
StopperFirst == <<"stop", "start">>
Empty == [x \in {} |-> <<>>]
Set(f, x, y) == [z \in DOMAIN f \cup {x} |-> IF z = x THEN y ELSE f[z]]
Without(f, S) == [z \in DOMAIN f \ S |-> f[z]]

(* A command: the process, the instance, the ticks elapsed since the       *)
(* request, the strategy to choose the instance, and alone when the        *)
(* process is started out of its application, without waiting for its exit.*)
Command(p, i, strategy, alone) ==
  [p |-> p, i |-> i, age |-> 0, strategy |-> strategy, alone |-> alone]

(* chosen is the list of instances selected for an application that is not *)
(* distributed, and stop the request to stop it when its jobs are done.    *)
Job(kind, a, groups, strategy) ==
  [kind |-> kind, app |-> a, groups |-> groups, current |-> <<>>, strategy |-> strategy,
   chosen |-> <<>>, stop |-> FALSE]

InProgress(job) == DOMAIN job.groups # {} \/ job.current # <<>>
Busy(w, kind) == DOMAIN w.planned[kind] \cup DOMAIN w.current[kind]
Rank(kind, a) == IF kind = "start" THEN AppRules[a].start ELSE AppRules[a].stop
\* (mutant) The Stopper follows the order of the Starter.
PickFirst(kind, numbers) == Min(numbers)
Pick(kind, numbers) == IF kind = "start" THEN Min(numbers) ELSE Max(numbers)

NewReference(w) == CHOOSE r \in 1..(Cardinality(DOMAIN w.jobs) + 1) : r \notin DOMAIN w.jobs
Plan(w, job) ==
  LET r == NewReference(w)
  IN  [w EXCEPT !.jobs = Set(@, r, job), !.planned[job.kind] = Set(@, job.app, r)]

(* The values of a dictionary of applications when it is copied.           *)
References(d) == LET held == SelectSeq(AppOrder, LAMBDA a : a \in DOMAIN d)
                 IN  [k \in 1..Len(held) |-> d[held[k]]]

PlannedCommands(job) ==
  LET numbers == SetToSortSeq(DOMAIN job.groups, <)
  IN  FlattenSeq([k \in 1..Len(numbers) |-> job.groups[numbers[k]]])
SameCommand(c, d) == c.p = d.p /\ c.i = d.i
Forget(job, c) == [job EXCEPT !.current = RemoveFirstMatch(@, LAMBDA d : SameCommand(c, d))]

-----------------------------------------------------------------------------
(* The result of a command, from the state of the process on the instance. *)

WaitsExit(c) == Rules[c.p].waits /\ ~c.alone

StartResult(w, c) ==
  LET info == w.procs[c.p].info[c.i]
  IN  CASE info.state \in {"STARTING", "BACKOFF"} -> "IN_PROGRESS"
        [] info.state = "RUNNING" -> IF WaitsExit(c) THEN "IN_PROGRESS" ELSE "SUCCESS"
        [] info.state = "EXITED" ->
             IF Rules[c.p].waits /\ info.expected THEN "SUCCESS" ELSE "FAILED"
        [] OTHER -> "FAILED"

StopResult(w, c) ==
  IF w.procs[c.p].info[c.i].state \in StoppedStates THEN "SUCCESS" ELSE "IN_PROGRESS"

Result(w, kind, c) == IF kind = "start" THEN StartResult(w, c) ELSE StopResult(w, c)

(* The same, when the ticks elapsed are checked. A process that is running *)
(* and expected to exit is waited for without limit.                       *)
StartTimedOut(w, c) ==
  LET state == w.procs[c.p].info[c.i].state
      late == c.age > (IF state \in {"STARTING", "BACKOFF"}
                       THEN Rules[c.p].startticks + MinimumTicks ELSE MinimumTicks)
  IN  CASE state = "RUNNING" -> IF WaitsExit(c) THEN "IN_PROGRESS" ELSE "SUCCESS"
        [] state # "RUNNING" -> IF late THEN "TIMED_OUT" ELSE "IN_PROGRESS"

\* (mutant) A process that is stopping is waited for without limit.
StopEndless(w, c) ==
  LET state == w.procs[c.p].info[c.i].state
  IN  CASE state \in StoppedStates -> "SUCCESS"
        [] state \notin StoppedStates ->
             IF state # "STOPPING" /\ c.age > MinimumTicks THEN "TIMED_OUT" ELSE "IN_PROGRESS"

StopTimedOut(w, c) ==
  LET state == w.procs[c.p].info[c.i].state
      late == c.age > (IF state = "STOPPING"
                       THEN Rules[c.p].stopticks + MinimumTicks ELSE MinimumTicks)
  IN  CASE state \in StoppedStates -> "SUCCESS"
        [] state \notin StoppedStates -> IF late THEN "TIMED_OUT" ELSE "IN_PROGRESS"

TimedOut(w, kind, c) == IF kind = "start" THEN StartTimedOut(w, c) ELSE StopTimedOut(w, c)

(* The load of the processes commanded to start and still stopped, for the  *)
(* applications that have begun.                                           *)
StillStopped(w, job) ==
  SelectSeq(PlannedCommands(job) \o job.current, LAMBDA c : Stopped(w.procs[c.p]))
LoadRequests(w) ==
  LET jobs == References(w.current["start"])
      asked == FlattenSeq([k \in 1..Len(jobs) |-> StillStopped(w, w.jobs[jobs[k]])])
  IN  [i \in Supervisors |->
         FoldLeft(LAMBDA sum, c : IF c.i = i THEN sum + Rules[c.p].load ELSE sum, 0, asked)]

Choose(w, strategy, allowed, load) ==
  GetInstance(w.procs, w.alive, strategy, allowed, load, LoadRequests(w))

(* The number of ticks to wait is read in what the instance has declared:  *)
(* it is an error if the process is unknown there.                         *)
Targets(w, c, i) == Knows(w.procs[c.p], i)

Send(w, kind, c) == [w EXCEPT !.sent[c.i] = Append(@, [kind |-> kind, p |-> c.p])]

-----------------------------------------------------------------------------
(* A required process that could not be started: what remains of the       *)
(* sequence is dropped, unless the strategy is to continue. The stop of    *)
(* the application is deferred.                                            *)
ProcessFailure(w, r, p) ==
  LET gives_up == /\ w.jobs[r].kind = "start" /\ Rules[p].required /\ ~w.raised
                  /\ Rules[p].starting # "CONTINUE"
  IN  IF ~gives_up THEN w
      ELSE [w EXCEPT !.jobs[r].groups = Empty,
                     !.jobs[r].stop = @ \/ Rules[p].starting = "STOP"]

(* Before the first group of an application that is not distributed, an    *)
(* instance is assigned to all its commands.                               *)
AssignAll(w, r, chosen, assign(_)) ==
  LET commands == PlannedCommands(w.jobs[r])
      assigned(c) == [c EXCEPT !.i = assign(c)]
      known == \A c \in ToSet(commands) : Targets(w, c, assign(c))
  IN  IF chosen = <<>> THEN w
      ELSE IF ~known THEN [w EXCEPT !.jobs[r].chosen = chosen, !.raised = TRUE]
      ELSE [w EXCEPT !.jobs[r].chosen = chosen,
                     !.jobs[r].groups = [n \in DOMAIN @ |->
                        [k \in 1..Len(@[n]) |-> assigned(@[n][k])]]]

Before(w, r) ==
  LET job == w.jobs[r]
      load == StartLoad(job.app)
      at(i) == AssignAll(w, r, IF i = NoInstance THEN <<>> ELSE <<i>>, LAMBDA c : i)
      on(instances) == AssignAll(w, r, instances,
                         LAMBDA c : Choose(w, job.strategy, instances, Rules[c.p].load))
  IN  CASE w.raised \/ job.kind = "stop" -> w
        [] AppRules[job.app].distribution = "SINGLE_INSTANCE" ->
             at(Choose(w, job.strategy, PossibleInstances(w.procs, job.app), load))
        [] AppRules[job.app].distribution = "SINGLE_NODE" ->
             on(InstancesOfNode(w.procs, w.alive, job.strategy,
                  PossibleNodeInstances(w.procs, job.app), load, LoadRequests(w)))
        [] OTHER -> w

(* Commands are added to the jobs of an application, except those already  *)
(* there. A command to start has no instance yet: any command on the       *)
(* process is the same.                                                    *)
Add(w, r, number, c) ==
  LET groups == w.jobs[r].groups
      group == IF number \in DOMAIN groups THEN groups[number] ELSE <<>>
  IN  [w EXCEPT !.jobs[r].groups = Set(groups, number, Append(group, c)),
                !.raised = c.i # NoInstance /\ ~Targets(w, c, c.i)]
AddCommand(w, r, number, c) ==
  LET job == w.jobs[r]
      same(d) == d.p = c.p /\ (c.i = NoInstance \/ d.i = c.i)
      there == \E d \in ToSet(PlannedCommands(job) \o job.current) : same(d)
      grouped == job.kind = "start" /\ AppRules[job.app].distribution # "ALL_INSTANCES"
  IN  IF w.raised \/ there THEN w
      ELSE Add(w, r, number,
             IF grouped THEN [c EXCEPT !.i = Choose(w, job.strategy, job.chosen, Rules[c.p].load)]
             ELSE c)

-----------------------------------------------------------------------------
(* The plans, that trigger nothing by themselves.                          *)

PlanStart(w, a, strategy) ==
  LET sequence == StartSequence(a)
      groups == [n \in DOMAIN sequence |-> [k \in 1..Len(sequence[n]) |->
                   Command(sequence[n][k], NoInstance, strategy, FALSE)]]
  IN  IF groups = Empty THEN w
      ELSE [Plan(w, Job("start", a, groups, strategy))
              EXCEPT !.ids = ResolveRules(@, a, Supervisors)]

PlanStartIfStopped(w, a, strategy) ==
  IF AppState(w.procs, a) = "STOPPED" THEN PlanStart(w, a, strategy) ELSE w

(* The jobs of the application, in progress or planned, if any.            *)
ApplicationJob(w, kind, a) ==
  IF a \in DOMAIN w.current[kind] THEN {w.current[kind][a]}
  ELSE {w.planned[kind][b] : b \in DOMAIN w.planned[kind] \cap {a}}

PlanStartProcess(w, p, strategy) ==
  LET a == Rules[p].app
      c == Command(p, NoInstance, strategy, TRUE)
      held == ApplicationJob(w, "start", a)
  IN  CASE ~Stopped(w.procs[p]) -> w
        [] held # {} -> AddCommand(w, CHOOSE r \in held : TRUE, Rules[p].start, c)
        [] OTHER -> Plan(w, Job("start", a, Set(Empty, Rules[p].start, <<c>>), strategy))

StopCommands(w, p, on) ==
  LET where == SelectSeq(SetToSeq(w.procs[p].running), LAMBDA i : i \in on)
  IN  [k \in 1..Len(where) |-> Command(p, where[k], "CONFIG", FALSE)]

(* The groups of a stop sequence, without the empty ones.                  *)
StopGroup(w, ps) ==
  FlattenSeq([k \in 1..Len(ps) |-> StopCommands(w, ps[k], Supervisors)])
NonEmpty(groups) == Without(groups, {n \in DOMAIN groups : groups[n] = <<>>})
StopGroups(w, sequence) == NonEmpty([n \in DOMAIN sequence |-> StopGroup(w, sequence[n])])
PlanGroups(w, a, groups) ==
  IF DOMAIN groups = {} THEN w ELSE Plan(w, Job("stop", a, groups, "CONFIG"))
PlanStop(w, a) == PlanGroups(w, a, StopGroups(w, StopSequence(a)))

PlanStopProcess(w, p, on) ==
  LET a == Rules[p].app
      commands == StopCommands(w, p, on)
      held == ApplicationJob(w, "stop", a)
  IN  CASE commands = <<>> -> w
        [] commands # <<>> /\ held # {} ->
             FoldLeft(LAMBDA v, c : AddCommand(v, CHOOSE r \in held : TRUE, Rules[p].stop, c),
                      w, commands)
        [] OTHER -> Plan(w, Job("stop", a, Set(Empty, Rules[p].stop, commands), "CONFIG"))

\* (mutant) The start is deferred although nothing is to be stopped.
PlanRestartLater(w, a, strategy) ==
  PlanStop([w EXCEPT !.restarts = Set(@, a, strategy)], a)

(* A restart is a stop, and a request to start kept until the Stopper is   *)
(* done with the application. What does not run is started directly.       *)
PlanRestart(w, a, strategy) ==
  IF HasRunning(w.procs, a)
  THEN PlanStop([w EXCEPT !.restarts = Set(@, a, strategy)], a)
  ELSE PlanStartIfStopped(w, a, strategy)

PlanRestartProcess(w, p, strategy) ==
  LET a == Rules[p].app
      kept == IF a \in DOMAIN w.starts THEN w.starts[a] ELSE <<>>
  IN  IF IsRunning(w.procs[p])
      THEN PlanStopProcess([w EXCEPT !.starts =
             Set(@, a, Append(kept, [p |-> p, strategy |-> strategy]))], p, Supervisors)
      ELSE PlanStartProcess(w, p, strategy)

DefaultStrategy(a) == AppRules[a].strategy

(* The jobs of the failure handler, except on the applications in progress.*)
PlanFailureJobs(w) ==
  LET busy == Busy(w, "start") \cup Busy(w, "stop")
      h == w.handler
      apps(S) == SelectSeq(AppOrder, LAMBDA a : a \in S \ busy)
      left == [w EXCEPT !.handler = Handler!Deferred(@, busy)]
      stopped == FoldLeft(PlanStop, left, apps(h.stop))
      restarted == FoldLeft(LAMBDA v, a : PlanRestart(v, a, DefaultStrategy(a)),
                            stopped, apps(h.restart))
  IN  FoldLeft(LAMBDA v, p : PlanRestartProcess(v, p, DefaultStrategy(Rules[p].app)), restarted,
               SelectSeq(Order, LAMBDA p : p \in h.again /\ Rules[p].app \notin busy))

AddFailure(w, p) ==
  [w EXCEPT !.handler =
     Handler!AddDefaultJob(@, Rules[p].running, p, AppState(w.procs, Rules[p].app) = "STOPPED")]
-----------------------------------------------------------------------------
(* The life cycle. The methods call each other until nothing more can be   *)
(* done without an event.                                                  *)

RECURSIVE CommanderNext(_, _), JobsNext(_, _), OnProcessEvent(_, _, _)

StopApplication(w, a) ==
  IF HasRunning(w.procs, a) THEN CommanderNext(PlanStop(w, a), "stop") ELSE w
StartApplication(w, a, strategy) ==
  IF AppState(w.procs, a) = "STOPPED" THEN CommanderNext(PlanStart(w, a, strategy), "start") ELSE w
StartProcess(w, p, strategy) ==
  IF Stopped(w.procs[p]) /\ ~w.raised
  THEN CommanderNext(PlanStartProcess(w, p, strategy), "start") ELSE w

(* A state is forced as an event of the local instance. Its date is the    *)
(* one of the last event received: it is not dismissed locally.            *)
ForceProcessState(w, p, i, state) ==
  OnProcessEvent([w EXCEPT !.procs[p] = ForceState(@, i, 0, state)], p, Local)

\* (mutant) The command is not kept.
SentAlone(w, r, c) == Send(w, w.jobs[r].kind, c)

(* A process is started if it is stopped, on the instance chosen now for a *)
(* distributed application, and stopped if it runs where it should.        *)
Sent(w, r, c) == Send([w EXCEPT !.jobs[r].current = Append(@, c)], w.jobs[r].kind, c)
StartOn(w, r, c) ==
  IF c.i # NoInstance THEN Sent(w, r, c)
  ELSE ProcessFailure(ForceProcessState(w, c.p, NoInstance, "FATAL"), r, c.p)
\* (mutant) A process is started whatever its state.
ProcessJobAnyway(w, r, c) ==
  CASE w.raised -> w
    [] ~w.raised /\ w.jobs[r].kind = "stop" ->
         IF RunningOn(w.procs[c.p], c.i) THEN Sent(w, r, c) ELSE w
    [] OTHER -> StartOn(w, r, [c EXCEPT !.i = Choose(w, c.strategy,
                  PossibleFor(w.procs, w.ids, c.p), Rules[c.p].load)])

ProcessJob(w, r, c) ==
  LET job == w.jobs[r]
      distributed == AppRules[job.app].distribution = "ALL_INSTANCES"
  IN  CASE w.raised -> w
        [] ~w.raised /\ job.kind = "stop" ->
             IF RunningOn(w.procs[c.p], c.i) THEN Sent(w, r, c) ELSE w
        [] ~w.raised /\ job.kind = "start" /\ ~Stopped(w.procs[c.p]) -> w
        [] OTHER ->
             StartOn(w, r, IF ~distributed THEN c ELSE
               [c EXCEPT !.i = Choose(w, c.strategy, PossibleFor(w.procs, w.ids, c.p),
                                      Rules[c.p].load)])

(* The next group of an application, when the current one is complete.     *)
JobsNext(w, r) ==
  LET job == w.jobs[r]
      n == Pick(job.kind, DOMAIN job.groups)
      popped == [w EXCEPT !.jobs[r].groups = Without(@, {n})]
  IN  IF w.raised \/ job.current # <<>> \/ DOMAIN job.groups = {} THEN w
      ELSE JobsNext(FoldLeft(LAMBDA v, c : ProcessJob(v, r, c), popped, job.groups[n]), r)

(* The end of the jobs of an application: the stop that has been deferred  *)
(* by the Starter, the starts that have been deferred by the Stopper.      *)
RestartApplication(w, a) ==
  IF a \notin DOMAIN w.restarts THEN w
  ELSE StartApplication([w EXCEPT !.restarts = Without(@, {a})], a, w.restarts[a])
StartDeferred(w, a) ==
  LET deferred == IF a \in DOMAIN w.starts THEN w.starts[a] ELSE <<>>
  IN  IF w.raised THEN w
      ELSE FoldLeft(LAMBDA v, s : StartProcess(v, s.p, s.strategy),
                    [w EXCEPT !.starts = Without(@, {a})], deferred)
After(w, r) ==
  LET job == w.jobs[r]
  IN  CASE job.kind = "stop" -> StartDeferred(RestartApplication(w, job.app), job.app)
        [] job.kind = "start" /\ job.stop ->
             StopApplication([w EXCEPT !.jobs[r].stop = FALSE], job.app)
        [] OTHER -> w

(* The application is removed after these calls, that may have removed it  *)
(* already: this is an exception.                                          *)
Leave(w, kind, a) ==
  IF w.raised THEN w
  ELSE [w EXCEPT !.current[kind] = Without(@, {a}), !.raised = a \notin DOMAIN w.current[kind]]
Complete(w, r) ==
  IF w.raised \/ InProgress(w.jobs[r]) THEN w
  ELSE Leave(After(w, r), w.jobs[r].kind, w.jobs[r].app)

\* (mutant) The applications of all the ranks begin together.
AllRanks(w, kind) == w.planned[kind]

(* The applications of the next rank, when those of the current one are    *)
(* complete.                                                               *)
FirstRank(w, kind) ==
  LET rank == Pick(kind, {Rank(kind, a) : a \in DOMAIN w.planned[kind]})
  IN  Without(w.planned[kind], {a \in DOMAIN w.planned[kind] : Rank(kind, a) # rank})
Begin(w, kind, round) ==
  FoldLeft(LAMBDA v, r : JobsNext(Before(v, r), r),
           [w EXCEPT !.current[kind] = round, !.planned[kind] = Without(@, DOMAIN round)],
           References(round))
Proceed(w, kind) ==
  IF w.raised \/ DOMAIN w.planned[kind] = {} \/ DOMAIN w.current[kind] # {} THEN w
  ELSE CommanderNext(Begin(w, kind, FirstRank(w, kind)), kind)
CommanderNext(w, kind) ==
  IF w.raised THEN w ELSE Proceed(FoldLeft(Complete, w, References(w.current[kind])), kind)

(* An event completes a command, which may complete its group, and so on.  *)
CommandEvent(w, r, p, i) ==
  LET job == w.jobs[r]
      n == SelectInSeq(job.current, LAMBDA c : c.p = p /\ c.i = i)
      result == Result(w, job.kind, job.current[n])
      forgotten == [w EXCEPT !.jobs[r] = Forget(job, job.current[n])]
  IN  CASE n = 0 -> w
        [] n # 0 /\ result # "IN_PROGRESS" ->
             JobsNext(IF result = "SUCCESS" THEN forgotten ELSE ProcessFailure(forgotten, r, p), r)
        [] n # 0 /\ result = "IN_PROGRESS" ->
             IF job.kind = "start" /\ w.procs[p].info[i].state = "BACKOFF"
             THEN [w EXCEPT !.jobs[r].current[n].age = 0] ELSE w

OnEvent(w, kind, p, i) ==
  IF w.raised \/ Rules[p].app \notin DOMAIN w.current[kind] THEN w
  ELSE CommanderNext(CommandEvent(w, w.current[kind][Rules[p].app], p, i), kind)

TriggerJobs(w) ==
  IF w.raised THEN w ELSE FoldLeft(CommanderNext, PlanFailureJobs(w), StopperFirst)

(* An event feeds the Starter, the Stopper, then the failure handler if    *)
(* the process has crashed. A forced state is not a crash.                 *)
HandleCrash(w, p) ==
  LET crashed == /\ Crashed(w.procs[p]) /\ w.procs[p].forced = NoState
                 /\ Rules[p].running \in {"STOP_APPLICATION", "RESTART_APPLICATION"}
  IN  IF w.raised \/ ~crashed THEN w ELSE TriggerJobs(AddFailure(w, p))
OnProcessEvent(w, p, i) ==
  HandleCrash(FoldLeft(LAMBDA v, kind : OnEvent(v, kind, p, i), w, StarterFirst), p)

-----------------------------------------------------------------------------
(* The periodic check. A command that has timed out is removed before its  *)
(* process is forced.                                                      *)

CheckCommand(w, r, c) ==
  LET job == w.jobs[r]
      result == TimedOut(w, job.kind, c)
      there == \E d \in ToSet(job.current) : SameCommand(c, d)
      removed == [w EXCEPT !.jobs[r] = Forget(job, c)]
      state == IF job.kind = "start" THEN "FATAL" ELSE "STOPPED"
  IN  CASE w.raised \/ result = "IN_PROGRESS" -> w
        [] ~w.raised /\ result # "IN_PROGRESS" /\ ~there -> [w EXCEPT !.raised = TRUE]
        [] ~w.raised /\ result = "SUCCESS" /\ there -> removed
        [] ~w.raised /\ result = "TIMED_OUT" /\ there -> ForceProcessState(removed, c.p, c.i, state)

CheckJobs(w, r) ==
  LET checked == FoldLeft(LAMBDA v, c : CheckCommand(v, r, c), w, w.jobs[r].current)
  IN  IF w.raised THEN w ELSE JobsNext(checked, r)

CheckCommander(w, kind) ==
  CommanderNext(FoldLeft(CheckJobs, w, References(w.current[kind])), kind)
Check(w) == FoldLeft(CheckCommander, w, StarterFirst)

(* The loss of instances fails the commands sent to them, and removes from *)
(* the failures the processes that are commanded.                          *)
Excuse(w, r) ==
  [w EXCEPT !.failed = @ \ {c.p : c \in ToSet(PlannedCommands(w.jobs[r]))}]
InvalidateJobs(w, r, lost) ==
  LET hit == SelectSeq(w.jobs[r].current, LAMBDA c : c.i \in lost)
      fail(v, c) == ProcessFailure([v EXCEPT !.jobs[r] = Forget(@, c), !.failed = @ \ {c.p}], r, c.p)
  IN  Excuse(FoldLeft(fail, w, hit), r)

InvalidateCommander(w, kind, lost) ==
  CommanderNext(FoldLeft(LAMBDA v, r : InvalidateJobs(v, r, lost), w,
                         References(w.current[kind]) \o References(w.planned[kind])), kind)
OnInvalidation(w, lost) ==
  FoldLeft(LAMBDA v, kind : InvalidateCommander(v, kind, lost), w, StarterFirst)

(* The automatic start of the applications, by rank. An application that   *)
(* has been stopped on purpose is not started again.                       *)
StartApplications(w) ==
  LET wanted == SelectSeq(AppOrder, LAMBDA a :
                  AppRules[a].start > 0 /\ (\/ NeverStarted(w.procs, w.touched, a)
                                            \/ MajorFailure(w.procs, a)
                                            \/ MinorFailure(w.procs, a)))
  IN  CommanderNext(FoldLeft(LAMBDA v, a : PlanStart(v, a, DefaultStrategy(a)), w, wanted), "start")

(* The end of Supvisors: the applications are stopped, by rank.            *)
StopApplications(w) ==
  CommanderNext(FoldLeft(PlanStop, w, SelectSeq(AppOrder, LAMBDA a : HasRunning(w.procs, a))), "stop")

(* The conciliation of the conflicts: the copies that are not kept, or all *)
(* of them, are stopped, then what the strategy adds.                      *)
ConciliateProcess(w, strategy, kept, p) ==
  CASE strategy \in {"SENICIDE", "INFANTICIDE"} ->
         PlanStopProcess(w, p, w.procs[p].running \ {kept[p]})
    [] strategy = "STOP" -> PlanStopProcess(w, p, Supervisors)
    [] strategy = "RESTART" -> PlanRestartProcess(w, p, DefaultStrategy(Rules[p].app))
    [] strategy = "RUNNING_FAILURE" -> AddFailure(PlanStopProcess(w, p, Supervisors), p)
Resolved(w, strategy) == IF strategy = "RUNNING_FAILURE" THEN TriggerJobs(w) ELSE w
Conciliate(w, strategy, kept) ==
  IF strategy = "USER" THEN w
  ELSE Resolved(CommanderNext(FoldLeft(LAMBDA v, p : ConciliateProcess(v, strategy, kept, p), w,
                  SelectSeq(Order, LAMBDA p : p \in Conflicts(w.procs))), "stop"), strategy)

(* What is no longer referenced when the calls have returned is forgotten. *)
Referenced(w) == UNION {{w.planned[k][a] : a \in DOMAIN w.planned[k]}
                          \cup {w.current[k][a] : a \in DOMAIN w.current[k]} : k \in Kinds}
Returned(w) ==
  LET keep == SetToSortSeq(Referenced(w), <)
      renamed(r) == CHOOSE n \in 1..Len(keep) : keep[n] = r
      moved(d) == [k \in Kinds |-> [a \in DOMAIN d[k] |-> renamed(d[k][a])]]
  IN  [w EXCEPT !.jobs = [n \in 1..Len(keep) |-> w.jobs[keep[n]]],
                !.planned = moved(@), !.current = moved(@), !.failed = {}, !.raised = FALSE]
=============================================================================
