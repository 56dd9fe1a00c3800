# Formal model of Supvisors

Supvisors runs as a plugin in every `supervisord` of a cluster.  The plugins find each other, agree on a
Master, and the Master starts the applications in order, repairs what is lost and conciliates what runs twice.
No lock, no log and no quorum supports the agreement: it rests on what the instances publish to each other.
This directory models Supvisors in TLA+: the agreement, the view that each instance has of the processes, the
Starter, the Stopper and the repairs of the Master, and the programs that users resize and disable at run time.  It
checks the models with TLC on small clusters, and proves part of them with TLAPS for all clusters.

Line numbers refer to `src/supvisors/`.

## 1. Inventory of the system

| Component | State it keeps | Operations | What makes it hard, and correct |
|---|---|---|---|
| State and modes (`statemodes.py`) | one `StateModes` per instance: FSM state, Master, modes, state of every instance | setters that publish, `update_instance_state`, stability, `check_master`, `select_master`, `accept_master` | every decision is local, from copies that may be late: one Master, seen RUNNING, by all |
| Finite state machine (`statemachine.py`) | the current state | `next`, `set_state`, `on_*` events | Master and slaves take different branches; transitions chain in a single call; no state may be a dead end |
| Context and instances (`context.py`, `instancestatus.py`) | state, date of CHECKING and TICK counters of every instance; applications and processes | `on_tick_event`, `on_timer_event`, `on_authorization`, `load_processes`, `on_process_*_event`, `invalidate`, `activate_checked`, `on_instance_failure` | a failure, an answer and a TICK of the same instance race; isolation is for good; the events of a process race with the handshake |
| Internal communication (`internal_com/supervisorproxy.py`, `rpchandler.py`) | a queue and a thread for each remote instance | `push_publication`, `push_request`, `check_instance`, `handle_exception`, `stop` | delays differ between peers; what fails is lost; what the thread reads is handled later by the main thread |
| Listener (`listener.py`) | none of its own | Supervisor events and remote events, in the main thread | order of the calls within an event |
| RPC interface (`rpcinterface.py`) | the deferred requests | `restart`, `shutdown`, `end_sync`; start, stop and restart of applications and processes; `update_numprocs`, `enable`, `disable`; `conciliate` | requests are checked against the state, executed elsewhere and polled for their answer, while others change the same things |
| Process status (`process.py`) | information of one process on every instance, running instances, forced state | `add_info`, `update_info`, `force_state`, `invalidate_identifier`, `remove_identifier` | synthesis of one state from events in any order |
| Application status (`application.py`) | state, failures, sequences of an application | `update_state`, `update_status`, `update_sequences`, `possible_identifiers`, `resolve_rules` | follows from its processes |
| Commander (`commander.py`) | jobs planned and in progress of the Starter and the Stopper | `start_*`, `stop_*`, `restart_*`, `next`, `on_event`, `check`, `on_instances_invalidation` | re-entrant calls; time-outs race with events; a sequence must never wait for ever |
| Strategies (`strategy.py`) | jobs of the `RunningFailureHandler` | choice of an instance, conciliation, failure jobs | loads requested and not effective yet; precedence of the jobs |
| Supervisor bindings (`supervisordata.py`, `supervisorupdater.py`, `plugin.py`, `initializer.py`) | processes of Supervisor, marked obsolete or disabled | `update_numprocs`, `obsolete_processes`, `update_stop`, `spawn`, `enable_program`, `disable_program` | a process in excess leaves later than the request |
| Options and rules (`options.py`, `sparser.py`) | configuration, disabilities file | parsing, `update_numprocs`, `read_disabilities`, `write_disabilities` | a crash while the file is written |
| Mapper, discovery (`internal_com/mapper.py`, `multicast.py`) | identifiers and addresses | resolution | I/O |
| Statistics, external publication, clients, Web UI, `supvisorsctl`, tools | their own | display and publication | no decision depends on them |

How the components interact.  The listener gets every event of an instance in the main thread of its
`supervisord`: local TICKs and process events, and the messages that the proxy threads of the other instances have
sent.  It calls the FSM, which calls the context, which changes the states of instances and processes; every change of
an instance state goes to the state and modes, whose setters push a publication in the queue of each proxy.  The proxy
threads send the publications and the requests to start and stop, run the handshakes and post their results and
failures back to the main thread.  A process event also feeds the Starter, the Stopper and, on the Master, the failure
handler.  These force process states, which are events again.  The FSM of the Master drives them at each local TICK.

The hazards of this code, with the line where each one bites, are listed in `PROJECT.json`, section "hazards".

## 2. Modules

| Module | Lines it stands for | Contents |
|---|---|---|
| `StateModes` | `statemodes.py` | the view one instance has of the cluster, as a record, and the functions that update it.  No variable |
| `StateMachine` | `statemachine.py`, `context.py`, `instancestatus.py`, `supervisorproxy.py`, `listener.py` | the cluster: one action per event of a main thread, per message of a proxy thread and per fault |
| `InstanceLife` | (the transitions of `instancestatus.py`) | the abstract specification of the life of an instance, as another one sees it |
| `Process` | `process.py` | the status of one process, as a record, and the methods of `ProcessStatus` |
| `ProcessView` | `context.py`, `listener.py`, `supervisorproxy.py`, `rpchandler.py` | the views that several instances have of one process, and the Supervisors where it lives |
| `Application` | `application.py`, rules of `process.py` | state, failures, sequences, possible instances of an application, homogeneous groups, corrected rules |
| `Strategy` | `strategy.py`, lines 1-455 | starting and conciliation strategies |
| `FailureHandler` | `strategy.py`, lines 458-683 | the jobs of the running failure handler |
| `Commander` | `commander.py` | the Starter and the Stopper: every method as a function from world to world |
| `Sequencing` | | the abstract specification of what a Starter or a Stopper promises |
| `Sequencer` | `statemachine.py`, `rpcinterface.py`, `supervisorproxy.py` | the composition: the Master, its commanders and failure handler, the Supervisors, the users |
| `Programs` | `supervisordata.py`, `supervisorupdater.py`, `options.py`, `rpcinterface.py` | one program in the local Supervisor: numprocs and disability |
| `StateMachineProofs`, `MasterProofs`, `LeaderProofs`, `InstanceLifeProofs`, `ProcessProofs`, `ProcessViewProofs`, `FailureHandlerProofs`, `ProgramsProofs` | | theorems and their lemmas |
| `MCStateMachine`, `MCProcessView`, `MCSequencer` | | the values of the constants for TLC |

`Application` extends `Process`, `Strategy` extends `Application`, `Commander` extends `Strategy` and instantiates
`FailureHandler`, `Sequencer` extends `Commander` and instantiates `Sequencing` twice, `StateMachine` instantiates
`InstanceLife`.  `MasterProofs` and `InstanceLifeProofs` extend `StateMachineProofs`,
`LeaderProofs` extends `MasterProofs`.  `Application` and `Commander`
hold recursive operators; the modules that are proved about use none.

### StateMachine

`modes[i][j]` is the `StateModes` of `j` that `i` holds; `modes[i][i]` is what `i` declares, with its FSM state, its
Master, and `modes[i][i].states`, the states of all instances as seen by `i`.  The context keeps these states too,
and assigns both together (`instancestatus.py:200`), so one variable stands for both.  `mark`, `late`, `degraded` and
`jobs` are the publication that is due, the time-out of the synchronization, the degraded mode and the jobs in
progress.  `answer[i][j]` is what the proxy has posted from a handshake, `outbox[i][j]` the queue of publications,
`failing[i]` the failures posted.  `up`, `cut`, `heard`, `conflicts`, `crashes` and `cuts` belong to the environment.

A handler is a function from the view of the instance to a new view, whose component `out` collects the publications
in the order of the code; `Commit` writes the view back and pushes the publications in the queues.  This keeps the
whole handler in one action: `OnTick` for instance is the TICK of the local instance, the periodical check, the
deferred publication and the evaluation of the FSM with all the transitions that it chains.

| Action | Code |
|---|---|
| `OnTick` | `SupervisorListener.on_tick`: local handshake, `on_timer_event`, `deferred_publish_status`, `next` |
| `OnRemoteTick` | `FSM.on_tick_event`, `SupvisorsInstanceStatus.update_tick` |
| `CheckInstance` | `SupervisorProxy.check_instance`, in the proxy thread |
| `OnHandshakeState`, `OnAuthorization` | `FSM.on_state_event`, `FSM.on_authorization`, on what the handshake has posted |
| `Publish` | `SupervisorProxy.publish`, then `FSM.on_state_event` in the remote instance |
| `SendFailure`, `OnInstanceFailure` | `handle_exception` in the proxy thread, `on_instance_failure` in the main thread |
| `EndSync`, `OnEndRequest` | `end_sync` and `on_end_sync`, `on_restart`, `on_shutdown` |
| `JobsDone` | `publish_state_modes` of the Starter and the Stopper |
| `Elapse` | `synchro_timeout` |
| `Start`, `Crash`, `End`, `Cut`, `Heal`, `ConflictAppears`, `ConflictEnds` | start of a `supervisord`, abrupt stop, normal end, network, duplicated processes |

Abstractions:

* Instances have the same configuration: the answer `INCONSISTENT` of a handshake is not modelled.  `UNKNOWN` also
  stands for process information that comes too late to be accepted.
* A publication to an instance that is not active is dropped when it is pushed, not when it is sent.  The state and
  modes read by a handshake are those of the moment the authorization is given.
* What one proxy posts is taken in order: a failure that waits holds back the next handshake with that instance.  What
  proxies of different instances post is taken in any order, which is more than their common queue allows.
* At most one failure of an instance is pending: a second one would find it FAILED.
* `InvalidateFailed` treats all FAILED instances at once, in one order only; see its comment.
* The counters of TICKs are abstracted into `heard`, which says whether the counter of the remote instance has gone
  down, and whether a later TICK has hidden it.  Inactivity is a choice, for as long as TICKs do not come: the
  periodical check may find any subset of the instances that may have been silent for long enough.
* The requests to Starter, Stopper and failure handler are abstracted into the jobs that they leave in progress
  (`Works`), which end on their own.  What these jobs really do is the subject of `Sequencer`.
* A conflict is seen by all instances at once and ends by decision of the environment.
* Sets are read in the order of their hash by `accept_master`: the parameter `Preferred` is the choice.

`InstanceLife` is the abstract specification of what `i` does of the state of `j`: each transition has one cause, as an
answer that is still awaited, a failure that was reported or TICKs that do not come.  `LifeCycle` says that
`StateMachine` implements it: `status[i][j]` is the state of `j` in `modes[i][i]`, and the causes are read in `answer`,
`failing`, `heard` and `Ticks`.  A handler may take an instance through several states (`OnTick` finds it inactive, then
invalidates it), so a step is what is left of them at the end of the handler.  The initial states are those where the
instances that do not run know nothing, so that `Spec` implements it from `SettledInit` as well.

### Process and ProcessView

A status has `info`, what each instance has declared (state, whether an exit is expected, disability, date), `running`,
the instances held as running, `state` and `forced`.  `UpdateStatus` is the synthesis, with `RunningState` for the
conflicts.  In `ProcessView`, `real` is what each Supervisor knows, `view[o]` the status held by observer `o`.  The
handshake is split where the code is: `Check` (the TICK that starts it), `Answer` (the remote instance answers the
proxy thread), `TransferProcessInfo` (the thread has the answer and its date), `LoadProcesses` and `OnAuthorization`
(the main thread), while events go through `channel` and are ignored or applied (`OnProcessEvent`).  A date is a step
of the clock of the Supervisor.  `Lose` and `InvalidateFailed` are the loss of an instance, `ForceProcessState` and
`OnForcedEvent` a request given up by the Master and what the others are told of it.  `See` is the remote instance that
begins or ends to hold the observer as active: events are not published to those that are not.

### Application, Strategy, FailureHandler, Commander, Sequencer

Names and patterns are abstracted into the sets that they select: a rule is a record (`Rules`, `AppRules`), a status
formula a tree whose leaves are sets of processes.  The rules are taken as corrected after they have been read:
`CheckDependencies` and `CheckApplication` are these corrections, `RulesAssumption` says that they change nothing more,
and `CorrectionAssumption` in `MCSequencer` evaluates them on all small rules.

The methods of the commanders are synchronous and call each other: `next` forces a state, which is an event, which
calls `next`.  So `Commander` writes each method as a function from a *world* (record of what the methods read and
write) to a world.  The jobs are kept by reference, since a method holds an object that another may remove; `raised`
is an exception that unwinds the callers, whose effects so far remain.  `Sequencer` turns these functions into actions:

| Action | Code |
|---|---|
| `Serve`, `Drop` | a request sent by a proxy thread is handled by the remote Supervisor, or lost |
| `Progress`, `Fail`, `StartDirectly` | the process goes on, fails or is started without Supvisors: the event goes through `FSM.on_process_state_event` |
| `Lose` | an instance is lost: the Master finds it at its next periodical check |
| `Return`, `Adopt` | the handshake of an instance that comes back ends (`on_authorization`), and later it declares the Master |
| `Timer` | the periodical check: ticks and time-outs of the commands, jobs deferred by the failure handler, losses, then the state machine |
| `User...`, `Disable`, `Enable` | the requests of the RPC interface, with the checks on the FSM state |
| `UserShutdown` | SHUTTING_DOWN: everything is aborted, `stop_applications`, then FINAL |

`Worked` (the jobs), `Turn`, `Handled` (the losses) and `Evaluated` are the successive parts of `FiniteStateMachine.next`,
for a Master that remains the Master.  In OPERATION, an instance that is CHECKED is
activated and leads to ELECTION, which aborts the Starter, the Stopper and the failure handler (`Aborted`) but not the
starts that the Stopper has deferred; the Master stays there until the instances activated declare it (`strange`),
then enters DISTRIBUTION and calls `start_applications`.  DISTRIBUTION activates nobody.  CONCILIATION activates, cannot go
to ELECTION, and evaluates nothing more until the instance declares the Master.  SHUTTING_DOWN stands for RESTARTING
too: they only differ by what is asked to Supervisor in the end.

`Sequencing` is the abstract specification: sets of applications and processes expected, in progress and to do, and
one rule for each level, that nothing begins before what precedes it is complete.  `StartsInOrder` and `StopsInOrder`
say that `Sequencer` implements it, for the Starter by increasing numbers and for the Stopper by decreasing numbers.
One step of `Sequencer` may be several calls of the commanders, and what a later call adds cannot precede what an
earlier one has begun: `deferred` and `InWaiting` leave out, of what waits after the step, the applications whose request
was deferred and the processes that a user asks for one by one.

The Supervisors and the Master take one step per event, in any order: an event is applied to the Master when the
Supervisor declares it (delays and losses of events are the subject of `ProcessView`); requests do wait in `sent`.
Only one instance, the Master, holds commanders; the requests of users are those made on the Master.

### Programs

`procs` are the processes of the local Supervisor, `obsolete` those bound to be deleted, `commands` the commands of
the commanders about them, `asked` the XML-RPCs on their way and `waiting` the deferred requests of users.  An
action is a user request with all its calls, the poll of a deferred request (`Poll`), a state declared by Supervisor
(with `update_stop`), the check of a command (`TimeOut`), a crash, maybe during the writing of the file, and a restart.

## 3. Runs

A run of `MCStateMachine` starts from `Init` (no `supervisord` is up), from `SettledInit` (the cluster
is in OPERATION behind `a`) or from `MetInit` (all instances have just activated each other).  Both later states are
reachable from `Init`: 17 steps lead to `MetInit` with two instances, 36 with three.  The runs Lost, Ending and Race
restart no `supervisord` (`Starting` is empty).

| Run | Instances, options, faults | Distinct states | Properties |
|---|---|---|---|
| Boot | `Init`, 2, CORE, start sequences | 13,014 | `TypeOK`, `NoNewcomer`, `Convergence` |
| Crash | `Init`, 2, CORE, crash and restart of the core instance | 238,567 | `MasterSeenRunning`, `OneLeader`, `LifeCycle` |
| Fence | `SettledInit`, 2, CORE, `auto_fence`, one cut and its repair, UNKNOWN answers | 2,397 | `LifeCycle`, `IsolatedForGood`, `Detection`, `HandshakeEnds` |
| Lost | `SettledInit`, 3, CORE, any instance crashes for good | 3,905 | `MasterSeenRunning`, `Succession` |
| Ending | `SettledInit`, 2, STRICT, SHUTDOWN strategy, restart and shutdown requests, a crash, a conflict, jobs | 2,293 | `LocalRunning`, `EndReached`, `StrategyApplied`, `Convergence` |
| Sync | `Init`, 2, TIMEOUT and USER, any Master designated on `a` | 93,013 | `OneLeader`, `MasterKept` |
| View | 2 Supervisors, 1 observer: slow handshakes, late events, losses, removals | 1,157,389 | `Synthesis` |
| Views | 1 Supervisor, 2 observers: late events, losses, restarts, unpublished events, forced states, disabilities, removals | 2,388,317 | `TypeOK`, `Faithful` |
| Sequence | 3 processes, 2 applications of successive ranks, one with a process whose exit is waited for; up to 2 of: a request of a user, the shutdown, a loss, a failed start | 153,347 | `TypeOK`, `StartsInOrder`, `StopsInOrder`, `JobsEnd`, `ShutdownEnds` |
| Repair | one group of 2 processes that do not fit together on a machine, contradictory failure strategies; up to 2 of the other incidents too: a return, a crash, an exit, a lost request, a direct start, a disability | 139,673 | `Consistent`, `DeferredStarts`, `Followed`, `NoDoubleStart`, `NoOverload`, `LossRepaired` |
| Programs | 1 group, numprocs 1 to 2, up to 4 requests and crashes | 78,353 | `TypeOK`, `Counted`, `Durable`, `Leaves`, `Answered` |
| Race | `MetInit`, 3, STRICT: a violation, see section 5 | | `Convergence` |

Deadlock is not checked where the system really stops: the cluster of Ending, the processes of View and Views whose
clock is bounded, and Programs once the users are done.

### Properties

* `OneLeader`: two instances that see each other RUNNING are not both the Master at work.  It needs the stability
  check, the agreement check, the publication of every change, and the handshake that transfers the Master of the
  instance that is met.  It holds in the runs, not for all constants: see sections 4 and 5.
* `MasterSeenRunning`: nobody follows a Master that it does not see RUNNING.  False with the USER option, see section 5.
* `LocalRunning`: past OFF, the local instance is RUNNING.
* `NoNewcomer`: nobody joins the instances to distribute on during a distribution, unless it is given up: Supvisors
  ends, or an instance that takes part in it declares another Master or none.
* `MasterKept`: a Master that is still RUNNING is only given up for one that another RUNNING instance declares.
* `LifeCycle`: the refinement of `InstanceLife`.  An instance gets RUNNING only by a handshake that is not obsolete, and
  no late answer, failure or TICK makes a transition which `instancestatus.py` would refuse with an exception.
* `IsolatedForGood`: no answer or failure still in flight takes an instance out of ISOLATED.
* `Convergence`, `Succession`: with all instances, or with those that are left, the cluster ends in OPERATION behind
  one Master, and stays there.
* `Detection`, `HandshakeEnds`, `EndReached`, `StrategyApplied`: a lost instance is found, a handshake ends, an ending
  state ends, the failure strategy is applied.  `StrategyApplied` holds for SHUTDOWN (Ending), not for RESYNC.
* `Synthesis`: an observer holds a process as running exactly where it was last declared running (or STOPPING).
* `Faithful`: once the events are consumed, an accepted instance is known as it is, unless it did not publish.
* `StartsInOrder`, `StopsInOrder`: the refinement of `Sequencing`.
* `Followed`: a request keeps its command until an event of its process, the time-out, or the abort of all jobs.  It leaves
  out what is sent with a process of the same application given up, where the code may forget the jobs (section 5).
* `JobsEnd`: the commanders become idle again and again, unless the Starter waits for the exit of a process that goes on
  (`commander.py:267` accepts this risk) or the Master waits in CONCILIATION.  `ShutdownEnds`: even then, a shutdown ends.
* `NoDoubleStart`: a process is only asked to start when it is held as stopped, and by one command.  `NoOverload`: a
  machine is not asked to bear more than 100, counting what is requested there.  Neither covers the requests that a
  time-out or an election has made the Starter forget, as the code does not know them any more (section 5).
* `LossRepaired`: a process lost with its only instance is restarted, with the exceptions that its comment lists, unless
  an instance comes back at the same check.
* `DeferredStarts`: a deferred start begins with a stop, and is not left behind when that stop ends, except by the abort
  of all jobs.  `Consistent`: the jobs of the failure handler do not conflict.
* `Counted`: Supervisor has the processes that numprocs tells, besides those bound to be deleted.  `Leaves`: these leave.
* `Durable`: after a crash, the disability is the last one asked for.  `Answered`: the users who wait get an answer.

Every property of these runs is shown to depend on the code by a mutant: the definitions commented "(mutant)" are
the variants of the mapped definitions that make TLC find it violated under the same configuration.

### Fairness

In `StateMachine`, `Fairness` says that the timer of `supervisord` fires for ever, that the threads run, and so that a
handler that is due for ever is executed, and that Supervisor obeys the request to end which closes FINAL; it asks
nothing of faults, users, restarts or conflicts.  Timers get strong fairness only because the bound `MaxQueue` may
suspend them.  `FairTick`, `FairAnswer` and `FairPublish` are the same idea as WF and SF with their enabling condition
spelled out: TLC would have to evaluate the FSM twice to find ENABLED.

In `Sequencer`, only the periodical check is fair: Supervisor ticks every 5 seconds.  The variable `tick` (`Ticking`)
tells a check that changes nothing from a stutter.  Nothing is assumed of the requests, which may be lost, nor of the
processes: the jobs end thanks to the time-outs alone.

In `Programs`, the proxy thread sends what is asked, Supervisor kills what does not stop, commands are checked at each
TICK and deferred requests are polled; processes, users and crashes are free.

### Bounds

* `MaxCrash`, `MaxCut` and `MaxConflict` count faults; one fault is enough to put every handler in the middle of every
  other, and liveness holds only once faults stop.  `MaxQueue` suspends the timers and the users of an instance while
  more publications than that wait in one of its queues; handlers may push more.  With 0 the handlers still push
  several publications in one call, in queues that the remote instances empty in any order.  Two instances are enough
  for the races of a pair; three are used where an election or a quorum of views matters.
* `MaxTime` bounds the events of a Supervisor, and any initial state is taken: 2 in View (a state that goes on during a
  handshake, then one more), 3 in Views (one more, for an event that is late behind another one).  `MaxForced` bounds
  the forced states.  `View` has two Supervisors because the synthesis is about several of them, `Views` two observers
  because a forced state is about several of those.
* `Budget` says how many times each incident may happen, and "any" how many in all: 2 in both runs, of different kinds
  and at any step, on top of the normal life of the processes, whose events and requests may always be late.  Sequence
  has the requests of users, the shutdown (the Stopper then has two applications waiting), a loss and a failed start;
  Repair has all kinds but the failed start, so the duplicates and their conciliation, and an election after a return.
  The initial sequence is always in progress first.  With 2 incidents an instance does not come back in CONCILIATION
  nor during the shutdown, and two users do not cross each other: what the modules say of it is not exercised.
  `MaxPending` suspends the periodical check while that many requests wait in a Supervisor.  `MinimumTicks` is 1,
  where the code grants at least 2 (`commander.py:46`): a time-out may come at the second check.
* `MaxUses` bounds the requests and crashes of `Programs`: 4 allow two users to wait while two others contradict them.

## 4. Theorems

All the constants are arbitrary, under the assumptions named in the modules.

| Module | Theorem | Statement |
|---|---|---|
| `StateMachineProofs` | `TypeCorrect` | `Spec => []TypeOK` |
| | `LocalAlwaysRunning` | `Spec => []LocalRunning` |
| | `MasterAlwaysRunning` | `Spec => []MasterSeenRunning`, if USER is not a synchronization option |
| | `IsolatedStaysIsolated` | `Spec => IsolatedForGood` |
| `MasterProofs` | `MasterAlwaysKept` | `Spec => MasterKept` |
| | `NewcomersAlwaysWait` | `Spec => NoNewcomer` |
| `LeaderProofs` | `OneLeaderUndisturbed` | `Spec /\ [][Undisturbed]_vars => []OneLeader`, if USER is not a synchronization option |
| `InstanceLifeProofs` | `LifeCycleImplemented` | `Spec => LifeCycle`, the refinement of `InstanceLife` |
| `ProcessViewProofs` | `ViewTypeCorrect` | `Spec => []TypeOK` |
| | `SynthesisAlways` | `Spec => []Synthesis` |
| | `FaithfulAlways` | `Spec => []Faithful`, if no handshake is slow |
| `ProgramsProofs` | `ProgramsTypeCorrect` | `Spec => []TypeOK` |
| | `CountedAlways` | `Spec => []Counted` |
| | `DisabilityDurable` | `Spec => Durable` |
| `FailureHandlerProofs` | `FailureKeepsPrecedence` | adding a failure keeps `Jobs` and `Precedence` |
| | `NothingForgotten` | adding a failure loses no job: each one stays or is covered by a stronger one |
| | `DeferralKeepsPrecedence` | so does triggering, and what is deferred is about busy applications |

The theorems on `StateMachine` rest on one inductive invariant, `IInv`.  `MasterSeenRunning` is not inductive:
the Master that an instance selects may come from what another one declares.  So `DeclaredOK` says that every
`StateModes` of the cluster, held, in a queue or in an answer, declares a Master that is RUNNING for the instance which
declares it (unless USER is set).  A selection happens only when the RUNNING instances agree on the set of RUNNING
instances (`ElectionState.next` asks for `is_stable`), so a Master declared by one of them is RUNNING for the selector
too.  `LocalRunning` needs that the proxy to the local instance never fails (`LocalReachable`), that an authorization
which is not obsolete finds its instance in CHECKING (`AnswersCurrent`), and that a new life starts from nothing
(`DownIsFresh`); `AnswersCurrent` is also what keeps a late answer from taking an instance out of ISOLATED.
The difficulty is in the FSM: a handler evaluates it up to ten times.  the first part of `StateMachineProofs` says of each
function on views what it types, what it changes and what it leaves alone (`Sound`, `SameStates`); `Advance` is what may become of the
states of the instances from one view to a later one.  `EvaluateSound` shows that one evaluation
preserves `Sound` and only suggests to leave OFF when the local instance is RUNNING; the chain of transitions follows
(`TurnSound`, `SetFsmStateSound`), and each action only has to show that the view it gives to the FSM is `Handled`
(one lemma `...Preserves` per action).  USER is excluded from `MasterAlwaysRunning` because `accept_master` takes a
Master without the agreement on who is RUNNING.

`MasterProofs` adds to `IInv` that an instance with jobs is the Master, past ELECTION (`JobsOK`), which is what makes a
distribution its own: without it, an instance with jobs left from another state would count as one that distributes.
The rest is about steps: what a handler gives to the FSM (`Entered`), what each of the turns of the FSM keeps from there
(`Carried`: the modes of the RUNNING instances, the Master unless it is one that they declare, the instances to
distribute on while the distribution goes on), and what remains of it for the step (`Changed`).  `EvaluateShape` says
of one evaluation which state it suggests and where its Master comes from; the three chains, about the jobs, the Master
and the newcomers, follow from it without opening the FSM again.

`OneLeaderUndisturbed` is about the order in which `select_master` prefers the candidates: a core instance first, then
the lowest nick identifier (`Prefers`).  As long as nobody loses its Master, an instance only replaces it by a preferred
one (`Rises`), since its own Master is among the candidates.  So nothing that is held, queued or answered about the Master of an instance is ahead of the Master that it has
(`Ascending`): in whatever order the queues are read, a declaration is a lower bound, and a lower bound does not get
stale.  An instance only enters a state where it leads when all those that it sees RUNNING declare it, and a handshake
which adds one more sends it back to ELECTION: those that the Master at work sees RUNNING have it as Master, or a
preferred one (`Followed`).  Two Masters at work that see each other would both be preferred to the other.  `Ascending` and
`Followed` are inductive under `IInv`; the views inside a handler, which may chain several states, have their own forms of
it (`Honest`, `Backed`, `Raised`).  TLC checked both on two instances, and simulated three, before they were proved.

The hypothesis `Undisturbed` is about steps: none makes an instance see the Master that it has in another state than
RUNNING, and none adds a RUNNING instance to those seen by an instance that stays in CONCILIATION.  It leaves in the
theorem what makes an election hard: instances that start and join at any time, alone or in groups with Masters
of their own, elections that run in parallel, publications and handshakes that cross and are late, instances that
crash, are cut, isolated or return while nobody has them as Master, degraded modes, conflicts.  It leaves out the loss or
the end of a Master, thus the end of any instance that has one, itself included: the order of the declarations
is then no longer that of the preferences, and section 5 tells how two Masters may come out of it.  The second part
excludes the other case of section 5.  USER is excluded since the Master that users designate follows no order.

`LifeCycleImplemented` takes one lemma per action.  A handler leaves each instance with the state it had, or with one
that the event accounts for (`Opened`); this is where `AnswersCurrent` is needed, since a late authorization would
accept an instance that is no longer CHECKING.  Then the evaluation of the FSM invalidates every FAILED instance
(`FsmNextInvalidates`) and activates those that are CHECKED, so that each of them ends as `InstanceLife` says (`Lived`).

`ProcessProofs` shows that each method of a status keeps its type and `Consistent`, the strengthening of `Synthesis` for
one view: an instance whose program has been removed may stay in `running` (section 5), and the clauses about `running`
that do not need it must survive that state.  `ProcessViewProofs` then takes one step per action. `Faithful` is only
about the moment when the channel is empty.  Its strengthening `Fits` says of each Supervisor and observer that what the
observer holds (`Settled`) or what the handshake got (`Answered`) is the truth, or that an event of the channel is to
come which replaces it, or has the handshake refused; and that the last event of each kind in the channel tells what the
Supervisor knows now (`Healthy`).  The hypothesis, `"slow" \notin Features`, is needed: between the answer and its
transfer, an event is handled in CHECKING, before the date that would tell it from an older one is taken; this is the
behaviour of `supervisorproxy.py:309` in section 5, that View has. `CountedAlways` needs that Supervisor has no process
when it is not up (`Nothing`), since a restart builds them again.  `DisabilityDurable` is about the file: up or down, it
is either what Supervisor was last told or truncated, and a truncated file prevents the start (`Persisted`).  The
theorems on the failure handler are about its operators: `Consistent` of `Sequencer` is `Precedence` of the same jobs.

Only checked with TLC:

* `OneLeader` when a Master is lost, as in the run Crash.
* Everything about `Sequencer`, whose operators are recursive, out of the reach of the prover: its type invariant,
  the invariant `Consistent`, its action properties, and its refinement of `Sequencing`.
* `Leaves`, `Answered` and all the other liveness properties: fairness and ENABLED are out of its reach too.

## 5. What the code does not do

The run Race shows a behaviour that contradicts the documentation; it is the finding in `PROJECT.json`: a slave gets
the last agreement on the Master when the Master has already left DISTRIBUTION, and nothing takes it out of ELECTION.
It is why `Convergence` is checked on two instances from `Init`, and `Succession` on a settled cluster.

Other behaviours were met while modelling.  Unless the text says otherwise, the models have them.

Agreement:

* Two TICKs between two periodical checks hide a restart: the instance that has restarted stays in ELECTION
  (`instancestatus.py:115`).
* A Master lost in CONCILIATION leaves the slaves there, since ELECTION is not allowed (`statemachine.py:1196`, against
  `docs/special.rst:217`); with RESYNC, a Master lost in DISTRIBUTION leaves the slaves there (`statemachine.py:1185`,
  against `docs/configuration.rst:362`).
* For the same reason two clusters that meet while both are in CONCILIATION keep their two Masters, which see each other
  RUNNING, until the conflicts end (`docs/special.rst:212` has a unique Master, or else ELECTION).  TLC finds it on two
  instances with TIMEOUT, one conflict and no fault, in 23 steps: each instance starts alone, elects itself and
  enters CONCILIATION, then the handshake.  The configuration is not one of the runs.
* When Masters are lost and come back, what a slow queue still says of the Master before last may be handled after the
  election of the next one, and two instances may take each other's former choice.  This was followed by hand on three
  instances, not with TLC; it is why `Undisturbed` excludes losses.
* Two users who end the synchronization on two instances may lead to two Masters at work, one of which restarted.
* The state and modes of a handshake carry no date that is checked: they may overwrite a newer publication
  (`supervisorproxy.py:287`, `statemachine.py:1091`).
* With `auto_fence`, a lost Master gets STOPPED and not ISOLATED: the fencing looks at the state of the Master, which
  losing it has just reset (`context.py:185`).  The instances that are missing when TIMEOUT ends the synchronization stay
  STOPPED, where `docs/special.rst:157` says that they get ISOLATED.
* A proxy that is asked to stop leaves what is in its queue (`supervisorproxy.py:377`): a Master with nothing to stop may
  end before its slaves know that the cluster is shutting down.
* With USER, `accept_master` takes a Master that a remote instance still declares, even one that the local instance has
  just lost (`statemodes.py:449`).

Views of the processes:

* An event handled in CHECKING after the remote instance has answered, and before its proxy thread gets the answer,
  is forgotten: the date of the transfer is taken when it is received (`supervisorproxy.py:309`).  Views has no slow
  handshake, so that `Faithful` leaves this case out; events that are only late, published before the answer and
  received after it, are in Views.
* The events of an instance that does not hold the observer as active are not published (`supervisorproxy.py:162`), which
  `Faithful` excludes with `missed`.
* A process removed in BACKOFF stays among the running instances, without information (`process.py:748`), which
  `Synthesis` excludes by its premise; so does a program removed while its instance is disconnected stay known.
* A process STOPPING on a lost instance is left as it is.  A forced state may be dismissed by an observer whose date of
  handshake is later (`process.py:299`).

Commanders:

* A start that times out does not apply the starting failure strategy (`commander.py:569-600`, against
  `docs/special.rst:405-420`), and a stop requested by this strategy is lost when it is the last job.
* "No resource available" on the last process of an application re-enters `next`, which deletes the job: the outer
  call then raises a KeyError, or a request sent is no longer followed (`commander.py:854`, `commander.py:1004`).  This is
  `GivenUp`, that `Followed` excludes.  Without it TLC finds it in Repair: a restart ends its stop, nothing can bear the
  process, and a second stop begins that the outer call deletes.
* The abort of all jobs keeps the starts deferred by the Stopper (`commander.py:985`): a later stop of that application
  starts it again.  Even the shutdown does it, although it "aborts all pending tasks and stops all applications"
  (`statemachine.py:787`): a restart in progress when it is asked starts the application again once stopped, and FINAL
  does not wait for the Starter.
* The requests on their way when an election aborts the jobs are forgotten: `start_applications` may ask for the same
  process again, on another instance, and their load is not counted.  So is a request whose command has timed out.
* The losses found by the check that activates a new instance are not repaired: ELECTION comes before `_common_next`
  (`statemachine.py:665`).
* The crash of a process during the shutdown still triggers the running failure strategy (`statemachine.py:1048`).
* `restart_process` on several processes stops them one by one, in the order of the application's processes and not by
  decreasing number (`rpcinterface.py:795`).
* A restart is planned with a stop: it is popped early when the application was already being stopped, and dismissed
  when a process of the application is STOPPING out of any job (`commander.py:1351`).
* The Master does not handle the losses in CONCILIATION, and a stop does not abort the groups of a start in progress.
* SINGLE_NODE may pick an instance where one of the processes is not configured: a TypeError.
* The restart of an application that is not managed is not refused (`rpcinterface.py:523`, whose docstring says it is).

Programs:

* A command about a process removed from its target makes every check raise a TypeError (`commander.py:138`): nothing
  times out any more, and the TICK is not published, so that the others see this instance lost.  It ends if the process
  is added again.  This is `Wedged`, that `Answered` excludes.
* `_decrease_numprocs` without wait compares names with processes, so it reports the processes that it has just asked
  to stop as failures; with wait, a process already STOPPING is not waited for (`rpcinterface.py:918`).
* An obsolete process that becomes FATAL is not deleted (`listener.py:286`), as `Leaves` says.
* A `disable` with wait overtaken by `enable`, or the reverse, is polled for ever (`rpcinterface.py:1020`, `1081`): this is
  `Overtaken`, that `Answered` excludes.
* The disabilities file is truncated before it is written (`options.py:649`): a crash in between leaves an empty file, that
  prevents the next start until a user removes it (`RemoveFile`).
* `update_numprocs` after the removal of a group fails halfway (`supervisorupdater.py:150`), and a configuration that is
  read again after an increase hides the processes added (`options.py:687`).  Neither is modelled.

## 6. Not modelled

See "components" in `PROJECT.json`.  Beyond what is pure I/O, parsing or display:

* Instances discovered at run time, their identification and network data, and clocks that are changed.
* `StarterModel` (`commander.py:1473` and after), which predicts a start.  It copies the information of a process but not
  the records in it (`commander.py:1485`), so that a test may write in the real ones.
* Groups added or removed, `reread` and `update` of the configuration, and extra arguments of programs.
* The autorestart that some running failure strategies disable in Supervisor (`process.py:141`).
* The composition of `StateMachine` with `Sequencer`: the former takes the jobs of the Master as given, the latter the
  Master as given, and keeps it: a change of Master is an abort of all jobs (`AbortJobs`) and a new `Init` of `Sequencer`.
* Statistics: no decision depends on them.  Their code was read: the period of a running collector cannot be
  changed (`statscollector.py:423`), the collector blocks on a full pipe (`statscollector.py:180`, whose comment announces a
  time-out) and so may outlive its `supervisord`, and commands that keep coming delay the collection
  (`statscollector.py:410`).
