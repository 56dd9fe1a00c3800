---------------------------- MODULE StateMachine ----------------------------
(***************************************************************************)
(* The cluster of Supvisors finite state machines: every instance runs     *)
(* statemachine.py on its own view of the others (context.py,              *)
(* instancestatus.py, statemodes.py) and publishes its state and modes     *)
(* through one proxy thread per instance (supervisorproxy.py).             *)
(*                                                                         *)
(* One action is one event handled by the main thread of one instance, or  *)
(* one message taken by one of its proxy threads.  The faults are an       *)
(* abrupt stop of a supervisord, its restart, and a network cut between    *)
(* two instances.                                                          *)
(***************************************************************************)
EXTENDS StateModes

CONSTANTS
    SyncOptions,        \* synchro_options
    FailureStrategy,    \* supvisors_failure_strategy
    AutoFence,          \* auto_fence
    Starting,           \* the instances that may start or restart
    Crashing,           \* the instances that may stop abruptly
    MaxCrash,           \* bound: abrupt stops
    MaxCut,             \* bound: network cuts
    Asked,              \* the instances where a user may end the synchronization
    EndRequests,        \* the ending states a user may ask for
    MaxConflict,        \* bound: appearances of conflicts
    Works,              \* the jobs that requests to Starter and Stopper may leave
    Codes,              \* the answers of a handshake that is not denied
    Preferred,          \* the Masters that the hash order may prefer
    MaxQueue            \* bound: publications waiting in a proxy queue

\* check_options: TIMEOUT invalidates any failure strategy, CORE needs a list.
ASSUME OptionsAssumption ==
    /\ SyncOptions \subseteq {"STRICT", "LIST", "TIMEOUT", "CORE", "USER"}
    /\ SyncOptions # {}
    /\ FailureStrategy \in {"CONTINUE", "RESYNC", "SHUTDOWN"}
    /\ "TIMEOUT" \in SyncOptions => FailureStrategy = "CONTINUE"
    /\ "CORE" \in SyncOptions => CoreInstance # {}
    /\ AutoFence \in BOOLEAN
ASSUME BoundsAssumption ==
    /\ Starting \subseteq Instance /\ Crashing \subseteq Instance
    /\ MaxCrash \in Nat /\ MaxCut \in Nat /\ MaxQueue \in Nat
    /\ Asked \subseteq Instance /\ EndRequests \subseteq {"RESTARTING", "SHUTTING_DOWN"}
    /\ MaxConflict \in Nat /\ Works \subseteq SUBSET {"start", "stop"}
    /\ Codes \subseteq {"AUTHORIZED", "UNKNOWN"}
    /\ Preferred \subseteq Instance /\ Preferred # {}

VARIABLES
    up,         \* supervisord runs
    modes,      \* modes[i][j]: the StateModes of j held by i
    mark, late, degraded, jobs,   \* the other components of the view of i
    answer,     \* answer[i][j]: what the proxy of i got from j in the handshake
    outbox,     \* outbox[i][j]: publications of i in the queue of its proxy to j
    failing,    \* failing[i]: instances with an INSTANCE_FAILURE waiting in i
    heard,      \* heard[i][j]: TICKs of j since its restart, see below
    cut,        \* pairs of instances that cannot reach each other
    conflicts,  \* odd when the same process is RUNNING on several instances
    crashes, cuts   \* number of faults so far

viewVars  == <<modes, mark, late, degraded, jobs>>
proxyVars == <<answer, outbox, failing>>
faultVars == <<up, heard, cut, crashes, cuts>>
vars      == <<viewVars, proxyVars, faultVars, conflicts>>

\* What check_instance posted and the main thread has not taken yet: nothing,
\* the authorization alone (UNKNOWN when the remote instance gave no status), the
\* state and modes followed by the authorization (STATE) or followed by an
\* authorization that is obsolete (LATE).
Answers == [code : {"NONE", "UNKNOWN", "NOT_AUTHORIZED", "AUTHORIZED", "STATE", "LATE"},
            modes : StateModesRecord]
NoAnswer == [code |-> "NONE", modes |-> FreshModes]

TypeOK ==
    /\ up \in [Instance -> BOOLEAN]
    /\ modes \in [Instance -> [Instance -> StateModesRecord]]
    /\ mark \in [Instance -> BOOLEAN] /\ late \in [Instance -> BOOLEAN]
    /\ degraded \in [Instance -> BOOLEAN]
    /\ jobs \in [Instance -> SUBSET {"start", "stop"}]
    /\ answer \in [Instance -> [Instance -> Answers]]
    /\ outbox \in [Instance -> [Instance -> Seq(StateModesRecord)]]
    /\ failing \in [Instance -> SUBSET Instance]
    /\ heard \in [Instance -> [Instance -> 0..2]]
    /\ cut \in SUBSET SUBSET Instance
    /\ conflicts \in Nat /\ crashes \in Nat /\ cuts \in Nat

-----------------------------------------------------------------------------
(* The instances seen by i, in its main thread. *)

Fsm(i)        == modes[i][i].state
Master(i)     == modes[i][i].master
Seen(i, j)    == modes[i][i].states[j]
Active(i, j)  == Seen(i, j) \in ActiveStates

Conflicting == conflicts % 2 = 1

Reachable(i, j) == up[i] /\ up[j] /\ {i, j} \notin cut

\* An isolated instance has no proxy, hence gets no TICK (supervisorproxy.py:453).
Ticks(i, j) == Reachable(i, j) /\ Seen(j, i) # "ISOLATED"

\* A TICK whose counter is lower than the previous one denotes a restart of j,
\* and makes j inactive; the TICK after that one restores the counter
\* (instancestatus.py:111-123).  So heard[i][j] is 0 when the next TICK of j
\* comes from a new life of j, 1 after that TICK, and 2 otherwise.
Inactive(i) == {j \in Instance \ {i} : Active(i, j) /\ (~Ticks(i, j) \/ heard[i][j] < 2)}

-----------------------------------------------------------------------------
(* Context: invalidation and activation of instances (context.py). *)

\* (mutant) The Master only takes care of the FAILED instances.
FailedOfMaster(v, i) == {j \in Instance : IsMaster(v, i) /\ v.modes[i].states[j] = "FAILED"}

\* (mutant) An instance that is CHECKED once the others are at work is left aside.
CheckedBeforeWork(v, i) ==
    {j \in Instance : v.modes[i].state \notin WorkingStates /\ v.modes[i].states[j] = "CHECKED"}

Failed(v, i)  == {j \in Instance : v.modes[i].states[j] = "FAILED"}
Checked(v, i) == {j \in Instance : v.modes[i].states[j] = "CHECKED"}

\* invalidate: the local instance is never isolated, a remote one is when the
\* isolation is reciprocal (fence) or when auto_fence applies.
InvalidState(v, i, j, fence) ==
    IF j # i /\ (fence \/ (AutoFence /\ MasterState(v, i) \in WorkingStates))
    THEN "ISOLATED" ELSE "STOPPED"

\* invalidate_failed: all the FAILED instances at once.  The code takes them one
\* by one, which makes no difference unless the Master is one of them: it stops
\* being the Master as soon as it is FAILED, so this needs end_sync to elect a
\* Master that is FAILED and not invalidated yet.
InvalidateFailed(v, i) ==
    LET S == Failed(v, i)
        v1 == [v EXCEPT !.modes =
                 [j \in Instance |->
                    IF j = i
                    THEN [v.modes[i] EXCEPT !.states =
                            [k \in Instance |->
                                IF k \in S THEN InvalidState(v, i, k, FALSE)
                                ELSE v.modes[i].states[k]]]
                    ELSE IF j \in S THEN FreshModes ELSE v.modes[j]],
                 !.mark = @ \/ S # {}]
    IN  IF v.modes[i].master \in S THEN SetMaster(v1, i, NoMaster) ELSE v1

ActivateChecked(v, i) ==
    [v EXCEPT !.modes[i].states =
                  [k \in Instance |-> IF k \in Checked(v, i) THEN "RUNNING"
                                      ELSE v.modes[i].states[k]],
              !.mark = @ \/ Checked(v, i) # {}]

\* (mutant) An instance may join at any time.
ActivateAlways(v, i) == ActivateChecked(v, i)

\* _activate_instances: nobody joins during a distribution.
ActivateInstances(v, i) ==
    IF v.modes[i].state = "DISTRIBUTION" THEN v ELSE ActivateChecked(v, i)

\* (mutant) Every TICK starts a handshake.
HandshakeAlways(v, i, j) == UpdateInstanceState(v, i, j, "CHECKING")

\* A handshake starts with a STOPPED instance.
StartHandshake(v, i, j) ==
    IF v.modes[i].states[j] = "STOPPED" THEN UpdateInstanceState(v, i, j, "CHECKING") ELSE v

-----------------------------------------------------------------------------
(* The evaluation of a state.  Its result r is the view r.v and the state    *)
(* r.next it suggests, "NONE" when there is no suggestion.                   *)

Evaluation == [v : View, next : FsmStates \cup {"NONE"}]
Suggest(v, s) == [v |-> v, next |-> s]

\* The options that are satisfied, the stable_identifiers being S.
Satisfied(S) ==
    {o \in SyncOptions : \/ o = "STRICT" /\ InitialRunning(S)
                         \/ o = "LIST" /\ AllRunning(S)
                         \/ o = "CORE" /\ CoreRunning(S)}

Degraded(S) == (SyncOptions \cap {"STRICT", "LIST", "CORE"}) \ Satisfied(S) # {}

\* (mutant) The STRICT option is not checked.
FailureNotStrict(S, lost) ==
    IF "USER" \in SyncOptions THEN lost # {}
    ELSE \E o \in SyncOptions \ Satisfied(S) :
            \/ o = "CORE"
            \/ o = "LIST" /\ SyncOptions \cap {"CORE", "STRICT"} = {}

\* _check_failure_strategy: the precedence is USER, CORE, STRICT, LIST, and an
\* option that is set hides the following ones even without failure.
GlobalFailure(S, lost) ==
    IF "USER" \in SyncOptions THEN lost # {}
    ELSE \E o \in SyncOptions \ Satisfied(S) :
            \/ o = "CORE"
            \/ o = "STRICT" /\ "CORE" \notin SyncOptions
            \/ o = "LIST" /\ SyncOptions \cap {"CORE", "STRICT"} = {}

\* SynchronizationState.next, the preferred Master being p.
SynchronizationNext(v, i, S, p) ==
    LET w    == IF "USER" \in SyncOptions THEN AcceptMaster(v, i, p) ELSE v
        m    == w.modes[i].master
        user == "USER" \in SyncOptions /\ m # NoMaster /\ w.modes[i].states[m] = "RUNNING"
        over == "TIMEOUT" \in SyncOptions /\ v.late
    IN  Suggest(SetDegraded(w, i, Degraded(S)),
                IF Satisfied(S) # {} \/ over \/ user THEN "ELECTION" ELSE "SYNCHRONIZATION")

\* ElectionState.next: the Master leaves first, a slave only once it has seen
\* the Master in DISTRIBUTION; otherwise the selection is evaluated again.
ElectionNext(v, i, S) ==
    IF S = {} THEN Suggest(v, "ELECTION")
    ELSE IF CheckMaster(v, i) /\ (IsMaster(v, i) \/ MasterState(v, i) = "DISTRIBUTION")
         THEN Suggest(v, "DISTRIBUTION")
    ELSE Suggest(SelectMaster(v, i), "ELECTION")

\* (mutant) The conciliation is over with a new distribution.
Redistribute(v, i, work) ==
    IF v.jobs # {} THEN Suggest(v, "CONCILIATION")
    ELSE IF ~Conflicting THEN Suggest(v, "DISTRIBUTION")
    ELSE Suggest(SetJobs(v, i, work), "CONCILIATION")

\* ConciliationState._master_next: the conflicts left are conciliated again when
\* the jobs of the previous conciliation are done.
ConciliationNext(v, i, work) ==
    IF v.jobs # {} THEN Suggest(v, "CONCILIATION")
    ELSE IF ~Conflicting THEN Suggest(v, "OPERATION")
    ELSE Suggest(SetJobs(v, i, work), "CONCILIATION")

\* _master_next: work is what the calls to the Starter, the Stopper and the
\* failure handler leave in progress.
MasterNext(v, i, lost, work) ==
    LET s   == v.modes[i].state
        fix == IF lost # {} THEN SetJobs(v, i, v.jobs \cup work) ELSE v
    IN  CASE s = "DISTRIBUTION" ->
                Suggest(fix, IF "start" \in fix.jobs THEN "DISTRIBUTION" ELSE "OPERATION")
          [] s = "OPERATION" ->
                Suggest(fix, IF fix.jobs = {} /\ Conflicting THEN "CONCILIATION" ELSE "OPERATION")
          [] s = "CONCILIATION" -> ConciliationNext(v, i, work)

\* _check_consistence of the states past SYNCHRONIZATION.
Consistence(v, i, S, lost) ==
    IF GlobalFailure(S, lost) /\ FailureStrategy = "RESYNC" THEN "SYNCHRONIZATION"
    ELSE IF GlobalFailure(S, lost) /\ FailureStrategy = "SHUTDOWN" THEN "SHUTTING_DOWN"
    ELSE IF v.modes[i].state # "ELECTION" /\ ~CheckMaster(v, i) THEN "ELECTION"
    ELSE "NONE"

\* (mutant) The Master waits for the slaves, which wait for it.
LastsForSlaves(v, i) ==
    IF IsMaster(v, i) THEN \E j \in Running(v, i) \ {i} : v.modes[j].state # "FINAL"
    ELSE MasterState(v, i) = v.modes[i].state

\* _EndingState: the Master waits for its stopping jobs, and a slave for the
\* Master to leave the ending state.
Lasts(v, i) ==
    IF IsMaster(v, i) THEN "stop" \in v.jobs ELSE MasterState(v, i) = v.modes[i].state

\* The instance.next() of the state classes.
Evaluate(v, i, p, work) ==
    LET s      == v.modes[i].state
        lost   == Failed(v, i)
        active == ActivateInstances(InvalidateFailed(v, i), i)
        local  == active.modes[i].states[i] = "RUNNING"
        S      == StableIdentifiers(active, i)
        w      == IF local THEN SetDegraded(active, i, Degraded(S)) ELSE active
        broken == IF local THEN Consistence(w, i, S, lost) ELSE "OFF"
    IN  CASE s = "OFF" -> Suggest(active, IF local THEN "SYNCHRONIZATION" ELSE "OFF")
          [] s = "FINAL" -> Suggest(active, "NONE")
          [] s = "SYNCHRONIZATION" ->
                IF local THEN SynchronizationNext(active, i, S, p) ELSE Suggest(active, "OFF")
          [] s = "ELECTION" ->
                IF broken = "NONE" THEN ElectionNext(w, i, S) ELSE Suggest(w, broken)
          [] s \in {"DISTRIBUTION", "OPERATION", "CONCILIATION"} ->
                IF s # "DISTRIBUTION" /\ Checked(v, i) # {} THEN Suggest(active, "ELECTION")
                ELSE IF broken # "NONE" THEN Suggest(w, broken)
                ELSE IF IsMaster(w, i) THEN MasterNext(w, i, lost, work)
                ELSE Suggest(w, MasterState(w, i))
          [] s \in {"RESTARTING", "SHUTTING_DOWN"} ->
                Suggest(w, IF broken = "NONE" /\ Lasts(w, i) THEN s ELSE "FINAL")

\* Transitions allowed between states.
Transitions ==
    [OFF             |-> {"SYNCHRONIZATION"},
     SYNCHRONIZATION |-> {"OFF", "ELECTION"},
     ELECTION        |-> {"OFF", "SYNCHRONIZATION", "DISTRIBUTION", "SHUTTING_DOWN"},
     DISTRIBUTION    |-> {"OFF", "ELECTION", "OPERATION", "RESTARTING", "SHUTTING_DOWN"},
     OPERATION       |-> {"OFF", "SYNCHRONIZATION", "ELECTION", "CONCILIATION",
                          "RESTARTING", "SHUTTING_DOWN"},
     CONCILIATION    |-> {"OFF", "SYNCHRONIZATION", "OPERATION",
                          "RESTARTING", "SHUTTING_DOWN"},
     RESTARTING      |-> {"FINAL"},
     SHUTTING_DOWN   |-> {"FINAL"},
     FINAL           |-> {}]

\* The enter() of the state that v is now in: jobs are aborted or triggered,
\* and the start date is reset in OFF.
Enter(v, i, work) ==
    LET s == v.modes[i].state
    IN  CASE s = "OFF" -> [v EXCEPT !.late = FALSE]
          [] s \in {"SYNCHRONIZATION", "ELECTION"} -> AbortJobs(v)
          [] s = "DISTRIBUTION" /\ IsMaster(v, i) -> SetJobs(v, i, v.jobs \cup (work \cap {"start"}))
          [] s = "CONCILIATION" /\ IsMaster(v, i) -> SetJobs(v, i, v.jobs \cup work)
          [] s \in {"RESTARTING", "SHUTTING_DOWN"} ->
                IF IsMaster(v, i) THEN SetJobs(AbortJobs(v), i, work \cap {"stop"}) ELSE AbortJobs(v)
          [] OTHER -> v

\* One turn of the loop of FiniteStateMachine.set_state.
Turn(r, i, p, work) ==
    LET s == r.v.modes[i].state
    IN  IF r.next \in {"NONE", s} \/ r.next \notin Transitions[s]
        THEN Suggest(r.v, "NONE")
        ELSE Evaluate(Enter(SetState(r.v, i, r.next), i, work), i, p, work)

\* set_state: no chain of transitions is longer than the number of states.
SetFsmState(r, i, p, work) ==
    LET T == [x \in Evaluation |-> Turn(x, i, p, work)]
    IN  T[T[T[T[T[T[T[T[T[r]]]]]]]]].v

FsmNext(v, i, p, work) == SetFsmState(Evaluate(v, i, p, work), i, p, work)

-----------------------------------------------------------------------------
(* The end of a handler of the main thread of i. *)

Held(i) == [modes |-> modes[i], mark |-> mark[i], late |-> late[i],
            degraded |-> degraded[i], jobs |-> jobs[i], out |-> <<>>]

\* The publications go to the proxies of the active instances: the others only
\* get TICKs (supervisorproxy.py:162).  The queues ob are those before the call.
Pushed(ob, i, v) ==
    [ob EXCEPT ![i] = [j \in Instance |->
        IF j # i /\ v.modes[i].states[j] \in ActiveStates THEN ob[i][j] \o v.out
        ELSE <<>>]]

\* (mutant) An authorization is handled whatever the state of the instance.
ReceivedAnyway(ans, i, v) == ans

\* What i has received from its handshakes.  When an instance leaves CHECKING its
\* authorization becomes obsolete (is_checking), but not its state and modes.
Received(ans, i, v) ==
    [ans EXCEPT ![i] =
        [j \in Instance |->
            IF v.modes[i].states[j] = "CHECKING" THEN @[j]
            ELSE IF @[j].code \in {"STATE", "LATE"} THEN [@[j] EXCEPT !.code = "LATE"]
            ELSE NoAnswer]]

\* The queues ob and the answers ans are those the handler has taken from.
Commit(i, ob, ans, v) ==
    /\ modes' = [modes EXCEPT ![i] = v.modes]
    /\ mark' = [mark EXCEPT ![i] = v.mark]
    /\ late' = [late EXCEPT ![i] = v.late]
    /\ degraded' = [degraded EXCEPT ![i] = v.degraded]
    /\ jobs' = [jobs EXCEPT ![i] = v.jobs]
    /\ outbox' = Pushed(ob, i, v)
    /\ answer' = Received(ans, i, v)

\* The bound on the timers and the user requests: they come when the proxies
\* of i are not late by more than MaxQueue publications.
Ready(i) == up[i] /\ \A j \in Instance : Len(outbox[i][j]) <= MaxQueue

-----------------------------------------------------------------------------
(* Events handled by the main thread of i. *)

\* SupervisorListener.on_tick: the local handshake if it has to be done again,
\* the instances S found inactive, the deferred publication and the evaluation
\* of the FSM.
Ticked(i, S, p, work) ==
    LET v0 == StartHandshake(Held(i), i, i)
        v1 == [v0 EXCEPT !.modes[i].states =
                  [k \in Instance |-> IF k \in S THEN "FAILED" ELSE @[k]],
                         !.mark = @ \/ S \ {Master(i)} # {}]
        v2 == IF Master(i) \in S THEN SetMaster(v1, i, NoMaster) ELSE v1
    IN  FsmNext(DeferredPublishStatus(v2, i), i, p, work)

OnTick(i, S, p, work) ==
    /\ Ready(i) /\ S \subseteq Inactive(i)
    /\ Commit(i, outbox, answer, Ticked(i, S, p, work))
    /\ UNCHANGED <<failing, faultVars, conflicts>>

\* on_tick_event: a TICK of j.  When j is STOPPED it starts a handshake, and
\* the one after a restart restores the counter of j (heard).
OnRemoteTick(i, j) ==
    /\ i # j /\ Ready(i) /\ Ticks(i, j) /\ Seen(i, i) \in {"CHECKED", "RUNNING"}
    /\ heard' = [heard EXCEPT ![i][j] = IF @ = 2 THEN 2 ELSE @ + 1]
    /\ Commit(i, outbox, answer, StartHandshake(Held(i), i, j))
    /\ UNCHANGED <<failing, up, cut, crashes, cuts, conflicts>>

\* on_state_event: the modes m published by j, or got in the handshake.
OnStateEvent(i, j, m, p, work) ==
    LET v == OnInstanceStateEvent(Held(i), i, j, m)
    IN  IF Seen(i, j) = "ISOLATED" THEN Held(i)
        ELSE IF Master(i) = j THEN FsmNext(v, i, p, work) ELSE v

\* on_state_event of the state and modes got in the handshake: they are not dated.
OnHandshakeState(i, j, p, work) ==
    /\ up[i] /\ answer[i][j].code \in {"STATE", "LATE"}
    /\ Commit(i, outbox,
              [answer EXCEPT ![i][j] = IF @.code = "LATE" THEN NoAnswer
                                       ELSE [code |-> "AUTHORIZED", modes |-> FreshModes]],
              OnStateEvent(i, j, answer[i][j].modes, p, work))
    /\ UNCHANGED <<failing, faultVars, conflicts>>

\* on_authorization.  The local instance goes straight to RUNNING.
OnAuthorization(i, j, p, work) ==
    LET code == answer[i][j].code
        to   == CASE code = "NOT_AUTHORIZED" -> InvalidState(Held(i), i, j, TRUE)
                  [] code = "UNKNOWN"        -> "STOPPED"
                  [] code = "AUTHORIZED"     -> "CHECKED"
        v    == UpdateInstanceState(Held(i), i, j, to)
    IN  /\ up[i] /\ code \in {"UNKNOWN", "NOT_AUTHORIZED", "AUTHORIZED"}
        /\ Commit(i, outbox, answer,
                  FsmNext(IF i = j /\ to = "CHECKED" THEN UpdateInstanceState(v, i, i, "RUNNING")
                          ELSE v, i, p, work))
        /\ UNCHANGED <<failing, faultVars, conflicts>>

\* (mutant) An isolated instance may fail.
FailableAgain == {"CHECKING", "CHECKED", "RUNNING", "ISOLATED"}

\* The states from where the transition to FAILED is allowed.
Failable == {"CHECKING", "CHECKED", "RUNNING"}

\* on_instance_failure: the instance is FAILED until the next evaluation of the
\* FSM.  From STOPPED and ISOLATED the transition is rejected.  The answer that was
\* posted before the failure is taken first.
OnInstanceFailure(i, j) ==
    /\ up[i] /\ j \in failing[i] /\ answer[i][j] = NoAnswer
    /\ failing' = [failing EXCEPT ![i] = @ \ {j}]
    /\ Commit(i, outbox, answer, IF Seen(i, j) \in Failable
                         THEN UpdateInstanceState(Held(i), i, j, "FAILED") ELSE Held(i))
    /\ UNCHANGED <<faultVars, conflicts>>

\* end_sync: the user ends the synchronization, with a Master or NoMaster.
EndSync(i, m, p, work) ==
    /\ Ready(i) /\ i \in Asked /\ "USER" \in SyncOptions
    /\ Fsm(i) = "SYNCHRONIZATION" /\ Master(i) = NoMaster
    /\ m # NoMaster => Seen(i, m) = "RUNNING"
    /\ Commit(i, outbox, answer, FsmNext(IF m = NoMaster THEN SelectMaster(Held(i), i)
                                 ELSE SetMaster(Held(i), i, m), i, p, work))
    /\ UNCHANGED <<failing, faultVars, conflicts>>

\* on_restart and on_shutdown, on the Master: a request of the user, which a
\* slave sends to it, or a process crash whose running failure strategy says so.
OnEndRequest(i, s, p, work) ==
    /\ Ready(i) /\ s \in EndRequests /\ Master(i) = i
    /\ s \in Transitions[Fsm(i)]
    /\ Commit(i, outbox, answer, SetFsmState(Suggest(Held(i), s), i, p, work))
    /\ UNCHANGED <<failing, faultVars, conflicts>>

\* The Starter or the Stopper has nothing left to do (publish_state_modes).
JobsDone(i) ==
    /\ up[i]
    /\ \E job \in jobs[i] : Commit(i, outbox, answer, SetJobs(Held(i), i, jobs[i] \ {job}))
    /\ UNCHANGED <<failing, faultVars, conflicts>>

\* synchro_timeout seconds have passed since the start date.
Elapse(i) ==
    /\ up[i] /\ "TIMEOUT" \in SyncOptions /\ ~late[i]
    /\ late' = [late EXCEPT ![i] = TRUE]
    /\ UNCHANGED <<modes, mark, degraded, jobs, proxyVars, faultVars, conflicts>>

-----------------------------------------------------------------------------
(* Messages taken by the thread of the proxy of i to j. *)

\* check_instance: the proxy asks j how it sees i, then its state and modes, and
\* posts the answer to the main thread of i.  What a proxy posts is taken in order:
\* one that has posted a failure waits here until the failure is taken.
CheckInstance(i, j, code) ==
    /\ up[i] /\ Seen(i, j) = "CHECKING" /\ answer[i][j] = NoAnswer /\ j \notin failing[i]
    /\ i = j \/ Reachable(i, j)
    /\ answer' = [answer EXCEPT ![i][j] =
                    IF code = "UNKNOWN" THEN [code |-> code, modes |-> FreshModes]
                    ELSE IF Seen(j, i) = "ISOLATED"
                    THEN [code |-> "NOT_AUTHORIZED", modes |-> FreshModes]
                    ELSE [code |-> "STATE", modes |-> modes[j][j]]]
    /\ UNCHANGED <<viewVars, outbox, failing, faultVars, conflicts>>

\* publish: the head of the queue is handled by j within the XML-RPC.  A check that
\* is requested is ahead of the publications in the queue.
Publish(i, j, p, work) ==
    /\ up[i] /\ outbox[i][j] # <<>> /\ Reachable(i, j)
    /\ Seen(i, j) = "CHECKING" => answer[i][j].code \notin {"NONE", "LATE"}
    /\ Commit(j, [outbox EXCEPT ![i][j] = Tail(@)], answer,
              OnStateEvent(j, i, Head(outbox[i][j]), p, work))
    /\ UNCHANGED <<failing, faultVars, conflicts>>

\* handle_exception: a request, a publication or a TICK cannot be sent.  What was
\* sent is lost, and the main thread is informed if j is active.
SendFailure(i, j) ==
    /\ up[i] /\ i # j /\ ~Reachable(i, j) /\ Active(i, j)
    /\ outbox[i][j] # <<>> \/ j \notin failing[i]
    /\ outbox' = [outbox EXCEPT ![i][j] = IF @ = <<>> THEN @ ELSE Tail(@)]
    /\ failing' = [failing EXCEPT ![i] = @ \cup {j}]
    /\ UNCHANGED <<viewVars, answer, faultVars, conflicts>>

-----------------------------------------------------------------------------
(* The environment. *)

\* supervisord starts: on_running forces a first TICK, which starts the local
\* handshake.  There is no active instance to publish to.
Start(i) ==
    /\ i \in Starting /\ ~up[i]
    /\ up' = [up EXCEPT ![i] = TRUE]
    /\ modes' = [modes EXCEPT ![i][i].states[i] = "CHECKING"]
    /\ UNCHANGED <<mark, late, degraded, jobs, proxyVars, heard, cut, crashes, cuts, conflicts>>

\* supervisord stops: its memory and its queues are lost.
Stop(i) ==
    /\ up' = [up EXCEPT ![i] = FALSE]
    /\ modes' = [modes EXCEPT ![i] = FreshView.modes]
    /\ mark' = [mark EXCEPT ![i] = FALSE]
    /\ late' = [late EXCEPT ![i] = FALSE]
    /\ degraded' = [degraded EXCEPT ![i] = FALSE]
    /\ jobs' = [jobs EXCEPT ![i] = {}]
    /\ answer' = [answer EXCEPT ![i] = [j \in Instance |-> NoAnswer]]
    /\ outbox' = [outbox EXCEPT ![i] = [j \in Instance |-> <<>>]]
    /\ failing' = [failing EXCEPT ![i] = {}]
    /\ heard' = [j \in Instance |->
                   [k \in Instance |->
                      IF j = i THEN 2
                      ELSE IF k = i /\ (Seen(j, i) # "STOPPED" \/ heard[j][i] < 2)
                      THEN 0 ELSE heard[j][k]]]
    /\ UNCHANGED <<cut, cuts, conflicts>>

Crash(i) == i \in Crashing /\ up[i] /\ crashes < MaxCrash /\ Stop(i) /\ crashes' = crashes + 1

\* The exit() of RESTARTING and SHUTTING_DOWN asks the local Supervisor to end.
End(i) == up[i] /\ Fsm(i) = "FINAL" /\ Stop(i) /\ UNCHANGED crashes

Cut(i, j) ==
    /\ i # j /\ {i, j} \notin cut /\ cuts < MaxCut
    /\ cut' = cut \cup {{i, j}} /\ cuts' = cuts + 1
    /\ UNCHANGED <<viewVars, proxyVars, up, heard, crashes, conflicts>>

Heal(i, j) ==
    /\ {i, j} \in cut
    /\ cut' = cut \ {{i, j}}
    /\ UNCHANGED <<viewVars, proxyVars, up, heard, crashes, cuts, conflicts>>

ConflictAppears ==
    /\ ~Conflicting /\ conflicts < 2 * MaxConflict
    /\ \E i \in Instance : Fsm(i) = "OPERATION"
    /\ conflicts' = conflicts + 1
    /\ UNCHANGED <<viewVars, proxyVars, faultVars>>

ConflictEnds ==
    /\ Conflicting /\ conflicts' = conflicts + 1
    /\ UNCHANGED <<viewVars, proxyVars, faultVars>>

-----------------------------------------------------------------------------
Init ==
    /\ up = [i \in Instance |-> FALSE]
    /\ modes = [i \in Instance |-> FreshView.modes]
    /\ mark = [i \in Instance |-> FALSE] /\ late = [i \in Instance |-> FALSE]
    /\ degraded = [i \in Instance |-> FALSE] /\ jobs = [i \in Instance |-> {}]
    /\ answer = [i \in Instance |-> [j \in Instance |-> NoAnswer]]
    /\ outbox = [i \in Instance |-> [j \in Instance |-> <<>>]]
    /\ failing = [i \in Instance |-> {}]
    /\ heard = [i \in Instance |-> [j \in Instance |-> 2]]
    /\ cut = {} /\ crashes = 0 /\ cuts = 0 /\ conflicts = 0

\* The events of the main thread and the messages of the proxies of i.
Handle(i) ==
    \/ \E p \in Preferred, work \in Works :
          \/ \E S \in SUBSET Instance : OnTick(i, S, p, work)
          \/ \E j \in Instance : OnHandshakeState(i, j, p, work) \/ OnAuthorization(i, j, p, work)
          \/ \E m \in Instance \cup {NoMaster} : EndSync(i, m, p, work)
          \/ \E s \in EndRequests : OnEndRequest(i, s, p, work)
          \/ \E j \in Instance : Publish(i, j, p, work)
    \/ \E j \in Instance :
          \/ OnRemoteTick(i, j) \/ OnInstanceFailure(i, j)
          \/ SendFailure(i, j)
          \/ \E code \in Codes : CheckInstance(i, j, code)
    \/ JobsDone(i) \/ Elapse(i)

Environment ==
    \/ \E i \in Instance : Start(i) \/ Crash(i) \/ End(i)
    \/ \E i, j \in Instance : Cut(i, j) \/ Heal(i, j)
    \/ ConflictAppears \/ ConflictEnds

Next == Environment \/ \E i \in Instance : Handle(i)

Spec == Init /\ [][Next]_vars

\* The timer of supervisord fires for ever and its threads run: a handler that is
\* due for ever is executed.  The conditions of those that evaluate the FSM are
\* spelled out, and so is what their execution changes.  The timers need strong
\* fairness because the bound MaxQueue may defer them.  Supervisor obeys the request to
\* end of FINAL.  No fault has to happen or to end, no supervisord has to restart.
TickDue(i) == Ready(i) /\ \E p \in Preferred, work \in Works :
                             [Ticked(i, Inactive(i), p, work) EXCEPT !.out = <<>>] # Held(i)

FairTick(i) ==
    \/ <>[]~TickDue(i)
    \/ []<><</\ Held(i)' # Held(i)
             /\ \E p \in Preferred, work \in Works : OnTick(i, Inactive(i), p, work)>>_vars

FairAnswer(i, j) ==
    \/ []<>(answer[i][j] = NoAnswer)
    \/ []<><</\ answer[i][j]' # answer[i][j]
             /\ \E p \in Preferred, work \in Works :
                   OnHandshakeState(i, j, p, work) \/ OnAuthorization(i, j, p, work)>>_vars

FairPublish(i, j) ==
    \/ []<>(outbox[i][j] = <<>> \/ ~Reachable(i, j))
    \/ []<><</\ Len(outbox[i][j]') < Len(outbox[i][j])
             /\ \E p \in Preferred, work \in Works : Publish(i, j, p, work)>>_vars

Fairness ==
    \A i \in Instance :
        /\ FairTick(i)
        /\ WF_vars(JobsDone(i)) /\ WF_vars(Elapse(i)) /\ WF_vars(End(i))
        /\ \A j \in Instance :
              /\ SF_vars(OnRemoteTick(i, j))
              /\ WF_vars(\E code \in Codes : CheckInstance(i, j, code))
              /\ WF_vars(SendFailure(i, j)) /\ WF_vars(OnInstanceFailure(i, j))
              /\ FairAnswer(i, j) /\ FairPublish(i, j)

FairSpec == Spec /\ Fairness

-----------------------------------------------------------------------------
(* Safety. *)

\* A Master is chosen among RUNNING instances and stops being one with its first
\* failure: whatever is lost, elected, received or invalidated, in whatever order,
\* nobody follows a Master that it does not see RUNNING (statemodes.py:289, :419).
MasterSeenRunning == \A i \in Instance : Master(i) # NoMaster => Seen(i, Master(i)) = "RUNNING"

\* The local instance never leaves RUNNING once the FSM has left OFF, which
\* statemachine.py:202 calls "the symptom of an internal bug".
LocalRunning == \A i \in Instance : Fsm(i) # "OFF" => Seen(i, i) = "RUNNING"

Leads(i) == Master(i) = i /\ Fsm(i) \in {"DISTRIBUTION", "OPERATION", "CONCILIATION"}

\* Two instances that see each other RUNNING are not both the Master at work: they
\* would both start the applications (statemachine.py:509, statemodes.py:399).
OneLeader ==
    \A i, j \in Instance : i # j /\ Leads(i) /\ Leads(j) =>
        Seen(i, j) # "RUNNING" \/ Seen(j, i) # "RUNNING"

Distributing(i) == Fsm(i) = "DISTRIBUTION" /\ "start" \in jobs[i]

\* Nobody joins the instances to distribute on while a distribution is in progress
\* (statemachine.py:715): it would not be in the plan of the Starter, or it would put
\* the distribution to an end.  The distribution is only given up when Supvisors ends,
\* or when an instance that takes part in it declares another Master, or none.
NoNewcomer ==
    [][\A i, j \in Instance :
          Distributing(i) /\ Seen(i, j) # "RUNNING" /\ Seen(i, j)' = "RUNNING"
          => \/ Fsm(i)' \in {"RESTARTING", "SHUTTING_DOWN", "FINAL"}
             \/ \E k \in Instance \ {i} : Seen(i, k) = "RUNNING" /\ modes'[i][k].master # i]_vars

\* A Master that is still RUNNING, whether the user or an election has chosen it, is
\* only given up for a Master that another RUNNING instance declares: nobody selects
\* it again on its own (statemodes.py:419).
MasterKept ==
    [][\A i, m \in Instance :
          Master(i) = m /\ Seen(i, m) = "RUNNING" /\ Seen(i, m)' = "RUNNING"
          => \/ Master(i)' = m
             \/ /\ Master(i)' # NoMaster
                /\ \E j \in Instance \ {i} :
                      Seen(i, j)' = "RUNNING" /\ modes'[i][j].master = Master(i)']_vars

\* An isolated instance stays isolated until the local Supvisors is stopped,
\* whatever answer or failure is still in flight (instancestatus.py:357).
IsolatedForGood ==
    [][\A i, j \in Instance : Seen(i, j) = "ISOLATED" /\ up[i]' => Seen(i, j)' = "ISOLATED"]_vars

\* The life cycle of an instance in the context of another one, which the handlers
\* above follow without checking it: a transition that is not allowed would raise
\* InvalidTransition and leave the handler half done (instancestatus.py:204).
\* Authorizations that are obsolete, failures and TICKs come in any order, and none
\* of them makes an instance RUNNING, FAILED, STOPPED or ISOLATED but when it may.
Life == INSTANCE InstanceLife WITH
    alive <- up, status <- [i \in Instance |-> modes[i][i].states],
    answered <- [i \in Instance |-> [j \in Instance |-> answer[i][j].code]],
    reported <- failing,
    silent <- [i \in Instance |-> {j \in Instance : ~Ticks(i, j)}],
    restarted <- [i \in Instance |-> {j \in Instance : heard[i][j] < 2}]
LifeCycle == Life!Spec

-----------------------------------------------------------------------------
(* Liveness. *)

Agreed == \E m \in Instance :
    up[m] /\ \A i \in Instance : up[i] => Master(i) = m /\ Fsm(i) = "OPERATION"

\* All the instances being up, they end up in OPERATION behind one Master, for good,
\* once the network is repaired and the conflicts are over (statemachine.py:495).
Convergence ==
    <>[](cut = {} /\ ~Conflicting /\ \A i \in Instance : up[i]) => <>[]Agreed

\* The instances left of a cluster at work do so too, when the Master is lost.  (The
\* number of crashes is bounded.)
Succession == <>[](\E i \in Instance : up[i]) => <>[]Agreed

\* A lost instance is invalidated, whatever the local instance was doing with it.
Detection ==
    \A i \in Instance : \A j \in Instance \ {i} :
        up[i] /\ ~Reachable(i, j) ~> ~up[i] \/ Reachable(i, j) \/ ~Active(i, j)

\* A handshake never hangs: the remote instance gets RUNNING, or is given up until
\* its next TICK.
HandshakeEnds ==
    \A i, j \in Instance :
        Seen(i, j) \in {"CHECKING", "CHECKED"} ~> Seen(i, j) \in {"RUNNING", "STOPPED", "ISOLATED"}

\* An instance that has started to end does end, whatever happens to the Master and
\* to the jobs it waits for.
EndReached ==
    \A i \in Instance : Fsm(i) \in {"RESTARTING", "SHUTTING_DOWN"} ~> Fsm(i) = "FINAL" \/ ~up[i]

\* The failure strategy is applied when an instance of supvisors_list is missing,
\* with the STRICT option, unless it comes back (statemachine.py:430).
StrategyApplied ==
    \A i \in Instance :
        Fsm(i) \in WorkingStates /\ (\E j \in InitialInstance : Seen(i, j) # "RUNNING") ~>
            \/ ~up[i] \/ \A j \in InitialInstance : Seen(i, j) = "RUNNING"
            \/ FailureStrategy = "RESYNC" /\ Fsm(i) = "SYNCHRONIZATION"
            \/ FailureStrategy = "SHUTDOWN" /\ Fsm(i) = "FINAL"
=============================================================================
