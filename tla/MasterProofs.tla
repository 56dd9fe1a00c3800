---------------------------- MODULE MasterProofs ----------------------------
(***************************************************************************)
(* What a step of StateMachine may do to the Master, to the jobs and to    *)
(* the instances that take part in a distribution.  An evaluation of the   *)
(* FSM is a chain of turns, and the facts below are carried from one turn  *)
(* to the next one: the modes of the RUNNING instances stay as they are,   *)
(* a Master is only replaced by one that they declare, and only the Master *)
(* has jobs.                                                               *)
(***************************************************************************)
EXTENDS StateMachineProofs

\* The modes of the other instances are left alone.
OthersSame(v, w, i) == \A k \in Instance \ {i} : w.modes[k] = v.modes[k]

\* The only thing that changes is the StateModes of i, to m.
Mine(v, w, i, m) == w.modes = [v.modes EXCEPT ![i] = m] /\ w.jobs = v.jobs

\* The modes of i that v holds.
LEMMA SoundParts ==
    ASSUME NEW i \in Instance, NEW v \in Sound(UserSync, i)
    PROVE  /\ v \in SoundView(UserSync) /\ LocalAlive(v, i)
           /\ v.modes \in [Instance -> StateModesRecord]
           /\ v.modes[i].states \in [Instance -> InstanceStates]
           /\ v.modes[i].state \in FsmStates
           /\ v.modes[i].master \in Instance \cup {NoMaster}
           /\ v.jobs \in SUBSET {"start", "stop"}
BY DEF Sound, SoundView, Declared, StateModesRecord

\* set_master, whatever the Master is.
LEMMA SetMasterFrame ==
    ASSUME NEW i \in Instance, NEW v \in Sound(UserSync, i), NEW m
    PROVE  Mine(v, SetMaster(v, i, m), i, [v.modes[i] EXCEPT !.master = m])
<1>1. v \in SoundView(UserSync) /\ v.modes \in [Instance -> StateModesRecord]
  BY SoundParts
<1>2. CASE v.modes[i].master = m
  BY <1>1, <1>2 DEF SetMaster, Mine, StateModesRecord
<1>3. CASE v.modes[i].master # m
  <2> DEFINE w == [v EXCEPT !.modes[i].master = m]
  <2>1. Mine(v, w, i, [v.modes[i] EXCEPT !.master = m])
    BY <1>1 DEF Mine, SoundView
  <2>2. PublishStatus(w, i).modes = w.modes /\ PublishStatus(w, i).jobs = w.jobs
    BY <1>1 DEF PublishStatus, SoundView
  <2> QED BY <1>3, <2>1, <2>2 DEF SetMaster, Mine
<1> QED BY <1>2, <1>3

\* set_state.
LEMMA SetStateFrame ==
    ASSUME NEW i \in Instance, NEW v \in Sound(UserSync, i), NEW s
    PROVE  Mine(v, SetState(v, i, s), i, [v.modes[i] EXCEPT !.state = s])
<1>1. v \in SoundView(UserSync) /\ v.modes \in [Instance -> StateModesRecord]
  BY SoundParts
<1>2. CASE v.modes[i].state = s
  BY <1>1, <1>2 DEF SetState, Mine, StateModesRecord
<1>3. CASE v.modes[i].state # s
  <2> DEFINE w == [v EXCEPT !.modes[i].state = s]
  <2>1. Mine(v, w, i, [v.modes[i] EXCEPT !.state = s])
    BY <1>1 DEF Mine, SoundView
  <2>2. PublishStatus(w, i).modes = w.modes /\ PublishStatus(w, i).jobs = w.jobs
    BY <1>1 DEF PublishStatus, SoundView
  <2> QED BY <1>3, <2>1, <2>2 DEF SetState, Mine
<1> QED BY <1>2, <1>3

\* The setters of degraded_mode and of the jobs.
LEMMA SetDegradedFrame ==
    ASSUME NEW i \in Instance, NEW v \in Sound(UserSync, i), NEW d
    PROVE  SetDegraded(v, i, d).modes = v.modes /\ SetDegraded(v, i, d).jobs = v.jobs
BY SoundParts DEF SetDegraded, PublishStatus, SoundView

LEMMA SetJobsFrame ==
    ASSUME NEW i \in Instance, NEW v \in Sound(UserSync, i), NEW js
    PROVE  SetJobs(v, i, js).modes = v.modes /\ SetJobs(v, i, js).jobs = js
BY SoundParts DEF SetJobs, PublishStatus, SoundView

\* What Mine means for each part of the view.
LEMMA MineParts ==
    ASSUME NEW i \in Instance, NEW v \in Sound(UserSync, i), NEW w, NEW m, Mine(v, w, i, m)
    PROVE  w.modes[i] = m /\ OthersSame(v, w, i) /\ w.jobs = v.jobs
BY SoundParts DEF Mine, OthersSame

-----------------------------------------------------------------------------
(* The instances that are invalidated and activated. *)

\* invalidate_failed only touches the instances that are FAILED, and the Master if
\* it is one of them.
LEMMA InvalidateFailedFrame ==
    ASSUME NEW i \in Instance, NEW v \in Sound(UserSync, i)
    PROVE  LET w == InvalidateFailed(v, i)
           IN  /\ w.jobs = v.jobs /\ w.modes[i].state = v.modes[i].state
               /\ w.modes[i].master = IF v.modes[i].master \in Failed(v, i) THEN NoMaster
                                      ELSE v.modes[i].master
               /\ \A k \in Instance :
                     /\ w.modes[i].states[k] # "FAILED"
                     /\ v.modes[i].states[k] # "FAILED" =>
                           /\ w.modes[i].states[k] = v.modes[i].states[k]
                           /\ k # i => w.modes[k] = v.modes[k]
<1> DEFINE S == Failed(v, i)
           states == [k \in Instance |-> IF k \in S THEN InvalidState(v, i, k, FALSE)
                                         ELSE v.modes[i].states[k]]
           m == [v.modes[i] EXCEPT !.states = states]
           all == [j \in Instance |-> IF j = i THEN m ELSE IF j \in S THEN FreshModes ELSE v.modes[j]]
           v1 == [v EXCEPT !.modes = all, !.mark = @ \/ S # {}]
           w == InvalidateFailed(v, i)
<1>1. v \in SoundView(UserSync) /\ v.modes \in [Instance -> StateModesRecord]
  BY SoundParts
<1>2. \A k \in Instance : /\ k \in S <=> v.modes[i].states[k] = "FAILED"
                          /\ InvalidState(v, i, k, FALSE) # "FAILED"
  BY DEF Failed, InvalidState
<1>3. w = IF v.modes[i].master \in S THEN SetMaster(v1, i, NoMaster) ELSE v1
  BY DEF InvalidateFailed
<1>4. \A k \in Instance :
         /\ states[k] # "FAILED"
         /\ v.modes[i].states[k] # "FAILED" => /\ states[k] = v.modes[i].states[k]
                                               /\ k # i => all[k] = v.modes[k]
  BY <1>2
<1> HIDE DEF S
<1>5. m.states = states /\ m.state = v.modes[i].state /\ m.master = v.modes[i].master
  BY <1>1 DEF StateModesRecord
<1>6. all[i] = m
  OBVIOUS
<1> HIDE DEF states, m
<1>7. v1.modes = all /\ v1.jobs = v.jobs
  BY <1>1 DEF SoundView
<1>8. CASE v.modes[i].master \notin S
  BY <1>3, <1>4, <1>5, <1>6, <1>7, <1>8 DEF S
<1>9. CASE v.modes[i].master \in S
  <2> DEFINE x == [v1 EXCEPT !.modes[i].master = NoMaster]
  <2>1. v.modes[i].master # NoMaster
    BY <1>9, NoMasterAssumption DEF S, Failed
  <2>2. w = PublishStatus(x, i)
    BY <1>3, <1>5, <1>6, <1>7, <1>9, <2>1 DEF SetMaster
  <2>3. w.modes = x.modes /\ w.jobs = x.jobs
    <3>1. DOMAIN x = DOMAIN v /\ "out" \in DOMAIN v
      BY <1>1 DEF SoundView
    <3> HIDE DEF x
    <3> QED BY <2>2, <3>1 DEF PublishStatus
  <2>4. /\ \A k \in Instance \ {i} : x.modes[k] = all[k]
        /\ x.modes[i] = [m EXCEPT !.master = NoMaster]
        /\ x.jobs = v.jobs
    BY <1>1, <1>6, <1>7 DEF SoundView
  <2>5. x.modes[i].states = states /\ x.modes[i].state = v.modes[i].state /\ x.modes[i].master = NoMaster
    <3>1. m \in [state : FsmStates, master : Instance \cup {NoMaster}, states : {states}]
      BY <1>1 DEF m, StateModesRecord
    <3> QED BY <1>5, <2>4, <3>1
  <2> HIDE DEF x, w, v1, all
  <2> QED BY <1>4, <1>9, <2>3, <2>4, <2>5 DEF w, S
<1> QED BY <1>8, <1>9

\* _activate_instances leaves the Master, the jobs and the others alone, and does
\* nothing in DISTRIBUTION.
LEMMA ActivateInstancesFrame ==
    ASSUME NEW i \in Instance, NEW v \in Sound(UserSync, i)
    PROVE  LET w == ActivateInstances(v, i)
           IN  /\ OthersSame(v, w, i) /\ w.jobs = v.jobs
               /\ w.modes[i].state = v.modes[i].state /\ w.modes[i].master = v.modes[i].master
               /\ \A k \in Instance :
                     w.modes[i].states[k] = IF /\ v.modes[i].state # "DISTRIBUTION"
                                               /\ v.modes[i].states[k] = "CHECKED"
                                            THEN "RUNNING" ELSE v.modes[i].states[k]
<1> DEFINE states == [k \in Instance |-> IF k \in Checked(v, i) THEN "RUNNING"
                                         ELSE v.modes[i].states[k]]
           m == [v.modes[i] EXCEPT !.states = states]
           w == ActivateChecked(v, i)
<1>1. v \in SoundView(UserSync) /\ v.modes \in [Instance -> StateModesRecord]
  BY SoundParts
<1>2. Mine(v, w, i, m)
  BY <1>1 DEF Mine, ActivateChecked, SoundView
<1>3. m.states = states /\ m.state = v.modes[i].state /\ m.master = v.modes[i].master
  <2> HIDE DEF states
  <2> QED BY <1>1 DEF StateModesRecord
<1>4. \A k \in Instance : states[k] = IF v.modes[i].states[k] = "CHECKED" THEN "RUNNING"
                                      ELSE v.modes[i].states[k]
  BY DEF Checked
<1> HIDE DEF m, w, states
<1>5. w.modes[i] = m /\ OthersSame(v, w, i) /\ w.jobs = v.jobs
  BY <1>2, MineParts
<1>6. CASE v.modes[i].state = "DISTRIBUTION"
  BY <1>6 DEF ActivateInstances, OthersSame
<1>7. CASE v.modes[i].state # "DISTRIBUTION"
  BY <1>3, <1>4, <1>5, <1>7 DEF ActivateInstances, w
<1> QED BY <1>6, <1>7

\* What is left of v once the instances are invalidated and activated.
Activated(v, i) == ActivateInstances(InvalidateFailed(v, i), i)

\* The instances that are not FAILED keep what they declare, and the Master is kept
\* too unless it is FAILED.  Nobody is RUNNING that was not before, in DISTRIBUTION.
LEMMA ActivatedFrame ==
    ASSUME NEW i \in Instance, NEW v \in Sound(UserSync, i)
    PROVE  LET a == Activated(v, i)
           IN  /\ a \in Sound(UserSync, i) /\ a.jobs = v.jobs
               /\ a.modes[i].state = v.modes[i].state
               /\ a.modes[i].master = v.modes[i].master \/ v.modes[i].states[v.modes[i].master] = "FAILED"
               /\ a.modes[i].master \in {v.modes[i].master, NoMaster}
               /\ \A k \in Instance :
                     /\ a.modes[i].states[k] # "FAILED"
                     /\ v.modes[i].states[k] = "RUNNING" =>
                           /\ a.modes[i].states[k] = "RUNNING"
                           /\ k # i => a.modes[k] = v.modes[k]
                     /\ v.modes[i].state = "DISTRIBUTION" /\ a.modes[i].states[k] = "RUNNING"
                           => v.modes[i].states[k] = "RUNNING"
<1> DEFINE x == InvalidateFailed(v, i)
           a == ActivateInstances(x, i)
<1>1. x \in Sound(UserSync, i)
  BY InvalidateFailedSound
<1>2. a \in Sound(UserSync, i) /\ Advance(v, a, i)
  BY <1>1, InvalidateFailedSound, ActivateInstancesSound, AdvanceTransitive
<1>3. /\ x.jobs = v.jobs /\ x.modes[i].state = v.modes[i].state
      /\ x.modes[i].master = IF v.modes[i].master \in Failed(v, i) THEN NoMaster
                             ELSE v.modes[i].master
      /\ \A k \in Instance :
            /\ x.modes[i].states[k] # "FAILED"
            /\ v.modes[i].states[k] # "FAILED" =>
                  /\ x.modes[i].states[k] = v.modes[i].states[k]
                  /\ k # i => x.modes[k] = v.modes[k]
  BY InvalidateFailedFrame
<1> HIDE DEF x
<1>4. /\ OthersSame(x, a, i) /\ a.jobs = x.jobs
      /\ a.modes[i].state = x.modes[i].state /\ a.modes[i].master = x.modes[i].master
      /\ \A k \in Instance :
            a.modes[i].states[k] = IF /\ x.modes[i].state # "DISTRIBUTION"
                                      /\ x.modes[i].states[k] = "CHECKED"
                                   THEN "RUNNING" ELSE x.modes[i].states[k]
  BY <1>1, ActivateInstancesFrame
<1> HIDE DEF a
<1>5. a.modes[i].master = v.modes[i].master \/ v.modes[i].states[v.modes[i].master] = "FAILED"
  BY <1>3, <1>4 DEF Failed
<1>6. ASSUME NEW k \in Instance
      PROVE  /\ a.modes[i].states[k] # "FAILED"
             /\ v.modes[i].states[k] = "RUNNING" =>
                   /\ a.modes[i].states[k] = "RUNNING"
                   /\ k # i => a.modes[k] = v.modes[k]
             /\ v.modes[i].state = "DISTRIBUTION" /\ a.modes[i].states[k] = "RUNNING"
                   => v.modes[i].states[k] = "RUNNING"
  <2>1. v.modes[i].states[k] = "RUNNING" => a.modes[i].states[k] = "RUNNING"
    BY <1>2 DEF Advance
  <2>2. a.modes[i].states[k] # "FAILED"
    BY <1>3, <1>4
  <2>3. v.modes[i].states[k] = "RUNNING" /\ k # i => a.modes[k] = v.modes[k]
    BY <1>3, <1>4 DEF OthersSame
  <2>4. v.modes[i].state = "DISTRIBUTION" /\ a.modes[i].states[k] = "RUNNING"
           => v.modes[i].states[k] = "RUNNING"
    BY <1>2, <1>3, <1>4 DEF Advance
  <2> QED BY <2>1, <2>2, <2>3, <2>4
<1> QED BY <1>2, <1>3, <1>4, <1>5, <1>6 DEF Activated, x, a

-----------------------------------------------------------------------------
(* The shape of an evaluation. *)

\* The Masters that may be selected: one of those declared, if any.
Elected(v, i) ==
    LET declared == MasterIdentifiers(v, i) \ {NoMaster}
    IN  IF declared # {} THEN declared ELSE Instance

\* What an evaluation makes of the view a where the instances are activated: it may
\* select a Master in SYNCHRONIZATION and ELECTION, and give jobs to the Master at work.
Shape(a, w, i) ==
    /\ OthersSame(a, w, i)
    /\ w.modes[i].states = a.modes[i].states /\ w.modes[i].state = a.modes[i].state
    /\ \/ w.modes[i].master = a.modes[i].master
       \/ /\ a.modes[i].state \in {"SYNCHRONIZATION", "ELECTION"}
          /\ w.modes[i].master \in Elected(a, i)
    /\ \/ w.jobs = a.jobs
       \/ a.modes[i].state \in {"DISTRIBUTION", "OPERATION", "CONCILIATION"} /\ IsMaster(a, i)

\* Another view where the modes and the jobs are the same, or the jobs of the Master.
LEMMA ShapeSame ==
    ASSUME NEW i, NEW a, NEW w, w.modes = a.modes,
           \/ w.jobs = a.jobs
           \/ a.modes[i].state \in {"DISTRIBUTION", "OPERATION", "CONCILIATION"} /\ IsMaster(a, i)
    PROVE  Shape(a, w, i)
BY DEF Shape, OthersSame

\* Another view where a Master is selected.
LEMMA ShapeSelected ==
    ASSUME NEW i \in Instance, NEW a \in Sound(UserSync, i), NEW w, NEW n \in Elected(a, i),
           a.modes[i].state \in {"SYNCHRONIZATION", "ELECTION"},
           w.modes = SetMaster(a, i, n).modes, w.jobs = a.jobs
    PROVE  Shape(a, w, i)
<1> DEFINE m == [a.modes[i] EXCEPT !.master = n]
           x == SetMaster(a, i, n)
<1>1. x.modes[i] = m /\ OthersSame(a, x, i)
  BY SetMasterFrame, MineParts
<1>2. m.master = n /\ m.state = a.modes[i].state /\ m.states = a.modes[i].states
  BY SoundParts DEF StateModesRecord
<1> HIDE DEF x
<1> QED BY <1>1, <1>2 DEF Shape, OthersSame, x

\* accept_master and select_master.
LEMMA SelectionElected ==
    ASSUME NEW i \in Instance, NEW v \in Sound(UserSync, i), NEW p
    PROVE  /\ v.modes[i].states[i] = "RUNNING" =>
                 \E n \in Elected(v, i) : SelectMaster(v, i) = SetMaster(v, i, n)
           /\ \/ AcceptMaster(v, i, p) = v
              \/ \E n \in Elected(v, i) : AcceptMaster(v, i, p) = SetMaster(v, i, n)
<1> DEFINE masters == MasterIdentifiers(v, i) \ {NoMaster}
<1>1. masters \subseteq Instance /\ Running(v, i) \subseteq Instance
  BY SoundParts DEF MasterIdentifiers, Running, RunningIdentifiers, StateModesRecord
<1>2. \A S \in SUBSET Instance : S # {} => Lowest(S) \in S
  BY LowestMember
<1>3. ASSUME v.modes[i].states[i] = "RUNNING"
      PROVE  \E n \in Elected(v, i) : SelectMaster(v, i) = SetMaster(v, i, n)
  <2>1. Running(v, i) # {}
    BY <1>3 DEF Running, RunningIdentifiers
  <2>2. Candidates(v, i) # {} /\ Candidates(v, i) \subseteq Elected(v, i)
    BY <1>1, <2>1 DEF Candidates, Elected
  <2>3. Elected(v, i) \subseteq Instance
    BY <1>1 DEF Elected
  <2> QED BY <1>2, <2>2, <2>3 DEF SelectMaster
<1>4. CASE masters = {}
  BY <1>3, <1>4 DEF AcceptMaster
<1>5. CASE masters # {}
  <2>1. AcceptMaster(v, i, p) = SetMaster(v, i, IF p \in masters THEN p ELSE Lowest(masters))
    BY <1>5 DEF AcceptMaster
  <2>2. (IF p \in masters THEN p ELSE Lowest(masters)) \in masters
    BY <1>1, <1>2, <1>5
  <2>3. Elected(v, i) = masters
    BY <1>5 DEF Elected
  <2> QED BY <1>3, <2>1, <2>2, <2>3
<1> QED BY <1>4, <1>5

\* _master_next changes the jobs only, and stays in DISTRIBUTION as long as there are
\* processes to start.
LEMMA MasterNextShape ==
    ASSUME NEW i \in Instance, NEW v \in Sound(UserSync, i), NEW lost, NEW work,
           v.modes[i].state \in {"DISTRIBUTION", "OPERATION", "CONCILIATION"}
    PROVE  LET r == MasterNext(v, i, lost, work)
           IN  /\ r.v.modes = v.modes
               /\ r.next \in {"DISTRIBUTION", "OPERATION", "CONCILIATION"}
               /\ v.modes[i].state = "DISTRIBUTION" /\ "start" \in v.jobs =>
                     "start" \in r.v.jobs /\ r.next = "DISTRIBUTION"
<1> DEFINE fix == IF lost # {} THEN SetJobs(v, i, v.jobs \cup work) ELSE v
<1>1. fix.modes = v.modes /\ v.jobs \subseteq fix.jobs
  BY SetJobsFrame
<1>2. SetJobs(v, i, work).modes = v.modes
  BY SetJobsFrame
<1> HIDE DEF fix
<1>3. CASE v.modes[i].state = "DISTRIBUTION"
  <2>1. MasterNext(v, i, lost, work) =
           Suggest(fix, IF "start" \in fix.jobs THEN "DISTRIBUTION" ELSE "OPERATION")
    BY <1>3 DEF MasterNext, fix
  <2> QED BY <1>1, <1>3, <2>1 DEF Suggest
<1>4. CASE v.modes[i].state = "OPERATION"
  <2>1. MasterNext(v, i, lost, work) =
           Suggest(fix, IF fix.jobs = {} /\ Conflicting THEN "CONCILIATION" ELSE "OPERATION")
    BY <1>4 DEF MasterNext, fix
  <2> QED BY <1>1, <1>4, <2>1 DEF Suggest
<1>5. CASE v.modes[i].state = "CONCILIATION"
  <2>1. MasterNext(v, i, lost, work) = ConciliationNext(v, i, work)
    BY <1>5 DEF MasterNext
  <2> QED BY <1>2, <1>5, <2>1 DEF ConciliationNext, Suggest
<1> QED BY <1>3, <1>4, <1>5

\* What an evaluation returns.  OFF is only suggested in OFF and to a slave, and a
\* Master that distributes goes on unless the strategy puts an end to Supvisors or
\* the Masters declared differ.
LEMMA EvaluateShape ==
    ASSUME NEW i \in Instance, NEW v \in Sound(UserSync, i), NEW p, NEW work, Parameters(p, work)
    PROVE  LET a == Activated(v, i)
               r == Evaluate(v, i, p, work)
           IN  /\ Shape(a, r.v, i)
               /\ r.next = "OFF" =>
                     /\ r.v.jobs = a.jobs /\ r.v.modes[i].master = a.modes[i].master
                     /\ v.modes[i].state = "OFF" \/ ~IsMaster(a, i)
               /\ v.modes[i].state = "DISTRIBUTION" /\ IsMaster(a, i) /\ "start" \in a.jobs =>
                     /\ "start" \in r.v.jobs
                     /\ \/ r.next \in {"DISTRIBUTION", "SYNCHRONIZATION", "SHUTTING_DOWN"}
                        \/ r.next = "ELECTION" /\ ~CheckMaster(a, i)
<1> DEFINE s      == v.modes[i].state
           lost   == Failed(v, i)
           a      == ActivateInstances(InvalidateFailed(v, i), i)
           local  == a.modes[i].states[i] = "RUNNING"
           S      == StableIdentifiers(a, i)
           w      == IF local THEN SetDegraded(a, i, Degraded(S)) ELSE a
           broken == IF local THEN Consistence(w, i, S, lost) ELSE "OFF"
           r      == Evaluate(v, i, p, work)
<1>a. a = Activated(v, i)
  BY DEF Activated
<1> SUFFICES
      /\ Shape(a, r.v, i)
      /\ r.next = "OFF" =>
            /\ r.v.jobs = a.jobs /\ r.v.modes[i].master = a.modes[i].master
            /\ s = "OFF" \/ ~IsMaster(a, i)
      /\ s = "DISTRIBUTION" /\ IsMaster(a, i) /\ "start" \in a.jobs =>
            /\ "start" \in r.v.jobs
            /\ \/ r.next \in {"DISTRIBUTION", "SYNCHRONIZATION", "SHUTTING_DOWN"}
               \/ r.next = "ELECTION" /\ ~CheckMaster(a, i)
  BY <1>a
<1>1. a \in Sound(UserSync, i) /\ a.modes[i].state = s
  BY <1>a, ActivatedFrame
<1>2. s \in FsmStates /\ (s # "OFF" => local)
  BY <1>1, SoundParts DEF LocalAlive
<1> HIDE DEF a
<1>3. Degraded(S) \in BOOLEAN
  BY DEF Degraded
<1>4. w \in Sound(UserSync, i) /\ w.modes = a.modes /\ w.jobs = a.jobs
  BY <1>1, <1>3, SetDegradedSound, SetDegradedFrame, UserSyncBoolean
<1>5. /\ local => broken \in {"SYNCHRONIZATION", "SHUTTING_DOWN", "ELECTION", "NONE"}
      /\ broken = "ELECTION" => ~CheckMaster(w, i)
  BY DEF Consistence
<1> HIDE DEF w, broken, lost
<1>6. /\ IsMaster(w, i) <=> IsMaster(a, i)
      /\ CheckMaster(w, i) <=> CheckMaster(a, i)
      /\ Elected(w, i) = Elected(a, i)
  <2>1. Running(w, i) = Running(a, i) /\ MasterIdentifiers(w, i) = MasterIdentifiers(a, i)
    BY <1>4 DEF MasterIdentifiers, Running
  <2> QED BY <1>4, <2>1 DEF IsMaster, CheckMaster, Elected
<1>7. ASSUME NEW n, n # "OFF" \/ s = "OFF" \/ ~IsMaster(a, i), s # "DISTRIBUTION",
             r = Suggest(a, n) \/ r = Suggest(w, n)
      PROVE  /\ Shape(a, r.v, i)
             /\ r.next = "OFF" =>
                   /\ r.v.jobs = a.jobs /\ r.v.modes[i].master = a.modes[i].master
                   /\ s = "OFF" \/ ~IsMaster(a, i)
  BY <1>4, <1>7, ShapeSame DEF Suggest
<1>8. CASE s = "OFF"
  <2>1. r = Suggest(a, IF local THEN "SYNCHRONIZATION" ELSE "OFF")
    BY <1>8 DEF Evaluate, a
  <2> QED BY <1>7, <1>8, <2>1
<1>9. CASE s = "FINAL"
  <2>1. r = Suggest(a, "NONE")
    BY <1>9 DEF Evaluate, a
  <2> QED BY <1>7, <1>9, <2>1
<1>10. CASE s = "SYNCHRONIZATION"
  <2> DEFINE y == IF "USER" \in SyncOptions THEN AcceptMaster(a, i, p) ELSE a
  <2>1. r = SynchronizationNext(a, i, S, p)
    BY <1>2, <1>10 DEF Evaluate, a
  <2>2. r.v = SetDegraded(y, i, Degraded(S)) /\ r.next \in {"ELECTION", "SYNCHRONIZATION"}
    BY <2>1 DEF SynchronizationNext, Suggest
  <2>3. y \in Sound(UserSync, i)
    BY <1>1, AcceptMasterSound, UserSyncBoolean DEF UserSync, Parameters
  <2>4. y = a \/ \E n \in Elected(a, i) : y = SetMaster(a, i, n)
    BY <1>1, SelectionElected
  <2> HIDE DEF y
  <2>5. r.v.modes = y.modes /\ r.v.jobs = y.jobs
    BY <2>2, <2>3, SetDegradedFrame
  <2>6. CASE y = a
    BY <1>10, <2>2, <2>5, <2>6, ShapeSame
  <2>7. CASE \E n \in Elected(a, i) : y = SetMaster(a, i, n)
    <3>1. PICK n \in Elected(a, i) : y = SetMaster(a, i, n)
      BY <2>7
    <3>2. y.jobs = a.jobs
      BY <1>1, <3>1, SetMasterFrame DEF Mine
    <3>3. Shape(a, r.v, i)
      BY <1>1, <1>10, <2>5, <3>1, <3>2, ShapeSelected
    <3> QED BY <1>10, <2>2, <3>3
  <2> QED BY <2>4, <2>6, <2>7
<1>11. CASE s = "ELECTION"
  <2>1. r = IF broken = "NONE" THEN ElectionNext(w, i, S) ELSE Suggest(w, broken)
    BY <1>11 DEF Evaluate, a, w, broken, lost
  <2>2. CASE broken # "NONE"
    BY <1>2, <1>5, <1>7, <1>11, <2>1, <2>2
  <2>3. CASE broken = "NONE"
    <3>1. \/ r = Suggest(w, "ELECTION") \/ r = Suggest(w, "DISTRIBUTION")
          \/ r = Suggest(SelectMaster(w, i), "ELECTION")
      BY <2>1, <2>3 DEF ElectionNext
    <3>2. CASE r = Suggest(SelectMaster(w, i), "ELECTION")
      <4>1. PICK n \in Elected(a, i) : SelectMaster(w, i) = SetMaster(w, i, n)
        BY <1>2, <1>4, <1>6, <1>11, SelectionElected
      <4>2. SetMaster(w, i, n).modes = SetMaster(a, i, n).modes /\ SetMaster(w, i, n).jobs = a.jobs
        <5>1. Mine(w, SetMaster(w, i, n), i, [w.modes[i] EXCEPT !.master = n])
          BY <1>4, SetMasterFrame
        <5>2. Mine(a, SetMaster(a, i, n), i, [a.modes[i] EXCEPT !.master = n])
          BY <1>1, SetMasterFrame
        <5> QED BY <1>4, <5>1, <5>2 DEF Mine
      <4>3. r.v.modes = SetMaster(a, i, n).modes /\ r.v.jobs = a.jobs /\ r.next = "ELECTION"
        BY <3>2, <4>1, <4>2 DEF Suggest
      <4>4. Shape(a, r.v, i)
        BY <1>1, <1>11, <4>3, ShapeSelected
      <4> QED BY <1>11, <4>3, <4>4
    <3> QED BY <1>7, <1>11, <3>1, <3>2
  <2> QED BY <2>2, <2>3
<1>12. CASE s \in {"OPERATION", "CONCILIATION", "DISTRIBUTION"}
  <2>1. r = IF s # "DISTRIBUTION" /\ Checked(v, i) # {} THEN Suggest(a, "ELECTION")
            ELSE IF broken # "NONE" THEN Suggest(w, broken)
            ELSE IF IsMaster(w, i) THEN MasterNext(w, i, lost, work)
            ELSE Suggest(w, MasterState(w, i))
    BY <1>12 DEF Evaluate, a, w, broken, lost
  <2>2. CASE r = Suggest(a, "ELECTION") /\ s # "DISTRIBUTION"
    BY <1>7, <2>2
  <2>3. CASE r = Suggest(w, broken) /\ broken # "NONE"
    <3>1. r.v = w /\ r.next = broken
      BY <2>3 DEF Suggest
    <3>2. Shape(a, r.v, i)
      BY <1>4, <3>1, ShapeSame
    <3>3. broken \in {"SYNCHRONIZATION", "SHUTTING_DOWN", "ELECTION"}
      BY <1>2, <1>5, <1>12, <2>3
    <3> QED BY <1>4, <1>5, <1>6, <3>1, <3>2, <3>3
  <2>4. CASE IsMaster(w, i) /\ r = MasterNext(w, i, lost, work)
    <3>1. /\ r.v.modes = w.modes /\ r.next \in {"DISTRIBUTION", "OPERATION", "CONCILIATION"}
          /\ s = "DISTRIBUTION" /\ "start" \in w.jobs => "start" \in r.v.jobs /\ r.next = "DISTRIBUTION"
      BY <1>1, <1>4, <1>12, <2>4, MasterNextShape
    <3>2. Shape(a, r.v, i)
      BY <1>1, <1>4, <1>6, <1>12, <2>4, <3>1, ShapeSame
    <3> QED BY <1>4, <3>1, <3>2
  <2>5. CASE ~IsMaster(w, i) /\ r = Suggest(w, MasterState(w, i))
    <3>1. r.v = w
      BY <2>5 DEF Suggest
    <3>2. Shape(a, r.v, i)
      BY <1>4, <3>1, ShapeSame
    <3> QED BY <1>4, <1>6, <2>5, <3>1, <3>2
  <2> QED BY <2>1, <2>2, <2>3, <2>4, <2>5
<1>13. CASE s \in {"RESTARTING", "SHUTTING_DOWN"}
  <2>1. r = Suggest(w, IF broken = "NONE" /\ Lasts(w, i) THEN s ELSE "FINAL")
    BY <1>13 DEF Evaluate, a, w, broken, lost
  <2> QED BY <1>7, <1>13, <2>1
<1> HIDE DEF r, S
<1> QED BY <1>2, <1>8, <1>9, <1>10, <1>11, <1>12, <1>13 DEF FsmStates, r

-----------------------------------------------------------------------------
(* What is carried from turn to turn. *)

\* Only the Master has jobs, once the FSM is past ELECTION.
JobsOfMaster(v, i) ==
    v.jobs # {} => /\ v.modes[i].master = i
                   /\ v.modes[i].state \notin {"OFF", "SYNCHRONIZATION", "ELECTION"}

\* The Master is m, or one that another RUNNING instance declares.
Loyal(v, i, m) ==
    /\ v.modes[i].states[m] = "RUNNING"
    /\ v.modes[i].master \in Instance /\ v.modes[i].states[v.modes[i].master] # "FAILED"
    /\ \/ v.modes[i].master = m
       \/ \E j \in Running(v, i) \ {i} : v.modes[j].master = v.modes[i].master

\* i is the Master, and distributes.
Distributes(v, i) == v.modes[i].state = "DISTRIBUTION" /\ IsMaster(v, i) /\ "start" \in v.jobs

Endings == {"RESTARTING", "SHUTTING_DOWN", "FINAL"}

\* Since v, i has ended, or one of the instances does not follow i any more, or i
\* goes on with the instances that it had in v.
Spread(v, r, i) ==
    \/ r.v.modes[i].state \in Endings
    \/ \E k \in Instance \ {i} : /\ v.modes[i].states[k] = "RUNNING"
                                 /\ r.v.modes[i].states[k] = "RUNNING" /\ r.v.modes[k].master # i
    \/ /\ Distributes(r.v, i)
       /\ \A k \in Instance : r.v.modes[i].states[k] = "RUNNING" => v.modes[i].states[k] = "RUNNING"
       /\ r.next \in {"NONE", "DISTRIBUTION", "SYNCHRONIZATION", "RESTARTING", "SHUTTING_DOWN"}

\* r is what the turns may have made of v.
Turned(i, v, r) ==
    /\ Outcome(i, v, r)
    /\ JobsOfMaster(v, i) => JobsOfMaster(r.v, i) /\ (r.next = "OFF" => r.v.jobs = {})
    /\ \A m \in Instance : Loyal(v, i, m) => Loyal(r.v, i, m)
    /\ Distributes(v, i) => Spread(v, r, i)

\* The RUNNING instances stay so through an evaluation, with what they declare, and
\* the FSM does not change state.
LEMMA EvaluateKeeps ==
    ASSUME NEW i \in Instance, NEW v \in Sound(UserSync, i), NEW p, NEW work, Parameters(p, work)
    PROVE  LET w == Evaluate(v, i, p, work).v
           IN  /\ w.modes[i].state = v.modes[i].state
               /\ \A k \in Instance : /\ v.modes[i].states[k] = "RUNNING" =>
                                            /\ w.modes[i].states[k] = "RUNNING"
                                            /\ k # i => w.modes[k] = v.modes[k]
                                      /\ w.modes[i].states[k] # "FAILED"
<1> DEFINE a == Activated(v, i)
           w == Evaluate(v, i, p, work).v
<1>1. Shape(a, w, i)
  BY EvaluateShape
<1> HIDE DEF w
<1>2. /\ a.modes[i].state = v.modes[i].state
      /\ \A k \in Instance :
            /\ a.modes[i].states[k] # "FAILED"
            /\ v.modes[i].states[k] = "RUNNING" =>
                  /\ a.modes[i].states[k] = "RUNNING"
                  /\ k # i => a.modes[k] = v.modes[k]
  BY ActivatedFrame
<1> HIDE DEF a
<1>3. w.modes[i].state = v.modes[i].state
  BY <1>1, <1>2 DEF Shape
<1>4. ASSUME NEW k \in Instance
      PROVE  /\ v.modes[i].states[k] = "RUNNING" =>
                   /\ w.modes[i].states[k] = "RUNNING"
                   /\ k # i => w.modes[k] = v.modes[k]
             /\ w.modes[i].states[k] # "FAILED"
  BY <1>1, <1>2 DEF Shape, OthersSame
<1> QED BY <1>3, <1>4 DEF w

\* Only the Master gets jobs from an evaluation.
LEMMA EvaluateJobs ==
    ASSUME NEW i \in Instance, NEW v \in Sound(UserSync, i), NEW p, NEW work, Parameters(p, work),
           JobsOfMaster(v, i)
    PROVE  LET r == Evaluate(v, i, p, work)
           IN  JobsOfMaster(r.v, i) /\ (r.next = "OFF" => r.v.jobs = {})
<1> DEFINE a == Activated(v, i)
           r == Evaluate(v, i, p, work)
<1>1. /\ Shape(a, r.v, i)
      /\ r.next = "OFF" => /\ r.v.jobs = a.jobs
                           /\ v.modes[i].state = "OFF" \/ ~IsMaster(a, i)
  BY EvaluateShape
<1>2. /\ a.jobs = v.jobs /\ a.modes[i].state = v.modes[i].state
      /\ a.modes[i].master = v.modes[i].master \/ v.modes[i].states[v.modes[i].master] = "FAILED"
  BY ActivatedFrame
<1> HIDE DEF a, r
<1>3. v.jobs # {} => v.modes[i].states[i] = "RUNNING"
  BY SoundParts DEF JobsOfMaster, LocalAlive
<1>4. JobsOfMaster(a, i)
  BY <1>2, <1>3 DEF JobsOfMaster
<1>5. JobsOfMaster(r.v, i)
  BY <1>1, <1>4 DEF Shape, JobsOfMaster, IsMaster
<1>6. r.next = "OFF" => r.v.jobs = {}
  BY <1>1, <1>2, <1>4 DEF JobsOfMaster, IsMaster
<1> QED BY <1>5, <1>6 DEF r

\* A Master that is lost by nobody is only replaced by one that is declared.
LEMMA EvaluateLoyal ==
    ASSUME NEW i \in Instance, NEW v \in Sound(UserSync, i), NEW p, NEW work, Parameters(p, work),
           NEW m \in Instance, Loyal(v, i, m)
    PROVE  Loyal(Evaluate(v, i, p, work).v, i, m)
<1> DEFINE a == Activated(v, i)
           w == Evaluate(v, i, p, work).v
<1>1. Shape(a, w, i)
  BY EvaluateShape
<1>2. /\ w.modes[i].state = v.modes[i].state
      /\ \A k \in Instance : /\ v.modes[i].states[k] = "RUNNING" =>
                                   /\ w.modes[i].states[k] = "RUNNING"
                                   /\ k # i => w.modes[k] = v.modes[k]
                             /\ w.modes[i].states[k] # "FAILED"
  BY EvaluateKeeps
<1> HIDE DEF w
<1>3. a \in Sound(UserSync, i) /\ a.modes[i].state = v.modes[i].state
  BY ActivatedFrame
<1>4. a.modes[i].master = v.modes[i].master
  BY ActivatedFrame DEF Loyal
<1> HIDE DEF a
<1>5. ASSUME w.modes[i].master = a.modes[i].master
      PROVE  Loyal(w, i, m)
  BY <1>2, <1>4, <1>5 DEF Loyal, Running, RunningIdentifiers
<1>6. ASSUME NEW j \in Running(a, i), w.modes[i].master = a.modes[j].master,
             w.modes[i].master \in Instance
      PROVE  Loyal(w, i, m)
  <2>1. CASE j = i
    BY <1>5, <1>6, <2>1
  <2>2. CASE j # i
    <3>1. j \in Running(w, i) \ {i} /\ w.modes[j] = a.modes[j]
      BY <1>1, <2>2 DEF Running, RunningIdentifiers, Shape, OthersSame
    <3> QED BY <1>2, <1>6, <3>1 DEF Loyal
  <2> QED BY <2>1, <2>2
<1>7. CASE a.modes[i].state \in {"SYNCHRONIZATION", "ELECTION"} /\ w.modes[i].master \in Elected(a, i)
  <2>1. i \in Running(a, i)
    BY <1>3, <1>7, SoundParts DEF LocalAlive, Running, RunningIdentifiers
  <2>2. a.modes[i].master \in Instance
    BY <1>4 DEF Loyal
  <2>3. Elected(a, i) = MasterIdentifiers(a, i) \ {NoMaster}
    BY <2>1, <2>2, NoMasterAssumption DEF Elected, MasterIdentifiers
  <2>4. PICK j \in Running(a, i) : w.modes[i].master = a.modes[j].master
    BY <1>7, <2>3 DEF MasterIdentifiers
  <2>5. a.modes[j].master \in Instance \cup {NoMaster}
    BY <1>3, SoundParts DEF Running, RunningIdentifiers, StateModesRecord
  <2>6. w.modes[i].master # NoMaster
    BY <1>7, <2>3
  <2>7. w.modes[i].master \in Instance
    BY <2>4, <2>5, <2>6
  <2> QED BY <1>6, <2>4, <2>7 DEF w
<1> QED BY <1>1, <1>5, <1>7 DEF Shape, w

\* A Master that distributes goes on with the instances it has, unless one of them
\* declares another Master, or none.
LEMMA EvaluateSpread ==
    ASSUME NEW i \in Instance, NEW v \in Sound(UserSync, i), NEW p, NEW work, Parameters(p, work),
           Distributes(v, i)
    PROVE  Spread(v, Evaluate(v, i, p, work), i)
<1> DEFINE a == Activated(v, i)
           r == Evaluate(v, i, p, work)
           w == r.v
<1>1. /\ Shape(a, w, i)
      /\ v.modes[i].state = "DISTRIBUTION" /\ IsMaster(a, i) /\ "start" \in a.jobs =>
            /\ "start" \in w.jobs
            /\ \/ r.next \in {"DISTRIBUTION", "SYNCHRONIZATION", "SHUTTING_DOWN"}
               \/ r.next = "ELECTION" /\ ~CheckMaster(a, i)
  BY EvaluateShape
<1>2. /\ w.modes[i].state = v.modes[i].state
      /\ \A k \in Instance : v.modes[i].states[k] = "RUNNING" =>
                                   /\ w.modes[i].states[k] = "RUNNING"
                                   /\ k # i => w.modes[k] = v.modes[k]
  BY EvaluateKeeps
<1>3. /\ a.jobs = v.jobs /\ a.modes[i].state = v.modes[i].state
      /\ a.modes[i].master = v.modes[i].master \/ v.modes[i].states[v.modes[i].master] = "FAILED"
      /\ \A k \in Instance : /\ a.modes[i].states[k] = "RUNNING" => v.modes[i].states[k] = "RUNNING"
                             /\ v.modes[i].states[k] = "RUNNING" /\ k # i => a.modes[k] = v.modes[k]
  BY ActivatedFrame DEF Distributes
<1>4. v.modes[i].state = "DISTRIBUTION" /\ v.modes[i].master = i /\ "start" \in v.jobs
  BY DEF Distributes, IsMaster
<1>5. v.modes[i].states[i] = "RUNNING"
  BY <1>4, SoundParts DEF LocalAlive
<1> HIDE DEF a, r, w
<1>6. IsMaster(a, i)
  BY <1>3, <1>4, <1>5 DEF IsMaster
<1>7. /\ w.modes[i].master = i /\ w.modes[i].state = "DISTRIBUTION" /\ "start" \in w.jobs
      /\ \/ r.next \in {"DISTRIBUTION", "SYNCHRONIZATION", "SHUTTING_DOWN"}
         \/ r.next = "ELECTION" /\ ~CheckMaster(a, i)
  BY <1>1, <1>2, <1>3, <1>4, <1>6 DEF Shape, IsMaster
<1>8. CASE r.next \in {"DISTRIBUTION", "SYNCHRONIZATION", "SHUTTING_DOWN"}
  <2>1. \A k \in Instance : w.modes[i].states[k] = "RUNNING" => v.modes[i].states[k] = "RUNNING"
    BY <1>1, <1>3 DEF Shape
  <2> QED BY <1>7, <1>8, <2>1 DEF Spread, Distributes, IsMaster, w, r
<1>9. CASE r.next = "ELECTION" /\ ~CheckMaster(a, i)
  <2>1. PICK k \in Running(a, i) : a.modes[k].master # i
    <3>1. i # NoMaster
      BY NoMasterAssumption
    <3> QED BY <1>9, <3>1 DEF CheckMaster, MasterIdentifiers
  <2>2. k \in Instance /\ k # i /\ a.modes[i].states[k] = "RUNNING"
    BY <1>6, <2>1 DEF Running, RunningIdentifiers, IsMaster
  <2>3. v.modes[i].states[k] = "RUNNING" /\ w.modes[i].states[k] = "RUNNING" /\ w.modes[k].master # i
    BY <1>2, <1>3, <2>1, <2>2
  <2> QED BY <2>2, <2>3 DEF Spread, w, r
<1> QED BY <1>7, <1>8, <1>9

\* enter() of every state class: what it may do to the jobs.
LEMMA EnterFrame ==
    ASSUME NEW i \in Instance, NEW v \in Sound(UserSync, i), NEW work \in SUBSET {"start", "stop"}
    PROVE  LET w == Enter(v, i, work)
           IN  /\ w.modes = v.modes
               /\ v.modes[i].state \in {"SYNCHRONIZATION", "ELECTION"} => w.jobs = {}
               /\ v.modes[i].state = "OFF" => w.jobs = v.jobs
               /\ w.jobs # {} => v.jobs # {} \/ IsMaster(v, i)
<1> DEFINE w == Enter(v, i, work)
           s == v.modes[i].state
           aborted == AbortJobs(v)
<1>1. v \in SoundView(UserSync)
  BY SoundParts
<1>2. w.modes = v.modes
  BY EnterSound
<1>3. aborted \in Sound(UserSync, i) /\ aborted.jobs = {}
  BY <1>1, AbortJobsSound, UserSyncBoolean DEF AbortJobs, SoundView
<1> HIDE DEF aborted
<1>4. CASE s = "OFF"
  BY <1>1, <1>2, <1>4 DEF Enter, SoundView
<1>5. CASE s \in {"SYNCHRONIZATION", "ELECTION"}
  BY <1>2, <1>3, <1>5 DEF Enter, aborted
<1>6. CASE s = "DISTRIBUTION" \/ s = "CONCILIATION"
  <2>1. IsMaster(v, i) \/ w = v
    BY <1>6 DEF Enter
  <2> QED BY <1>2, <1>6, <2>1
<1>7. CASE s \in {"RESTARTING", "SHUTTING_DOWN"}
  <2>1. IsMaster(v, i) \/ w = aborted
    BY <1>7 DEF Enter, aborted
  <2> QED BY <1>2, <1>3, <1>7, <2>1
<1>8. CASE s \in {"OPERATION", "FINAL"}
  <2>1. w = v
    BY <1>8 DEF Enter
  <2> QED BY <1>8, <2>1
<1> HIDE DEF w
<1>9. s \in FsmStates
  BY SoundParts
<1> QED BY <1>4, <1>5, <1>6, <1>7, <1>8, <1>9 DEF FsmStates, w

\* A turn of the loop of set_state carries the facts on.
LEMMA TurnTurned ==
    ASSUME NEW i \in Instance, NEW v \in Sound(UserSync, i), NEW r, Turned(i, v, r),
           NEW p, NEW work, Parameters(p, work)
    PROVE  Turned(i, v, Turn(r, i, p, work))
<1> DEFINE s == r.v.modes[i].state
           t == Turn(r, i, p, work)
<1>1. Outcome(i, v, t)
  BY TurnSound DEF Turned
<1>2. r.v \in Sound(UserSync, i) /\ s \in FsmStates
  BY SoundParts DEF Turned, Outcome, Result
<1>3. CASE r.next \in {"NONE", s} \/ r.next \notin Transitions[s]
  <2>1. t.v = r.v /\ t.next = "NONE"
    BY <1>3 DEF Turn, Suggest
  <2> HIDE DEF t
  <2> QED BY <1>1, <2>1 DEF Turned, Spread, t
<1>4. CASE ~(r.next \in {"NONE", s} \/ r.next \notin Transitions[s])
  <2> DEFINE x == SetState(r.v, i, r.next)
             y == Enter(x, i, work)
             m == [r.v.modes[i] EXCEPT !.state = r.next]
  <2>1. r.next \in FsmStates /\ (r.next # "OFF" => r.v.modes[i].states[i] = "RUNNING")
    BY <1>4 DEF Turned, Outcome, Result
  <2>2. x \in Sound(UserSync, i)
    BY <1>2, <2>1, SetStateSound, UserSyncBoolean
  <2>3. x.modes[i] = m /\ OthersSame(r.v, x, i) /\ x.jobs = r.v.jobs
    BY <1>2, SetStateFrame, MineParts
  <2>4. m.state = r.next /\ m.master = r.v.modes[i].master /\ m.states = r.v.modes[i].states
    BY <1>2, SoundParts DEF StateModesRecord
  <2> HIDE DEF x, m
  <2>5. y \in Sound(UserSync, i)
    BY <2>2, EnterSound DEF Parameters
  <2>6. /\ y.modes = x.modes
        /\ x.modes[i].state \in {"SYNCHRONIZATION", "ELECTION"} => y.jobs = {}
        /\ x.modes[i].state = "OFF" => y.jobs = x.jobs
        /\ y.jobs # {} => x.jobs # {} \/ IsMaster(x, i)
    BY <2>2, EnterFrame DEF Parameters
  <2>7. t = Evaluate(y, i, p, work)
    BY <1>4 DEF Turn, x
  <2> HIDE DEF y, t
  <2>8. /\ t.v.modes[i].state = r.next
        /\ \A k \in Instance : /\ y.modes[i].states[k] = "RUNNING" =>
                                     /\ t.v.modes[i].states[k] = "RUNNING"
                                     /\ k # i => t.v.modes[k] = y.modes[k]
    BY <2>3, <2>4, <2>5, <2>6, <2>7, EvaluateKeeps
  <2>9. ASSUME JobsOfMaster(v, i)
        PROVE  JobsOfMaster(t.v, i) /\ (t.next = "OFF" => t.v.jobs = {})
    <3>1. JobsOfMaster(r.v, i) /\ (r.next = "OFF" => r.v.jobs = {})
      BY <2>9 DEF Turned
    <3>2. JobsOfMaster(y, i)
      BY <2>3, <2>4, <2>6, <3>1 DEF JobsOfMaster, IsMaster
    <3> QED BY <2>5, <2>7, <3>2, EvaluateJobs
  <2>10. ASSUME NEW n \in Instance, Loyal(v, i, n)
         PROVE  Loyal(t.v, i, n)
    <3>1. Loyal(r.v, i, n)
      BY <2>10 DEF Turned
    <3>2. Loyal(y, i, n)
      BY <2>3, <2>4, <2>6, <3>1 DEF Loyal, OthersSame, Running, RunningIdentifiers
    <3> QED BY <2>5, <2>7, <3>2, EvaluateLoyal
  <2>11. ASSUME Distributes(v, i)
         PROVE  Spread(v, t, i)
    <3>1. Spread(v, r, i)
      BY <2>11 DEF Turned
    <3>2. r.next \in Transitions[s] /\ r.next # s
      BY <1>4
    <3>3. CASE s \in Endings
      <4>1. r.next = "FINAL"
        BY <3>2, <3>3 DEF Endings, Transitions
      <4> QED BY <2>8, <4>1 DEF Spread, Endings
    <3>4. ASSUME NEW k \in Instance \ {i}, v.modes[i].states[k] = "RUNNING",
                 r.v.modes[i].states[k] = "RUNNING", r.v.modes[k].master # i
          PROVE  Spread(v, t, i)
      <4>1. t.v.modes[i].states[k] = "RUNNING" /\ t.v.modes[k] = r.v.modes[k]
        BY <2>3, <2>4, <2>6, <2>8, <3>4 DEF OthersSame
      <4> QED BY <3>4, <4>1 DEF Spread
    <3>5. CASE /\ s = "DISTRIBUTION"
               /\ r.next \in {"NONE", "DISTRIBUTION", "SYNCHRONIZATION", "RESTARTING", "SHUTTING_DOWN"}
      <4>1. r.next \in {"RESTARTING", "SHUTTING_DOWN"}
        BY <1>4, <3>2, <3>5 DEF Transitions
      <4> QED BY <2>8, <4>1 DEF Spread, Endings
    <3> QED BY <3>1, <3>3, <3>4, <3>5 DEF Spread, Distributes
  <2> QED BY <1>1, <2>9, <2>10, <2>11 DEF Turned, t
<1> QED BY <1>3, <1>4

\* What a handler may commit, starting from v.
Carried(i, v, w) ==
    /\ JobsOfMaster(v, i) => JobsOfMaster(w, i)
    /\ \A m \in Instance : Loyal(v, i, m) => Loyal(w, i, m)
    /\ Distributes(v, i) =>
          \/ w.modes[i].state \in Endings
          \/ \E k \in Instance \ {i} : v.modes[i].states[k] = "RUNNING" /\ w.modes[k].master # i
          \/ \A k \in Instance : w.modes[i].states[k] = "RUNNING" => v.modes[i].states[k] = "RUNNING"

\* So does set_state, turn after turn.
LEMMA SetFsmStateCarried ==
    ASSUME NEW i \in Instance, NEW v \in Sound(UserSync, i), NEW r, Turned(i, v, r),
           NEW p, NEW work, Parameters(p, work)
    PROVE  Carried(i, v, SetFsmState(r, i, p, work)) /\ Advance(v, SetFsmState(r, i, p, work), i)
<1> DEFINE T == [x \in Evaluation |-> Turn(x, i, p, work)]
<1>1. ASSUME NEW x, Turned(i, v, x)
      PROVE  Turned(i, v, T[x])
  <2>1. x \in [v : Sound(UserSync, i), next : FsmStates \cup {"NONE"}]
    BY <1>1 DEF Turned, Outcome, Result
  <2>2. Declared(UserSync) \subseteq StateModesRecord
    BY DEF Declared
  <2>3. Sound(UserSync, i) \subseteq View
    BY <2>2, DeclaredSequences DEF Sound, SoundView, View
  <2>4. x \in Evaluation
    BY <2>1, <2>3 DEF Evaluation
  <2>5. T[x] = Turn(x, i, p, work)
    BY <2>4
  <2> QED BY <1>1, <2>5, TurnTurned
<1> HIDE DEF T
<1>2. Turned(i, v, T[T[T[r]]])
  BY <1>1
<1>3. Turned(i, v, T[T[T[T[T[T[r]]]]]])
  BY <1>1, <1>2
<1>4. Turned(i, v, T[T[T[T[T[T[T[T[T[r]]]]]]]]])
  BY <1>1, <1>3
<1> DEFINE last == T[T[T[T[T[T[T[T[T[r]]]]]]]]]
<1>5. SetFsmState(r, i, p, work) = last.v
  BY DEF SetFsmState, T
<1> HIDE DEF last
<1>6. Carried(i, v, last.v)
  BY <1>4 DEF Turned, Spread, Carried, last
<1> QED BY <1>4, <1>5, <1>6 DEF Turned, Outcome, last

\* So does the evaluation of the FSM, from any sound view.
LEMMA FsmNextCarried ==
    ASSUME NEW i \in Instance, NEW v \in Sound(UserSync, i), NEW p, NEW work, Parameters(p, work)
    PROVE  Carried(i, v, FsmNext(v, i, p, work)) /\ Advance(v, FsmNext(v, i, p, work), i)
<1>1. Turned(i, v, Evaluate(v, i, p, work))
  BY EvaluateSound, EvaluateJobs, EvaluateLoyal, EvaluateSpread DEF Turned
<1> QED BY <1>1, SetFsmStateCarried DEF FsmNext

-----------------------------------------------------------------------------
(* What a handler changes. *)

\* The part of the inductive invariant that is about the jobs: only the Master has
\* some, once its FSM is past ELECTION.
JobsOK ==
    \A i \in Instance : jobs[i] # {} =>
        Master(i) = i /\ Fsm(i) \notin {"OFF", "SYNCHRONIZATION", "ELECTION"}

\* What a step makes of the jobs, of the Master and of the newcomers of i.
Changed(i) ==
    /\ jobs'[i] # {} => Master(i)' = i /\ Fsm(i)' \notin {"OFF", "SYNCHRONIZATION", "ELECTION"}
    /\ \A m \in Instance :
          Master(i) = m /\ Seen(i, m) = "RUNNING" /\ Seen(i, m)' = "RUNNING"
          => \/ Master(i)' = m
             \/ /\ Master(i)' # NoMaster
                /\ \E j \in Instance \ {i} :
                      Seen(i, j)' = "RUNNING" /\ modes'[i][j].master = Master(i)'
    /\ \A j \in Instance :
          Distributing(i) /\ Seen(i, j) # "RUNNING" /\ Seen(i, j)' = "RUNNING"
          => \/ Fsm(i)' \in {"RESTARTING", "SHUTTING_DOWN", "FINAL"}
             \/ \E k \in Instance \ {i} : Seen(i, k) = "RUNNING" /\ modes'[i][k].master # i

\* v is what a handler of i leaves to the evaluation of the FSM: the Master is kept
\* unless it is FAILED, and no other instance is RUNNING that was not before.
Entered(i, v) ==
    /\ Handled(i, v)
    /\ v.modes[i].state = Fsm(i) /\ v.jobs = jobs[i]
    /\ \A m \in Instance : Master(i) = m /\ Seen(i, m) = "RUNNING" =>
          \/ v.modes[i].master = m /\ v.modes[i].states[m] = "RUNNING"
          \/ v.modes[i].states[m] = "FAILED"
    /\ \A k \in Instance \ {i} : v.modes[i].states[k] = "RUNNING" => Seen(i, k) = "RUNNING"

\* What is committed from there.
LEMMA EnteredChanged ==
    ASSUME IInv, JobsOK, NEW i \in Instance, NEW v, Entered(i, v),
           NEW w, Carried(i, v, w), Advance(v, w, i),
           modes'[i] = w.modes, jobs'[i] = w.jobs
    PROVE  Changed(i)
<1>1. v \in Sound(UserSync, i) /\ (Fsm(i) # "OFF" => v.modes[i].states[i] = "RUNNING")
  BY DEF Entered, Handled, Sound, LocalAlive
<1>2. Fsm(i) # "OFF" => Seen(i, i) = "RUNNING"
  BY DEF IInv, LocalRunning
<1>3. ASSUME jobs[i] # {}
      PROVE  v.modes[i].master = i
  BY <1>1, <1>2, <1>3 DEF JobsOK, Entered
<1>4. JobsOfMaster(w, i)
  <2>1. JobsOfMaster(v, i)
    BY <1>3 DEF JobsOK, Entered, JobsOfMaster
  <2> QED BY <2>1 DEF Carried
<1>5. jobs'[i] # {} => Master(i)' = i /\ Fsm(i)' \notin {"OFF", "SYNCHRONIZATION", "ELECTION"}
  BY <1>4 DEF JobsOfMaster, Master, Fsm
<1>6. ASSUME NEW m \in Instance, Master(i) = m, Seen(i, m) = "RUNNING", Seen(i, m)' = "RUNNING"
      PROVE  \/ Master(i)' = m
             \/ /\ Master(i)' # NoMaster
                /\ \E j \in Instance \ {i} :
                      Seen(i, j)' = "RUNNING" /\ modes'[i][j].master = Master(i)'
  <2>1. w.modes[i].states[m] = "RUNNING"
    BY <1>6 DEF Seen
  <2>2. v.modes[i].states[m] # "FAILED"
    BY <2>1 DEF Advance
  <2>3. Loyal(v, i, m)
    BY <1>6, <2>2 DEF Entered, Loyal
  <2>4. Loyal(w, i, m)
    BY <2>3 DEF Carried
  <2> QED BY <2>4, NoMasterAssumption DEF Loyal, Running, RunningIdentifiers, Master, Seen
<1>7. ASSUME NEW j \in Instance, Distributing(i), Seen(i, j) # "RUNNING", Seen(i, j)' = "RUNNING"
      PROVE  \/ Fsm(i)' \in {"RESTARTING", "SHUTTING_DOWN", "FINAL"}
             \/ \E k \in Instance \ {i} : Seen(i, k) = "RUNNING" /\ modes'[i][k].master # i
  <2>1. Fsm(i) = "DISTRIBUTION" /\ "start" \in jobs[i] /\ j # i
    BY <1>2, <1>7 DEF Distributing
  <2>2. Distributes(v, i)
    BY <1>3, <2>1 DEF Distributes, IsMaster, Entered
  <2>3. CASE w.modes[i].state \in Endings
    BY <2>3 DEF Endings, Fsm
  <2>4. ASSUME NEW k \in Instance \ {i}, v.modes[i].states[k] = "RUNNING", w.modes[k].master # i
        PROVE  Seen(i, k) = "RUNNING" /\ modes'[i][k].master # i
    BY <2>4 DEF Entered
  <2>5. CASE \A k \in Instance : w.modes[i].states[k] = "RUNNING" => v.modes[i].states[k] = "RUNNING"
    BY <1>7, <2>1, <2>5 DEF Entered, Seen
  <2> QED BY <2>2, <2>3, <2>4, <2>5 DEF Carried
<1> QED BY <1>5, <1>6, <1>7 DEF Changed

\* A step that leaves the modes alone, and gives no job.
LEMMA SameChanged ==
    ASSUME JobsOK, NEW i \in Instance, modes'[i] = modes[i], jobs'[i] \subseteq jobs[i]
    PROVE  Changed(i)
BY DEF JobsOK, Changed, Master, Seen, Fsm

\* A handler that commits without, or after, an evaluation.
LEMMA HandlerChanged ==
    ASSUME IInv, JobsOK, NEW i \in Instance, NEW v, Entered(i, v),
           NEW p, NEW work, Parameters(p, work),
           NEW w \in {v, FsmNext(v, i, p, work)}, NEW ob, NEW ans, Commit(i, ob, ans, w)
    PROVE  \A k \in Instance : Changed(k)
<1>1. v \in Sound(UserSync, i)
  BY DEF Entered, Handled
<1>2. Carried(i, v, w) /\ Advance(v, w, i)
  <2>1. Carried(i, v, v) /\ Advance(v, v, i)
    BY AdvanceReflexive DEF Carried
  <2> QED BY <1>1, <2>1, FsmNextCarried
<1>3. /\ modes'[i] = w.modes /\ jobs'[i] = w.jobs
      /\ \A k \in Instance \ {i} : modes'[k] = modes[k] /\ jobs'[k] = jobs[k]
  BY DEF Commit, IInv, DeclaredOK
<1>4. Changed(i)
  BY <1>2, <1>3, EnteredChanged
<1>5. \A k \in Instance \ {i} : Changed(k)
  BY <1>3, SameChanged
<1> QED BY <1>4, <1>5

-----------------------------------------------------------------------------
(* What the handlers leave to the evaluation. *)

\* A handler starts from what i holds.
LEMMA HeldEntered ==
    ASSUME IInv, NEW i \in Instance
    PROVE  Entered(i, Held(i)) /\ Held(i).modes = modes[i] /\ Held(i).jobs = jobs[i]
<1>1. Handled(i, Held(i)) /\ Held(i).modes = modes[i]
  BY HeldHandled
<1>2. Held(i).jobs = jobs[i]
  BY DEF Held
<1> QED BY <1>1, <1>2 DEF Entered, Fsm, Master, Seen

\* update_instance_state only resets the Master if it is the instance that changes.
LEMMA UpdateFrame ==
    ASSUME NEW i \in Instance, NEW v \in Sound(UserSync, i), NEW j \in Instance, NEW s
    PROVE  LET w == UpdateInstanceState(v, i, j, s)
           IN  /\ w.jobs = v.jobs
               /\ v.modes[i].master # j => w.modes[i].master = v.modes[i].master
<1> DEFINE recorded == [v EXCEPT !.modes[i].states[j] = s]
           forgot   == IF s \in {"STOPPED", "ISOLATED"} /\ j # i
                       THEN [recorded EXCEPT !.modes[j] = FreshModes] ELSE recorded
           w == UpdateInstanceState(v, i, j, s)
<1>1. v \in SoundView(UserSync) /\ v.modes \in [Instance -> StateModesRecord]
  BY SoundParts
<1>2. recorded.jobs = v.jobs /\ recorded.modes[i].master = v.modes[i].master
  BY <1>1 DEF SoundView, StateModesRecord
<1>3. DOMAIN recorded = DOMAIN v /\ DOMAIN recorded.modes = Instance
  BY <1>1 DEF SoundView
<1> HIDE DEF recorded
<1>4. {"modes", "mark", "jobs", "out"} \subseteq DOMAIN v
  BY <1>1 DEF SoundView
<1>5. forgot.jobs = v.jobs /\ forgot.modes[i].master = v.modes[i].master /\ DOMAIN forgot = DOMAIN v
  BY <1>2, <1>3, <1>4
<1>6. w = IF s # "RUNNING" /\ v.modes[i].master = j THEN SetMaster(forgot, i, NoMaster)
          ELSE [forgot EXCEPT !.mark = TRUE]
  BY DEF UpdateInstanceState, recorded
<1> HIDE DEF forgot
<1>7. SetMaster(forgot, i, NoMaster).jobs = v.jobs
  BY <1>4, <1>5 DEF SetMaster, PublishStatus
<1>8. [forgot EXCEPT !.mark = TRUE].jobs = v.jobs /\ [forgot EXCEPT !.mark = TRUE].modes = forgot.modes
  BY <1>4, <1>5
<1> QED BY <1>5, <1>6, <1>7, <1>8

\* An instance that is not RUNNING may change state, or one may fail.
LEMMA UpdateEntered ==
    ASSUME NEW i \in Instance, NEW v, Entered(i, v), NEW j \in Instance, NEW s \in InstanceStates,
           j = i /\ s # "RUNNING" => v.modes[i].state = "OFF",
           Seen(i, j) # "ISOLATED", Seen(i, j) # "RUNNING" \/ s = "FAILED",
           s = "RUNNING" => j = i
    PROVE  Entered(i, UpdateInstanceState(v, i, j, s))
<1> DEFINE w == UpdateInstanceState(v, i, j, s)
<1>1. Handled(i, v) /\ v \in Sound(UserSync, i)
  BY DEF Entered, Handled
<1>2. Handled(i, w) /\ w.modes[i].state = v.modes[i].state
  BY <1>1, UpdateHandled
<1>3. w.modes[i].states = [v.modes[i].states EXCEPT ![j] = s]
  BY <1>1, UpdateInstanceStateSound, UserSyncBoolean
<1>4. w.jobs = v.jobs /\ (v.modes[i].master # j => w.modes[i].master = v.modes[i].master)
  BY <1>1, UpdateFrame
<1>5. v.modes[i].states \in [Instance -> InstanceStates]
  BY <1>1, SoundParts
<1> HIDE DEF w
<1>6. \A k \in Instance : w.modes[i].states[k] = IF k = j THEN s ELSE v.modes[i].states[k]
  BY <1>3, <1>5
<1>7. ASSUME NEW m \in Instance, Master(i) = m, Seen(i, m) = "RUNNING"
      PROVE  \/ w.modes[i].master = m /\ w.modes[i].states[m] = "RUNNING"
             \/ w.modes[i].states[m] = "FAILED"
  BY <1>4, <1>6, <1>7 DEF Entered
<1>8. \A k \in Instance \ {i} : w.modes[i].states[k] = "RUNNING" => Seen(i, k) = "RUNNING"
  BY <1>6 DEF Entered
<1>9. w.modes[i].state = Fsm(i) /\ w.jobs = jobs[i]
  BY <1>2, <1>4 DEF Entered
<1> QED BY <1>2, <1>7, <1>8, <1>9 DEF Entered, w

\* A handshake starts with an instance that is STOPPED.
LEMMA StartHandshakeEntered ==
    ASSUME IInv, NEW i \in Instance, NEW j \in Instance
    PROVE  Entered(i, StartHandshake(Held(i), i, j))
<1>1. Entered(i, Held(i)) /\ Held(i).modes = modes[i]
  BY HeldEntered
<1>2. CASE Held(i).modes[i].states[j] = "STOPPED"
  <2>1. j = i => Held(i).modes[i].state = "OFF"
    BY <1>1, <1>2 DEF Entered, Handled, Sound, LocalAlive
  <2>2. Seen(i, j) = "STOPPED"
    BY <1>1, <1>2 DEF Seen
  <2>3. Entered(i, UpdateInstanceState(Held(i), i, j, "CHECKING"))
    BY <1>1, <2>1, <2>2, UpdateEntered DEF InstanceStates
  <2> QED BY <1>2, <2>3 DEF StartHandshake
<1>3. CASE Held(i).modes[i].states[j] # "STOPPED"
  BY <1>1, <1>3 DEF StartHandshake
<1> QED BY <1>2, <1>3

\* The instances found inactive are FAILED, and only them.
LEMMA SweptFrame ==
    ASSUME IInv, NEW i \in Instance, NEW S \in SUBSET Inactive(i)
    PROVE  LET v0 == StartHandshake(Held(i), i, i)
               w  == Swept(i, S)
           IN  /\ w.modes[i].states = [k \in Instance |-> IF k \in S THEN "FAILED" ELSE v0.modes[i].states[k]]
               /\ w.modes[i].state = v0.modes[i].state /\ w.jobs = v0.jobs
               /\ Master(i) \notin S => w.modes[i].master = v0.modes[i].master
<1> DEFINE v0 == StartHandshake(Held(i), i, i)
           states == [k \in Instance |-> IF k \in S THEN "FAILED" ELSE v0.modes[i].states[k]]
           m == [v0.modes[i] EXCEPT !.states = states]
           v1 == [v0 EXCEPT !.modes[i].states = [k \in Instance |-> IF k \in S THEN "FAILED" ELSE @[k]],
                            !.mark = @ \/ S \ {Master(i)} # {}]
           v2 == IF Master(i) \in S THEN SetMaster(v1, i, NoMaster) ELSE v1
           w  == Swept(i, S)
<1>1. Entered(i, v0)
  BY StartHandshakeEntered
<1>2. /\ v0 \in SoundView(UserSync) /\ v0.modes \in [Instance -> StateModesRecord]
      /\ v0.modes[i].states \in [Instance -> InstanceStates]
  BY <1>1, SoundParts DEF Entered, Handled
<1>3. w = DeferredPublishStatus(v2, i)
  BY DEF Swept
<1> HIDE DEF v0
<1>4. v1.modes = [v0.modes EXCEPT ![i] = m] /\ v1.jobs = v0.jobs /\ DOMAIN v1 = DOMAIN v0
  BY <1>2 DEF SoundView, StateModesRecord
<1>5. {"modes", "mark", "jobs", "out"} \subseteq DOMAIN v0
  BY <1>2 DEF SoundView
<1>6. m.states = states /\ m.state = v0.modes[i].state /\ m.master = v0.modes[i].master
  <2> HIDE DEF states
  <2> QED BY <1>2 DEF StateModesRecord
<1>7. m \in [state : FsmStates, master : Instance \cup {NoMaster}, states : {states}]
  <2> HIDE DEF states
  <2> QED BY <1>2 DEF StateModesRecord
<1> HIDE DEF v1, m
<1>8. v1.modes[i] = m /\ DOMAIN v1.modes = Instance
  BY <1>2, <1>4
<1>9. /\ v2.jobs = v0.jobs /\ DOMAIN v2 = DOMAIN v0
      /\ v2.modes[i].states = states /\ v2.modes[i].state = v0.modes[i].state
      /\ Master(i) \notin S => v2.modes[i].master = v0.modes[i].master
  <2>1. CASE v2 = v1
    BY <1>4, <1>6, <1>8, <2>1
  <2>2. CASE Master(i) \in S /\ v2 # v1
    <3> DEFINE x == [v1 EXCEPT !.modes[i].master = NoMaster]
    <3>1. v2 = PublishStatus(x, i)
      BY <2>2 DEF SetMaster
    <3>2. x.modes[i] = [m EXCEPT !.master = NoMaster] /\ x.jobs = v1.jobs /\ DOMAIN x = DOMAIN v1
      BY <1>4, <1>5, <1>8
    <3>3. x.modes[i].states = states /\ x.modes[i].state = m.state
      BY <1>7, <3>2
    <3> HIDE DEF x, v2
    <3> QED BY <1>4, <1>5, <1>6, <2>2, <3>1, <3>2, <3>3 DEF PublishStatus
  <2> QED BY <2>1, <2>2
<1> HIDE DEF v2, w
<1>10. w.modes = v2.modes /\ w.jobs = v2.jobs
  BY <1>3, <1>5, <1>9 DEF DeferredPublishStatus, PublishStatus
<1> QED BY <1>9, <1>10 DEF w, v0

\* The Master is FAILED with them.
LEMMA SweptEntered ==
    ASSUME IInv, NEW i \in Instance, NEW S \in SUBSET Inactive(i)
    PROVE  Entered(i, Swept(i, S))
<1> DEFINE v0 == StartHandshake(Held(i), i, i)
           w  == Swept(i, S)
<1>1. Entered(i, v0) /\ Handled(i, w)
  BY StartHandshakeEntered, SweptHandled
<1>2. /\ w.modes[i].states = [k \in Instance |-> IF k \in S THEN "FAILED" ELSE v0.modes[i].states[k]]
      /\ w.modes[i].state = v0.modes[i].state /\ w.jobs = v0.jobs
      /\ Master(i) \notin S => w.modes[i].master = v0.modes[i].master
  BY SweptFrame
<1> HIDE DEF v0, w
<1>3. /\ w.modes[i].state = Fsm(i) /\ w.jobs = jobs[i]
      /\ \A k \in Instance \ {i} : w.modes[i].states[k] = "RUNNING" => Seen(i, k) = "RUNNING"
  BY <1>1, <1>2 DEF Entered
<1>4. ASSUME NEW n \in Instance, Master(i) = n, Seen(i, n) = "RUNNING"
      PROVE  \/ w.modes[i].master = n /\ w.modes[i].states[n] = "RUNNING"
             \/ w.modes[i].states[n] = "FAILED"
  BY <1>1, <1>2, <1>4 DEF Entered
<1> QED BY <1>1, <1>3, <1>4 DEF Entered, w

\* What is received is not about the local instance.
LEMMA OnInstanceStateEntered ==
    ASSUME IInv, NEW i \in Instance, NEW j \in Instance, NEW m \in Declared(UserSync)
    PROVE  Entered(i, OnInstanceStateEvent(Held(i), i, j, m))
<1> DEFINE v == OnInstanceStateEvent(Held(i), i, j, m)
<1>1. Entered(i, Held(i))
  BY HeldEntered
<1>2. v \in Sound(UserSync, i) /\ v.modes[i] = Held(i).modes[i]
  BY <1>1, OnInstanceStateEventSound, UserSyncBoolean DEF Entered, Handled
<1>3. v.jobs = Held(i).jobs
  BY DEF OnInstanceStateEvent, Held
<1> HIDE DEF v
<1> QED BY <1>1, <1>2, <1>3 DEF Entered, Handled, v

-----------------------------------------------------------------------------
(* The handlers of the main thread, one by one. *)

\* The timer of supervisord.
LEMMA OnTickChanged ==
    ASSUME IInv, JobsOK, NEW i \in Instance, NEW S, NEW p, NEW work, Parameters(p, work),
           OnTick(i, S, p, work)
    PROVE  \A k \in Instance : Changed(k)
<1>1. S \in SUBSET Inactive(i) /\ Commit(i, outbox, answer, Ticked(i, S, p, work))
  BY DEF OnTick
<1>2. Ticked(i, S, p, work) = FsmNext(Swept(i, S), i, p, work)
  BY DEF Ticked, Swept
<1> QED BY <1>1, <1>2, SweptEntered, HandlerChanged

\* A TICK of a remote instance is not followed by an evaluation.
LEMMA OnRemoteTickChanged ==
    ASSUME IInv, JobsOK, NEW i \in Instance, NEW j \in Instance, OnRemoteTick(i, j)
    PROVE  \A k \in Instance : Changed(k)
<1>1. Commit(i, outbox, answer, StartHandshake(Held(i), i, j))
  BY DEF OnRemoteTick
<1>2. Parameters(i, {})
  BY DEF Parameters
<1> QED BY <1>1, <1>2, StartHandshakeEntered, HandlerChanged

\* The modes received from j, published or got in the handshake.
LEMMA OnStateEventChanged ==
    ASSUME IInv, JobsOK, NEW i \in Instance, NEW j \in Instance, NEW m \in Declared(UserSync),
           NEW p, NEW work, Parameters(p, work),
           NEW ob, NEW ans, Commit(i, ob, ans, OnStateEvent(i, j, m, p, work))
    PROVE  \A k \in Instance : Changed(k)
<1> DEFINE v == OnInstanceStateEvent(Held(i), i, j, m)
           w == OnStateEvent(i, j, m, p, work)
<1>1. Entered(i, v) /\ Entered(i, Held(i))
  BY OnInstanceStateEntered, HeldEntered
<1>2. w = Held(i) \/ w \in {v, FsmNext(v, i, p, work)}
  BY DEF OnStateEvent
<1> HIDE DEF v
<1>3. CASE w = Held(i)
  BY <1>1, <1>3, HandlerChanged
<1>4. CASE w \in {v, FsmNext(v, i, p, work)}
  BY <1>1, <1>4, HandlerChanged
<1> QED BY <1>2, <1>3, <1>4

\* The state and modes got in a handshake.
LEMMA OnHandshakeStateChanged ==
    ASSUME IInv, JobsOK, NEW i \in Instance, NEW j \in Instance,
           NEW p, NEW work, Parameters(p, work), OnHandshakeState(i, j, p, work)
    PROVE  \A k \in Instance : Changed(k)
<1>1. answer[i][j].modes \in Declared(UserSync)
  BY DEF IInv, DeclaredOK, DeclaredAnswers
<1>2. \E ans : Commit(i, outbox, ans, OnStateEvent(i, j, answer[i][j].modes, p, work))
  BY DEF OnHandshakeState
<1> QED BY <1>1, <1>2, OnStateEventChanged

\* A publication.
LEMMA PublishChanged ==
    ASSUME IInv, JobsOK, NEW i \in Instance, NEW j \in Instance,
           NEW p, NEW work, Parameters(p, work), Publish(i, j, p, work)
    PROVE  \A k \in Instance : Changed(k)
<1>1. outbox[i][j] \in Seq(Declared(UserSync)) /\ outbox[i][j] # << >>
  BY DEF IInv, DeclaredOK, Publish
<1>2. Head(outbox[i][j]) \in Declared(UserSync)
  BY <1>1, HeadTailProperties
<1>3. \E ob : Commit(j, ob, answer, OnStateEvent(j, i, Head(outbox[i][j]), p, work))
  BY DEF Publish
<1> QED BY <1>2, <1>3, OnStateEventChanged

\* An authorization is about an instance that is CHECKING, hence not the Master.
LEMMA OnAuthorizationChanged ==
    ASSUME IInv, JobsOK, NEW i \in Instance, NEW j \in Instance,
           NEW p, NEW work, Parameters(p, work), OnAuthorization(i, j, p, work)
    PROVE  \A k \in Instance : Changed(k)
<1> DEFINE code == answer[i][j].code
           to   == CASE code = "NOT_AUTHORIZED" -> InvalidState(Held(i), i, j, TRUE)
                     [] code = "UNKNOWN"        -> "STOPPED"
                     [] code = "AUTHORIZED"     -> "CHECKED"
           v    == UpdateInstanceState(Held(i), i, j, to)
           x    == IF i = j /\ to = "CHECKED" THEN UpdateInstanceState(v, i, i, "RUNNING") ELSE v
<1>1. code \in {"UNKNOWN", "NOT_AUTHORIZED", "AUTHORIZED"}
  BY DEF OnAuthorization
<1>2. Seen(i, j) = "CHECKING"
  BY <1>1 DEF IInv, AnswersCurrent
<1>3. Entered(i, Held(i)) /\ Held(i).modes = modes[i]
  BY HeldEntered
<1>4. j = i => Held(i).modes[i].state = "OFF"
  BY <1>2, <1>3 DEF IInv, LocalRunning, Fsm
<1>5. to \in InstanceStates
  BY <1>1 DEF InvalidState, InstanceStates
<1>6. to # "RUNNING"
  BY <1>1 DEF InvalidState
<1>7. Commit(i, outbox, answer, FsmNext(x, i, p, work))
  BY DEF OnAuthorization
<1> HIDE DEF to
<1>8. Entered(i, v)
  BY <1>2, <1>3, <1>4, <1>5, <1>6, UpdateEntered
<1> HIDE DEF v
<1>9. Entered(i, x)
  <2>1. i = j => Entered(i, UpdateInstanceState(v, i, j, "RUNNING"))
    BY <1>2, <1>8, UpdateEntered DEF InstanceStates
  <2> QED BY <1>8, <2>1
<1> HIDE DEF x
<1> QED BY <1>7, <1>9, HandlerChanged

\* A failure is not followed by an evaluation either.
LEMMA OnInstanceFailureChanged ==
    ASSUME IInv, JobsOK, NEW i \in Instance, NEW j \in Instance, OnInstanceFailure(i, j)
    PROVE  \A k \in Instance : Changed(k)
<1> DEFINE v == IF Seen(i, j) \in Failable THEN UpdateInstanceState(Held(i), i, j, "FAILED")
                ELSE Held(i)
<1>1. i # j /\ Commit(i, outbox, answer, v)
  BY DEF OnInstanceFailure, IInv, LocalReachable
<1>2. Entered(i, Held(i))
  BY HeldEntered
<1>3. Seen(i, j) \in Failable => Entered(i, UpdateInstanceState(Held(i), i, j, "FAILED"))
  BY <1>1, <1>2, UpdateEntered DEF Failable, InstanceStates
<1>4. Entered(i, v)
  BY <1>2, <1>3
<1>5. Parameters(i, {})
  BY DEF Parameters
<1> HIDE DEF v
<1> QED BY <1>1, <1>4, <1>5, HandlerChanged

\* The user only chooses a Master where there is none.
LEMMA EndSyncChanged ==
    ASSUME IInv, JobsOK, NEW i \in Instance, NEW m \in Instance \cup {NoMaster},
           NEW p, NEW work, Parameters(p, work), EndSync(i, m, p, work)
    PROVE  \A k \in Instance : Changed(k)
<1> DEFINE c == IF m = NoMaster THEN Lowest(Candidates(Held(i), i)) ELSE m
           v == SetMaster(Held(i), i, c)
<1>1. Entered(i, Held(i)) /\ Held(i).modes = modes[i]
  BY HeldEntered
<1>2. UserSync /\ Master(i) = NoMaster
  BY DEF EndSync, UserSync
<1>3. Held(i) \in Sound(UserSync, i) /\ Held(i).modes[i].states[i] = "RUNNING"
  BY <1>1 DEF EndSync, IInv, LocalRunning, Seen, Entered, Handled
<1>4. Commit(i, outbox, answer, FsmNext(v, i, p, work))
  BY DEF EndSync, SelectMaster
<1>5. v \in Sound(UserSync, i) /\ Advance(Held(i), v, i)
  <2>1. CASE m = NoMaster
    BY <1>2, <1>3, <2>1, SelectMasterSound, SameStatesAdvance, UserSyncBoolean DEF SelectMaster
  <2>2. CASE m # NoMaster
    BY <1>2, <1>3, <2>2, SetMasterSound, SameStatesAdvance, UserSyncBoolean
  <2> QED BY <2>1, <2>2
<1> HIDE DEF c
<1>6. /\ v.modes[i] = [Held(i).modes[i] EXCEPT !.master = c] /\ v.jobs = Held(i).jobs
  BY <1>3, SetMasterFrame, MineParts
<1>7. Held(i).modes[i] \in StateModesRecord
  BY <1>3, SoundParts
<1> HIDE DEF v
<1>8. v.modes[i].state = Held(i).modes[i].state /\ v.modes[i].states = Held(i).modes[i].states
  BY <1>6, <1>7 DEF StateModesRecord
<1>9. Entered(i, v)
  BY <1>1, <1>2, <1>5, <1>6, <1>8, NoMasterAssumption DEF Entered, Handled
<1> QED BY <1>4, <1>9, HandlerChanged

\* The user puts an end to Supvisors.
LEMMA OnEndRequestChanged ==
    ASSUME IInv, JobsOK, NEW i \in Instance, NEW s \in EndRequests,
           NEW p, NEW work, Parameters(p, work), OnEndRequest(i, s, p, work)
    PROVE  \A k \in Instance : Changed(k)
<1> DEFINE r == Suggest(Held(i), s)
           w == SetFsmState(r, i, p, work)
<1>1. Entered(i, Held(i)) /\ Held(i).modes = modes[i]
  BY HeldEntered
<1>2. s \in {"RESTARTING", "SHUTTING_DOWN"}
  BY BoundsAssumption
<1>3. Fsm(i) # "OFF"
  BY <1>2 DEF OnEndRequest, Transitions
<1>4. Held(i) \in Sound(UserSync, i) /\ Held(i).modes[i].states[i] = "RUNNING"
  BY <1>1, <1>3 DEF IInv, LocalRunning, Seen, Entered, Handled
<1>5. Outcome(i, Held(i), r)
  BY <1>2, <1>4, SuggestOutcome, AdvanceReflexive DEF FsmStates
<1>6. r.v = Held(i) /\ r.next = s
  BY DEF Suggest
<1> HIDE DEF r
<1>7. Turned(i, Held(i), r)
  BY <1>2, <1>5, <1>6 DEF Turned, Spread
<1>8. Carried(i, Held(i), w) /\ Advance(Held(i), w, i)
  BY <1>4, <1>7, SetFsmStateCarried
<1>9. Commit(i, outbox, answer, w)
  BY DEF OnEndRequest, r
<1> HIDE DEF w
<1>10. /\ modes'[i] = w.modes /\ jobs'[i] = w.jobs
       /\ \A k \in Instance \ {i} : modes'[k] = modes[k] /\ jobs'[k] = jobs[k]
  BY <1>9 DEF Commit, IInv, DeclaredOK
<1>11. Changed(i)
  BY <1>1, <1>8, <1>10, EnteredChanged
<1>12. \A k \in Instance \ {i} : Changed(k)
  BY <1>10, SameChanged
<1> QED BY <1>11, <1>12

\* The jobs that are done.
LEMMA JobsDoneChanged ==
    ASSUME IInv, JobsOK, NEW i \in Instance, JobsDone(i)
    PROVE  \A k \in Instance : Changed(k)
<1>1. PICK job \in jobs[i] : Commit(i, outbox, answer, SetJobs(Held(i), i, jobs[i] \ {job}))
  BY DEF JobsDone
<1> DEFINE w == SetJobs(Held(i), i, jobs[i] \ {job})
<1>2. Entered(i, Held(i)) /\ Held(i).modes = modes[i]
  BY HeldEntered
<1>3. w.modes = modes[i] /\ w.jobs = jobs[i] \ {job}
  BY <1>2, SetJobsFrame DEF Entered, Handled
<1> HIDE DEF w
<1>4. /\ modes'[i] = w.modes /\ jobs'[i] = w.jobs
      /\ \A k \in Instance \ {i} : modes'[k] = modes[k] /\ jobs'[k] = jobs[k]
  BY <1>1 DEF Commit, IInv, DeclaredOK, w
<1> QED BY <1>3, <1>4, SameChanged

-----------------------------------------------------------------------------
(* The other steps. *)

\* The steps that change no view.
LEMMA ViewsChanged ==
    ASSUME JobsOK, UNCHANGED <<modes, jobs>>
    PROVE  \A k \in Instance : Changed(k)
BY SameChanged

\* A new life has no Master and no job.
LEMMA StartChanged ==
    ASSUME IInv, JobsOK, NEW i \in Instance, Start(i)
    PROVE  \A k \in Instance : Changed(k)
<1> DEFINE m == [FreshModes EXCEPT !.states[i] = "CHECKING"]
<1>1. modes[i][i] = FreshModes /\ modes[i] \in [Instance -> Declared(UserSync)]
  BY DEF Start, IInv, DownIsFresh, FreshView, DeclaredOK
<1>2. modes' = [modes EXCEPT ![i] = [modes[i] EXCEPT ![i] = m]] /\ jobs' = jobs
  BY <1>1 DEF Start, IInv, DeclaredOK
<1>3. /\ modes'[i][i] = m
      /\ \A k \in Instance \ {i} : modes'[k] = modes[k]
  BY <1>1, <1>2 DEF IInv, DeclaredOK
<1>4. /\ Master(i) = NoMaster /\ Fsm(i) = "OFF"
  BY <1>1 DEF Master, Fsm, FreshModes
<1>5. jobs[i] = {} /\ ~Distributing(i)
  BY <1>4, NoMasterAssumption DEF JobsOK, Distributing
<1> HIDE DEF m
<1>6. Changed(i)
  BY <1>2, <1>4, <1>5, NoMasterAssumption DEF Changed
<1>7. \A k \in Instance \ {i} : Changed(k)
  BY <1>2, <1>3, SameChanged
<1> QED BY <1>6, <1>7

\* Nobody is RUNNING for an instance that stops.
LEMMA StopChanged ==
    ASSUME IInv, JobsOK, NEW i \in Instance, Stop(i)
    PROVE  \A k \in Instance : Changed(k)
<1>1. /\ modes'[i] = FreshView.modes /\ jobs'[i] = {}
      /\ \A k \in Instance \ {i} : modes'[k] = modes[k] /\ jobs'[k] = jobs[k]
  BY DEF Stop, IInv, DeclaredOK
<1>2. \A j \in Instance : Seen(i, j)' = "STOPPED"
  BY <1>1 DEF Seen, FreshView, FreshModes
<1>3. Changed(i)
  BY <1>1, <1>2 DEF Changed
<1>4. \A k \in Instance \ {i} : Changed(k)
  BY <1>1, SameChanged
<1> QED BY <1>3, <1>4

\* The events of the main thread and the proxies of i, one by one.
LEMMA HandleChanged ==
    ASSUME IInv, JobsOK, NEW i \in Instance, Handle(i)
    PROVE  \A k \in Instance : Changed(k)
<1>1. ASSUME NEW p \in Preferred, NEW work \in Works
      PROVE  Parameters(p, work)
  BY BoundsAssumption DEF Parameters
<1>2. ASSUME NEW p \in Preferred, NEW work \in Works,
             \/ \E S \in SUBSET Instance : OnTick(i, S, p, work)
             \/ \E j \in Instance : OnHandshakeState(i, j, p, work) \/ OnAuthorization(i, j, p, work)
             \/ \E m \in Instance \cup {NoMaster} : EndSync(i, m, p, work)
             \/ \E s \in EndRequests : OnEndRequest(i, s, p, work)
             \/ \E j \in Instance : Publish(i, j, p, work)
      PROVE  \A k \in Instance : Changed(k)
  BY <1>1, <1>2, OnTickChanged, OnHandshakeStateChanged, OnAuthorizationChanged, EndSyncChanged,
     OnEndRequestChanged, PublishChanged
<1>3. ASSUME NEW j \in Instance, OnRemoteTick(i, j) \/ OnInstanceFailure(i, j)
      PROVE  \A k \in Instance : Changed(k)
  BY <1>3, OnRemoteTickChanged, OnInstanceFailureChanged
<1>4. ASSUME NEW j \in Instance, SendFailure(i, j) \/ \E code \in Codes : CheckInstance(i, j, code)
      PROVE  \A k \in Instance : Changed(k)
  BY <1>4, ViewsChanged DEF SendFailure, CheckInstance, viewVars
<1>5. CASE JobsDone(i) \/ Elapse(i)
  BY <1>5, JobsDoneChanged, ViewsChanged DEF Elapse
<1> QED BY <1>2, <1>3, <1>4, <1>5 DEF Handle

\* Every step.
LEMMA NextChanged ==
    IInv /\ JobsOK /\ [Next]_vars => \A k \in Instance : Changed(k)
<1> SUFFICES ASSUME IInv, JobsOK, [Next]_vars PROVE \A k \in Instance : Changed(k)
  OBVIOUS
<1>1. ASSUME NEW i \in Instance, Start(i) \/ Crash(i) \/ End(i)
      PROVE  \A k \in Instance : Changed(k)
  BY <1>1, StartChanged, StopChanged DEF Crash, End
<1>2. ASSUME \/ \E i, j \in Instance : Cut(i, j) \/ Heal(i, j)
             \/ ConflictAppears \/ ConflictEnds
      PROVE  \A k \in Instance : Changed(k)
  BY <1>2, ViewsChanged DEF Cut, Heal, ConflictAppears, ConflictEnds, viewVars
<1>3. CASE UNCHANGED vars
  BY <1>3, ViewsChanged DEF vars, viewVars
<1> QED BY <1>1, <1>2, <1>3, HandleChanged DEF Next, Environment

\* The bodies of MasterKept and NoNewcomer.
MasterStep ==
    \A i, m \in Instance :
        Master(i) = m /\ Seen(i, m) = "RUNNING" /\ Seen(i, m)' = "RUNNING"
        => \/ Master(i)' = m
           \/ /\ Master(i)' # NoMaster
              /\ \E j \in Instance \ {i} :
                    Seen(i, j)' = "RUNNING" /\ modes'[i][j].master = Master(i)'

NewcomerStep ==
    \A i, j \in Instance :
        Distributing(i) /\ Seen(i, j) # "RUNNING" /\ Seen(i, j)' = "RUNNING"
        => \/ Fsm(i)' \in {"RESTARTING", "SHUTTING_DOWN", "FINAL"}
           \/ \E k \in Instance \ {i} : Seen(i, k) = "RUNNING" /\ modes'[i][k].master # i

\* The jobs stay with the Master, in every reachable state.
LEMMA JobsInvariant == Spec => [](IInv /\ JobsOK)
<1>1. Init => IInv /\ JobsOK
  BY InitEstablishes DEF Init, JobsOK
<1>2. (IInv /\ JobsOK) /\ [Next]_vars => (IInv /\ JobsOK)'
  BY NextPreserves, NextChanged DEF Changed, JobsOK
<1> QED BY <1>1, <1>2, PTL DEF Spec

\* Whatever the options, the user and the faults, an instance that sees its Master
\* RUNNING before and after a step still follows it, unless another RUNNING instance
\* declares the Master it takes: no election starts again on its own, and the Master
\* chosen by a user is not selected over again (select_master, statemodes.py:419).
THEOREM MasterAlwaysKept == Spec => MasterKept
<1>1. (IInv /\ JobsOK) /\ [Next]_vars => [MasterStep]_vars
  BY NextChanged DEF Changed, MasterStep
<1>2. [][MasterStep]_vars => MasterKept
  BY PTL DEF MasterKept, MasterStep
<1> QED BY <1>1, <1>2, JobsInvariant, PTL DEF Spec

\* Nobody joins a distribution in progress, as _activate_instances promises: whatever
\* handshake ends meanwhile, the instances of the Master that distributes only grow
\* when it leaves the distribution, to end or because one of them does not follow it.
THEOREM NewcomersAlwaysWait == Spec => NoNewcomer
<1>1. (IInv /\ JobsOK) /\ [Next]_vars => [NewcomerStep]_vars
  BY NextChanged DEF Changed, NewcomerStep
<1>2. [][NewcomerStep]_vars => NoNewcomer
  BY PTL DEF NoNewcomer, NewcomerStep
<1> QED BY <1>1, <1>2, JobsInvariant, PTL DEF Spec
=============================================================================
