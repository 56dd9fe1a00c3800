------------------------- MODULE StateMachineProofs -------------------------
(***************************************************************************)
(* Theorems of StateMachine.  The inductive invariant says that every      *)
(* StateModes in the cluster, held, published or waiting, declares a       *)
(* Master that is RUNNING for the instance which declares it.  An          *)
(* instance only selects one among those once the RUNNING instances agree  *)
(* on the RUNNING instances: so the Master selected is RUNNING for it      *)
(* too.  The USER option selects and accepts a Master without this         *)
(* agreement, which the parameter u of the lemmas on StateModes stands for.*)
(***************************************************************************)
EXTENDS StateMachine, SequenceTheorems, WellFoundedInduction, TLAPS

-----------------------------------------------------------------------------
(* What the operations of StateModes return and preserve.  They are stated   *)
(* over the views that are "sound" for the instance i that holds them:       *)
(*   - in every StateModes that is held or published, the Master is RUNNING  *)
(*     (not required when u is TRUE);                                        *)
(*   - the local instance is RUNNING once the FSM has left OFF.              *)

Coherent(m) == m.master # NoMaster => m.states[m.master] = "RUNNING"

Declared(u) == {m \in StateModesRecord : u \/ Coherent(m)}

SoundView(u) == [modes : [Instance -> Declared(u)],
                 mark : BOOLEAN, late : BOOLEAN, degraded : BOOLEAN,
                 jobs : SUBSET {"start", "stop"}, out : Seq(Declared(u))]

LocalAlive(v, i) == v.modes[i].state # "OFF" => v.modes[i].states[i] = "RUNNING"

Sound(u, i) == {v \in SoundView(u) : LocalAlive(v, i)}

\* A step that leaves the instance states alone.
SameStates(v, w, i) == w.modes[i].states = v.modes[i].states

-----------------------------------------------------------------------------
\* A new StateModes declares no Master.
LEMMA FreshModesDeclared ==
    ASSUME NEW u \in BOOLEAN
    PROVE  FreshModes \in Declared(u)
BY DEF FreshModes, Declared, Coherent, StateModesRecord, FsmStates, InstanceStates

\* Publishing the local modes changes nothing but v.out.
LEMMA PublishStatusSound ==
    ASSUME NEW u \in BOOLEAN, NEW i \in Instance, NEW v \in SoundView(u)
    PROVE  /\ PublishStatus(v, i) \in SoundView(u)
           /\ PublishStatus(v, i).modes = v.modes
           /\ PublishStatus(v, i).jobs = v.jobs
           /\ PublishStatus(v, i).mark = v.mark
<1>1. v.modes[i] \in Declared(u)
  BY DEF SoundView
<1>2. Append(v.out, v.modes[i]) \in Seq(Declared(u))
  BY <1>1, AppendProperties DEF SoundView
<1> QED BY <1>2 DEF PublishStatus, SoundView

\* Replacing the modes held for one instance.
LEMMA ReplaceModes ==
    ASSUME NEW u \in BOOLEAN, NEW i \in Instance, NEW v \in SoundView(u), NEW m \in Declared(u)
    PROVE  /\ [v EXCEPT !.modes[i] = m] \in SoundView(u)
           /\ [v EXCEPT !.modes[i] = m].modes[i] = m
           /\ \A j \in Instance \ {i} : [v EXCEPT !.modes[i] = m].modes[j] = v.modes[j]
BY DEF SoundView

\* set_state changes the FSM state only.
LEMMA SetStateSound ==
    ASSUME NEW u \in BOOLEAN, NEW i \in Instance, NEW v \in Sound(u, i), NEW s \in FsmStates,
           s # "OFF" => v.modes[i].states[i] = "RUNNING"
    PROVE  /\ SetState(v, i, s) \in Sound(u, i)
           /\ SameStates(v, SetState(v, i, s), i)
           /\ SetState(v, i, s).modes[i] = [v.modes[i] EXCEPT !.state = s]
<1>1. CASE v.modes[i].state = s
  BY <1>1 DEF SameStates, SetState, Sound, SoundView, Declared, StateModesRecord
<1>2. CASE v.modes[i].state # s
  <2> DEFINE m == [v.modes[i] EXCEPT !.state = s]
             w == [v EXCEPT !.modes[i].state = s]
  <2>1. v.modes[i] \in Declared(u)
    BY DEF Sound, SoundView
  <2>2. m \in Declared(u)
    BY <2>1 DEF Declared, StateModesRecord, Coherent
  <2>3. w = [v EXCEPT !.modes[i] = m]
    BY DEF Sound, SoundView
  <2>4. w \in SoundView(u) /\ w.modes[i] = m
    BY <2>2, <2>3, ReplaceModes DEF Sound
  <2>5. SetState(v, i, s) = PublishStatus(w, i)
    BY <1>2 DEF SetState
  <2>6. m.states = v.modes[i].states /\ m.state = s
    BY <2>1 DEF Declared, StateModesRecord
  <2> HIDE DEF w
  <2>7. /\ SetState(v, i, s) \in SoundView(u)
        /\ SetState(v, i, s).modes[i] = m
    BY <2>4, <2>5, PublishStatusSound
  <2> QED BY <2>6, <2>7 DEF Sound, LocalAlive, SameStates
<1> QED BY <1>1, <1>2

\* set_master changes the Master only, to one that is RUNNING (or to any if u).
LEMMA SetMasterSound ==
    ASSUME NEW u \in BOOLEAN, NEW i \in Instance, NEW v \in Sound(u, i),
           NEW m \in Instance \cup {NoMaster},
           u \/ m = NoMaster \/ v.modes[i].states[m] = "RUNNING"
    PROVE  /\ SetMaster(v, i, m) \in Sound(u, i)
           /\ SameStates(v, SetMaster(v, i, m), i)
           /\ SetMaster(v, i, m).modes[i] = [v.modes[i] EXCEPT !.master = m]
<1>1. CASE v.modes[i].master = m
  BY <1>1 DEF SameStates, SetMaster, Sound, SoundView, Declared, StateModesRecord
<1>2. CASE v.modes[i].master # m
  <2> DEFINE n == [v.modes[i] EXCEPT !.master = m]
             w == [v EXCEPT !.modes[i].master = m]
  <2>1. v.modes[i] \in Declared(u)
    BY DEF Sound, SoundView
  <2>2. n \in Declared(u)
    BY <2>1 DEF Declared, StateModesRecord, Coherent
  <2>3. w = [v EXCEPT !.modes[i] = n]
    BY DEF Sound, SoundView
  <2>4. w \in SoundView(u) /\ w.modes[i] = n
    BY <2>2, <2>3, ReplaceModes DEF Sound
  <2>5. SetMaster(v, i, m) = PublishStatus(w, i)
    BY <1>2 DEF SetMaster
  <2>6. n.states = v.modes[i].states /\ n.state = v.modes[i].state
    BY <2>1 DEF Declared, StateModesRecord
  <2> HIDE DEF w
  <2>7. /\ SetMaster(v, i, m) \in SoundView(u)
        /\ SetMaster(v, i, m).modes[i] = n
    BY <2>4, <2>5, PublishStatusSound
  <2> QED BY <2>6, <2>7 DEF Sound, LocalAlive, SameStates
<1> QED BY <1>1, <1>2

\* The flags and the jobs have no part in what the instances see of each other.
LEMMA SetDegradedSound ==
    ASSUME NEW u \in BOOLEAN, NEW i \in Instance, NEW v \in Sound(u, i), NEW d \in BOOLEAN
    PROVE  /\ SetDegraded(v, i, d) \in Sound(u, i)
           /\ SetDegraded(v, i, d).modes = v.modes
<1>1. CASE v.degraded = d
  BY <1>1 DEF SetDegraded
<1>2. CASE v.degraded # d
  <2> DEFINE w == [v EXCEPT !.degraded = d]
  <2>1. w \in SoundView(u) /\ w.modes = v.modes
    BY DEF Sound, SoundView
  <2>2. SetDegraded(v, i, d) = PublishStatus(w, i)
    BY <1>2 DEF SetDegraded
  <2> HIDE DEF w
  <2> QED BY <2>1, <2>2, PublishStatusSound DEF Sound, LocalAlive
<1> QED BY <1>1, <1>2

\* The jobs have no part either.
LEMMA SetJobsSound ==
    ASSUME NEW u \in BOOLEAN, NEW i \in Instance, NEW v \in Sound(u, i),
           NEW js \in SUBSET {"start", "stop"}
    PROVE  /\ SetJobs(v, i, js) \in Sound(u, i)
           /\ SetJobs(v, i, js).modes = v.modes
<1>1. CASE v.jobs = js
  BY <1>1 DEF SetJobs
<1>2. CASE v.jobs # js
  <2> DEFINE w == [v EXCEPT !.jobs = js]
  <2>1. w \in SoundView(u) /\ w.modes = v.modes
    BY DEF Sound, SoundView
  <2>2. SetJobs(v, i, js) = PublishStatus(w, i)
    BY <1>2 DEF SetJobs
  <2> HIDE DEF w
  <2> QED BY <2>1, <2>2, PublishStatusSound DEF Sound, LocalAlive
<1> QED BY <1>1, <1>2

\* Giving up the jobs changes the jobs and the mark only.
LEMMA AbortJobsSound ==
    ASSUME NEW u \in BOOLEAN, NEW i \in Instance, NEW v \in Sound(u, i)
    PROVE  /\ AbortJobs(v) \in Sound(u, i)
           /\ AbortJobs(v).modes = v.modes
BY DEF AbortJobs, Sound, SoundView, LocalAlive

\* The deferred publication changes the mark and v.out only.
LEMMA DeferredPublishStatusSound ==
    ASSUME NEW u \in BOOLEAN, NEW i \in Instance, NEW v \in Sound(u, i)
    PROVE  /\ DeferredPublishStatus(v, i) \in Sound(u, i)
           /\ DeferredPublishStatus(v, i).modes = v.modes
<1>1. CASE v.mark
  <2> DEFINE w == PublishStatus(v, i)
  <2>1. w \in SoundView(u) /\ w.modes = v.modes
    BY PublishStatusSound DEF Sound
  <2>2. DeferredPublishStatus(v, i) = [w EXCEPT !.mark = FALSE]
    BY <1>1 DEF DeferredPublishStatus
  <2> HIDE DEF w
  <2>3. [w EXCEPT !.mark = FALSE] \in SoundView(u) /\ [w EXCEPT !.mark = FALSE].modes = v.modes
    BY <2>1 DEF SoundView
  <2> QED BY <2>2, <2>3 DEF Sound, LocalAlive
<1>2. CASE ~v.mark
  BY <1>2 DEF DeferredPublishStatus
<1> QED BY <1>1, <1>2

\* There is a lowest nick identifier in any set of instances.
LEMMA LowestMember ==
    ASSUME NEW S \in SUBSET Instance, S # {}
    PROVE  Lowest(S) \in S /\ \A d \in S : Rank[Lowest(S)] <= Rank[d]
<1> DEFINE T == {Rank[c] : c \in S}
<1>1. T \subseteq Nat /\ T # {}
  BY RankAssumption
<1> DEFINE R == OpToRel(<, Nat)
<1>2. IsWellFoundedOn(R, Nat)
  BY NatLessThanWellFounded
<1>3. \A y, x \in Nat : y < x => <<y, x>> \in R
  BY DEF OpToRel
<1> HIDE DEF R, T
<1>4. PICK x \in T : \A y \in T : ~ (<<y, x>> \in R)
  BY <1>1, <1>2, WFMin
<1>5. x \in Nat /\ \A y \in T : y \in Nat /\ ~ (y < x)
  BY <1>1, <1>3, <1>4, Zenon
<1>6. \A y \in T : x <= y
  BY <1>5
<1>7. \E c \in S : \A d \in S : Rank[c] <= Rank[d]
  BY <1>6 DEF T
<1> QED BY <1>7 DEF Lowest

\* An instance state may change in any way as long as the local instance stays
\* RUNNING: the Master is forgotten in time.
LEMMA UpdateInstanceStateSound ==
    ASSUME NEW u \in BOOLEAN, NEW i \in Instance, NEW v \in Sound(u, i),
           NEW j \in Instance, NEW s \in InstanceStates,
           j = i /\ s # "RUNNING" => v.modes[i].state = "OFF"
    PROVE  LET w == UpdateInstanceState(v, i, j, s)
           IN  /\ w \in Sound(u, i)
               /\ w.modes[i].state = v.modes[i].state
               /\ w.modes[i].states = [v.modes[i].states EXCEPT ![j] = s]
               /\ w.modes[i].master \in {v.modes[i].master, NoMaster}
<1> DEFINE m(n)     == [v.modes[i] EXCEPT !.master = n, !.states[j] = s]
           recorded == [v EXCEPT !.modes[i].states[j] = s]
           forgot   == IF s \in {"STOPPED", "ISOLATED"} /\ j # i
                       THEN [recorded EXCEPT !.modes[j] = FreshModes] ELSE recorded
           master   == v.modes[i].master
<1>1. v \in SoundView(u) /\ v.modes[i] \in Declared(u)
  BY DEF Sound, SoundView
<1>2. /\ m(NoMaster) \in Declared(u)
      /\ s = "RUNNING" \/ master # j => m(master) \in Declared(u)
  BY <1>1, NoMasterAssumption DEF Declared, StateModesRecord, Coherent
<1>3. ASSUME NEW n \in {NoMaster, master}
      PROVE  /\ m(n).state = v.modes[i].state
             /\ m(n).states = [v.modes[i].states EXCEPT ![j] = s]
             /\ m(n).master = n
             /\ LocalAlive(v, i) /\ m(n).state # "OFF" => m(n).states[i] = "RUNNING"
  BY <1>1 DEF Declared, StateModesRecord, LocalAlive
<1>4. LocalAlive(v, i)
  BY DEF Sound
<1>5. CASE s # "RUNNING" /\ master = j
  <2> DEFINE base == [v EXCEPT !.modes[i] = m(NoMaster)]
             w == [forgot EXCEPT !.modes[i].master = NoMaster]
  <2>1. base \in SoundView(u) /\ base.modes[i] = m(NoMaster)
    BY <1>1, <1>2, ReplaceModes
  <2>2. /\ forgot.modes \in [Instance -> StateModesRecord]
        /\ forgot.modes[i] = m(master)
        /\ \A k \in Instance \ {i} : forgot.modes[k] \in Declared(u)
        /\ forgot = [v EXCEPT !.modes = forgot.modes]
    BY <1>1, FreshModesDeclared DEF SoundView, Declared, StateModesRecord
  <2>3. m(NoMaster) = [m(master) EXCEPT !.master = NoMaster]
    BY <1>1 DEF Declared, StateModesRecord
  <2> HIDE DEF forgot, m
  <2>4. w.modes = [forgot.modes EXCEPT ![i] = m(NoMaster)] /\ w = [v EXCEPT !.modes = w.modes]
    BY <1>1, <2>2, <2>3 DEF SoundView
  <2> HIDE DEF w
  <2>5. w \in SoundView(u) /\ w.modes[i] = m(NoMaster)
    BY <1>1, <1>2, <2>2, <2>4 DEF SoundView, Declared
  <2>6. UpdateInstanceState(v, i, j, s) = SetMaster(forgot, i, NoMaster)
    BY <1>5 DEF UpdateInstanceState, forgot
  <2>7. forgot.modes[i].master = j
    BY <1>1, <1>5, <2>2 DEF m, Declared, StateModesRecord
  <2>8. UpdateInstanceState(v, i, j, s) = PublishStatus(w, i)
    BY <2>6, <2>7, NoMasterAssumption DEF SetMaster, w
  <2> HIDE DEF w
  <2>9. /\ UpdateInstanceState(v, i, j, s) \in SoundView(u)
        /\ UpdateInstanceState(v, i, j, s).modes[i] = m(NoMaster)
    BY <2>5, <2>8, PublishStatusSound
  <2> QED BY <1>3, <1>4, <2>9 DEF Sound, LocalAlive
<1>6. CASE ~ (s # "RUNNING" /\ master = j)
  <2> DEFINE base == [v EXCEPT !.modes[i] = m(master)]
             w == [forgot EXCEPT !.mark = TRUE]
  <2>1. base \in SoundView(u) /\ base.modes[i] = m(master)
    BY <1>1, <1>2, <1>6, ReplaceModes
  <2>2. forgot = IF s \in {"STOPPED", "ISOLATED"} /\ j # i
                 THEN [base EXCEPT !.modes[j] = FreshModes] ELSE base
    BY <1>1 DEF SoundView, Declared, StateModesRecord
  <2> HIDE DEF base, m, forgot
  <2>3. forgot \in SoundView(u) /\ forgot.modes[i] = m(master)
    BY <2>1, <2>2, FreshModesDeclared, ReplaceModes
  <2>4. w \in SoundView(u) /\ w.modes[i] = m(master)
    BY <2>3 DEF SoundView
  <2>5. UpdateInstanceState(v, i, j, s) = w
    BY <1>6 DEF UpdateInstanceState, forgot
  <2> QED BY <1>3, <1>4, <2>4, <2>5 DEF Sound, LocalAlive
<1> QED BY <1>5, <1>6

\* When the RUNNING instances agree, they agree on what the local instance sees.
LEMMA StableIdentifiersAgree ==
    ASSUME NEW u \in BOOLEAN, NEW i \in Instance, NEW v \in SoundView(u),
           v.modes[i].states[i] = "RUNNING", StableIdentifiers(v, i) # {}
    PROVE  \A j \in Running(v, i) : RunningIdentifiers(v.modes[j]) = Running(v, i)
<1> DEFINE stable(j) == StableRunningIdentifiers(v.modes[j])
           declared  == {stable(j) : j \in Running(v, i)}
<1>1. i \in Running(v, i)
  BY DEF Running, RunningIdentifiers
<1>2. (\A S, T \in declared : S = T) /\ UNION declared # {}
  BY DEF StableIdentifiers
<1>3. \A j \in Running(v, i) : stable(j) = stable(i) /\ stable(j) # {}
  BY <1>1, <1>2
<1>4. \A j \in Running(v, i) : stable(j) = RunningIdentifiers(v.modes[j])
  BY <1>3 DEF StableRunningIdentifiers
<1> QED BY <1>1, <1>3, <1>4 DEF Running

\* The Master selected is RUNNING when the RUNNING instances agree.
LEMMA SelectMasterSound ==
    ASSUME NEW u \in BOOLEAN, NEW i \in Instance, NEW v \in Sound(u, i),
           v.modes[i].states[i] = "RUNNING",
           u \/ StableIdentifiers(v, i) # {}
    PROVE  /\ SelectMaster(v, i) \in Sound(u, i)
           /\ SameStates(v, SelectMaster(v, i), i)
<1>1. v \in SoundView(u) /\ \A j \in Instance : v.modes[j] \in Declared(u)
  BY DEF Sound, SoundView
<1>2. i \in Running(v, i) /\ Running(v, i) \subseteq Instance
  BY DEF Running, RunningIdentifiers
<1>3. MasterIdentifiers(v, i) \subseteq Instance \cup {NoMaster}
  BY <1>1, <1>2 DEF MasterIdentifiers, Declared, StateModesRecord
<1>4. Candidates(v, i) # {} /\ Candidates(v, i) \subseteq Instance
  BY <1>2, <1>3 DEF Candidates
<1>5. CASE u
  BY <1>4, <1>5, LowestMember, SetMasterSound DEF SelectMaster
<1>6. CASE ~u
  <2>1. \A j \in Running(v, i) : Coherent(v.modes[j])
    BY <1>1, <1>2, <1>6 DEF Declared
  <2>2. \A j \in Running(v, i) :
           v.modes[j].master \in Instance => v.modes[j].master \in RunningIdentifiers(v.modes[j])
    BY <2>1, NoMasterAssumption DEF Coherent, RunningIdentifiers
  <2>3. MasterIdentifiers(v, i) \ {NoMaster} \subseteq Running(v, i)
    BY <1>1, <1>3, <1>6, <2>2, StableIdentifiersAgree DEF MasterIdentifiers
  <2>4. Candidates(v, i) \subseteq Running(v, i)
    BY <2>3 DEF Candidates
  <2>5. v.modes[i].states[Lowest(Candidates(v, i))] = "RUNNING"
    BY <1>4, <2>4, LowestMember DEF Running, RunningIdentifiers
  <2> QED BY <1>4, <2>5, LowestMember, SetMasterSound DEF SelectMaster
<1> QED BY <1>5, <1>6

\* The Master accepted is not checked, which is what u allows.
LEMMA AcceptMasterSound ==
    ASSUME NEW u \in BOOLEAN, u, NEW i \in Instance, NEW v \in Sound(u, i), NEW p \in Instance
    PROVE  /\ AcceptMaster(v, i, p) \in Sound(u, i)
           /\ SameStates(v, AcceptMaster(v, i, p), i)
<1> DEFINE masters == MasterIdentifiers(v, i) \ {NoMaster}
<1>1. masters \subseteq Instance
  BY DEF MasterIdentifiers, Running, RunningIdentifiers, Sound, SoundView, Declared, StateModesRecord
<1>2. CASE masters = {}
  BY <1>2 DEF SameStates, AcceptMaster
<1>3. CASE masters # {}
  <2> DEFINE m == IF p \in masters THEN p ELSE Lowest(masters)
  <2>1. m \in Instance
    BY <1>1, <1>3, LowestMember
  <2>2. AcceptMaster(v, i, p) = SetMaster(v, i, m)
    BY <1>3 DEF AcceptMaster
  <2>3. SetMaster(v, i, m) \in Sound(u, i) /\ SameStates(v, SetMaster(v, i, m), i)
    <3> HIDE DEF m
    <3>1. m \in Instance \cup {NoMaster}
      BY <2>1
    <3> QED BY <3>1, SetMasterSound
  <2> QED BY <2>2, <2>3
<1> QED BY <1>2, <1>3

\* What is received is kept as it is.
LEMMA OnInstanceStateEventSound ==
    ASSUME NEW u \in BOOLEAN, NEW i \in Instance, NEW v \in Sound(u, i),
           NEW j \in Instance, NEW m \in Declared(u)
    PROVE  /\ OnInstanceStateEvent(v, i, j, m) \in Sound(u, i)
           /\ OnInstanceStateEvent(v, i, j, m).modes[i] = v.modes[i]
<1>1. CASE j = i
  BY <1>1 DEF OnInstanceStateEvent
<1>2. CASE j # i
  <2> DEFINE w == [v EXCEPT !.modes[j] = m]
  <2>1. w \in SoundView(u) /\ w.modes[i] = v.modes[i]
    BY <1>2, ReplaceModes DEF Sound
  <2>2. OnInstanceStateEvent(v, i, j, m) = w
    BY <1>2 DEF OnInstanceStateEvent
  <2> HIDE DEF w
  <2> QED BY <2>1, <2>2 DEF Sound, LocalAlive
<1> QED BY <1>1, <1>2

-----------------------------------------------------------------------------
(* The evaluation of the FSM. *)


UserSync == "USER" \in SyncOptions

\* UserSync may stand for the parameter u of the lemmas above.
LEMMA UserSyncBoolean == UserSync \in BOOLEAN
BY DEF UserSync

\* What is published is made of StateModes.
LEMMA DeclaredSequences == Seq(Declared(UserSync)) \subseteq Seq(StateModesRecord)
<1>1. Declared(UserSync) \subseteq StateModesRecord
  BY DEF Declared
<1> HIDE DEF Declared
<1>2. ASSUME NEW q \in Seq(Declared(UserSync)) PROVE q \in Seq(StateModesRecord)
  BY <1>1, SeqDef
<1> QED BY <1>2

\* What an evaluation may return: there is no way out of OFF but with a local
\* instance that is RUNNING.
Result(i) ==
    {r \in [v : Sound(UserSync, i), next : FsmStates \cup {"NONE"}] :
        r.next \in {"NONE", "OFF"} \/ r.v.modes[i].states[i] = "RUNNING"}

-----------------------------------------------------------------------------
\* What an evaluation of the FSM of i may do to the instance states: FAILED
\* instances are invalidated, and only isolated with auto_fence, and CHECKED ones are
\* activated.
Advance(v, w, i) ==
    \A j \in Instance :
        \/ w.modes[i].states[j] = v.modes[i].states[j]
        \/ /\ v.modes[i].states[j] = "FAILED"
           /\ w.modes[i].states[j] = "STOPPED" \/ (w.modes[i].states[j] = "ISOLATED" /\ AutoFence /\ j # i)
        \/ v.modes[i].states[j] = "CHECKED" /\ w.modes[i].states[j] = "RUNNING"

\* Advance is a preorder.
LEMMA AdvanceReflexive ==
    ASSUME NEW v, NEW i
    PROVE  Advance(v, v, i)
BY DEF Advance

\* Steps that advance the instance states can be chained.
LEMMA AdvanceTransitive ==
    ASSUME NEW v, NEW w, NEW x, NEW i, Advance(v, w, i), Advance(w, x, i)
    PROVE  Advance(v, x, i)
BY DEF Advance

\* The steps that leave the instance states alone.
LEMMA SameStatesAdvance ==
    ASSUME NEW v, NEW w, NEW i, SameStates(v, w, i)
    PROVE  Advance(v, w, i)
BY DEF Advance, SameStates

-----------------------------------------------------------------------------
(* The parts of the evaluation. *)

\* invalidate_failed resets a Master that it invalidates.
LEMMA InvalidateFailedSound ==
    ASSUME NEW i \in Instance, NEW v \in Sound(UserSync, i)
    PROVE  /\ InvalidateFailed(v, i) \in Sound(UserSync, i)
           /\ Advance(v, InvalidateFailed(v, i), i)
           /\ InvalidateFailed(v, i).modes[i].state = v.modes[i].state
<1> DEFINE u == UserSync
           S == Failed(v, i)
           states == [k \in Instance |-> IF k \in S THEN InvalidState(v, i, k, FALSE)
                                         ELSE v.modes[i].states[k]]
           m == [v.modes[i] EXCEPT !.states = states]
           all == [j \in Instance |-> IF j = i THEN m ELSE IF j \in S THEN FreshModes ELSE v.modes[j]]
           v1 == [v EXCEPT !.modes = all, !.mark = @ \/ S # {}]
<1>0. u \in BOOLEAN
  BY UserSyncBoolean
<1>1. v \in SoundView(u) /\ v.modes[i] \in Declared(u) /\ LocalAlive(v, i)
  BY DEF Sound, SoundView
<1>2. \A k \in Instance : InvalidState(v, i, k, FALSE) \in {"STOPPED", "ISOLATED"}
  BY DEF InvalidState
<1>3. \A k \in Instance : k \in S => v.modes[i].states[k] = "FAILED"
  BY DEF Failed
<1>4. \A k \in Instance :
         \/ states[k] = v.modes[i].states[k]
         \/ /\ v.modes[i].states[k] = "FAILED"
            /\ states[k] = "STOPPED" \/ (states[k] = "ISOLATED" /\ AutoFence /\ k # i)
  BY <1>3 DEF InvalidState
<1> HIDE DEF S
<1>5. states \in [Instance -> InstanceStates]
  BY <1>1, <1>2 DEF Declared, StateModesRecord, InstanceStates
<1>6. m \in Declared(u) /\ m.states = states /\ m.state = v.modes[i].state
  <2> HIDE DEF states
  <2> QED BY <1>1, <1>4, <1>5, NoMasterAssumption DEF Declared, StateModesRecord, Coherent
<1> HIDE DEF states, m
<1>7. v1 \in SoundView(u) /\ v1.modes[i] = m
  BY <1>0, <1>1, <1>6, FreshModesDeclared DEF SoundView
<1>8. v1 \in Sound(u, i) /\ Advance(v, v1, i)
  BY <1>1, <1>4, <1>6, <1>7 DEF Sound, LocalAlive, Advance
<1>9. InvalidateFailed(v, i) = IF v.modes[i].master \in S THEN SetMaster(v1, i, NoMaster) ELSE v1
  BY DEF InvalidateFailed, S, m, states
<1> HIDE DEF v1, u
<1>10. /\ SetMaster(v1, i, NoMaster) \in Sound(u, i)
       /\ Advance(v1, SetMaster(v1, i, NoMaster), i)
       /\ SetMaster(v1, i, NoMaster).modes[i] = [v1.modes[i] EXCEPT !.master = NoMaster]
  BY <1>0, <1>8, SetMasterSound, SameStatesAdvance
<1>11. [m EXCEPT !.master = NoMaster].state = m.state
  BY <1>6 DEF Declared, StateModesRecord
<1>12. Advance(v, SetMaster(v1, i, NoMaster), i)
  BY <1>8, <1>10, AdvanceTransitive
<1> QED BY <1>6, <1>7, <1>8, <1>9, <1>10, <1>11, <1>12 DEF u

\* _activate_instances takes nobody out of RUNNING.
LEMMA ActivateInstancesSound ==
    ASSUME NEW i \in Instance, NEW v \in Sound(UserSync, i)
    PROVE  /\ ActivateInstances(v, i) \in Sound(UserSync, i)
           /\ Advance(v, ActivateInstances(v, i), i)
           /\ ActivateInstances(v, i).modes[i].state = v.modes[i].state
<1> DEFINE u == UserSync
           states == [k \in Instance |-> IF k \in Checked(v, i) THEN "RUNNING"
                                         ELSE v.modes[i].states[k]]
           m == [v.modes[i] EXCEPT !.states = states]
           w == ActivateChecked(v, i)
<1>1. v \in SoundView(u) /\ v.modes[i] \in Declared(u) /\ LocalAlive(v, i)
  BY DEF Sound, SoundView
<1>2. states \in [Instance -> InstanceStates]
  BY <1>1 DEF Declared, StateModesRecord, InstanceStates
<1>3. \A k \in Instance :
         \/ states[k] = v.modes[i].states[k]
         \/ v.modes[i].states[k] = "CHECKED" /\ states[k] = "RUNNING"
  BY DEF Checked
<1>4. m \in Declared(u) /\ m.states = states /\ m.state = v.modes[i].state
  <2> HIDE DEF states
  <2> QED BY <1>1, <1>2, <1>3, NoMasterAssumption DEF Declared, StateModesRecord, Coherent
<1>5. w = [v EXCEPT !.modes[i] = m, !.mark = @ \/ Checked(v, i) # {}]
  BY <1>1 DEF SoundView, ActivateChecked
<1> HIDE DEF states, m, w
<1>6. w \in SoundView(u) /\ w.modes[i] = m
  BY <1>1, <1>4, <1>5 DEF SoundView
<1>7. w \in Sound(u, i) /\ Advance(v, w, i)
  BY <1>1, <1>3, <1>4, <1>6 DEF Sound, LocalAlive, Advance
<1> QED BY <1>4, <1>6, <1>7, AdvanceReflexive DEF ActivateInstances, w

\* The parameters of the handlers that the environment chooses.
Parameters(p, work) == p \in Instance /\ work \in SUBSET {"start", "stop"}

\* r is a possible outcome of an evaluation that started from v.
Outcome(i, v, r) == r \in Result(i) /\ Advance(v, r.v, i)

\* A suggestion leads out of OFF only if the local instance is RUNNING.
LEMMA SuggestOutcome ==
    ASSUME NEW i \in Instance, NEW v, NEW w \in Sound(UserSync, i), Advance(v, w, i),
           NEW s \in FsmStates \cup {"NONE"},
           s \in {"NONE", "OFF"} \/ w.modes[i].states[i] = "RUNNING"
    PROVE  Outcome(i, v, Suggest(w, s))
BY DEF Outcome, Result, Suggest

\* The operations that leave the modes alone.
LEMMA SameModes ==
    ASSUME NEW i \in Instance, NEW v, NEW w, w.modes = v.modes
    PROVE  Advance(v, w, i) /\ StableIdentifiers(w, i) = StableIdentifiers(v, i)
BY DEF Advance, StableIdentifiers, Running

\* SynchronizationState.next accepts a Master with the USER option only.
LEMMA SynchronizationNextSound ==
    ASSUME NEW i \in Instance, NEW v \in Sound(UserSync, i), NEW S, NEW p \in Instance,
           v.modes[i].states[i] = "RUNNING"
    PROVE  Outcome(i, v, SynchronizationNext(v, i, S, p))
<1> DEFINE w == IF "USER" \in SyncOptions THEN AcceptMaster(v, i, p) ELSE v
           x == SetDegraded(w, i, Degraded(S))
           s == SynchronizationNext(v, i, S, p).next
<1>1. w \in Sound(UserSync, i) /\ Advance(v, w, i)
  BY AcceptMasterSound, SameStatesAdvance, AdvanceReflexive, UserSyncBoolean DEF UserSync
<1>2. Degraded(S) \in BOOLEAN
  BY DEF Degraded
<1>3. SynchronizationNext(v, i, S, p) = Suggest(x, s) /\ s \in {"ELECTION", "SYNCHRONIZATION"}
  BY DEF SynchronizationNext, Suggest
<1> HIDE DEF w, s
<1>4. x \in Sound(UserSync, i) /\ x.modes = w.modes
  BY <1>1, <1>2, SetDegradedSound, UserSyncBoolean
<1>5. x.modes[i].states[i] = "RUNNING" /\ Advance(v, x, i)
  BY <1>1, <1>4 DEF Advance
<1> HIDE DEF x
<1> QED BY <1>3, <1>4, <1>5, SuggestOutcome DEF FsmStates

\* ElectionState.next selects a Master only if the RUNNING instances agree.
LEMMA ElectionNextSound ==
    ASSUME NEW i \in Instance, NEW v \in Sound(UserSync, i), NEW S,
           S # {} => StableIdentifiers(v, i) # {}, v.modes[i].states[i] = "RUNNING"
    PROVE  Outcome(i, v, ElectionNext(v, i, S))
<1>1. /\ Outcome(i, v, Suggest(v, "ELECTION"))
      /\ Outcome(i, v, Suggest(v, "DISTRIBUTION"))
  BY SuggestOutcome, AdvanceReflexive DEF FsmStates
<1>2. CASE S # {}
  <2>1. SelectMaster(v, i) \in Sound(UserSync, i) /\ Advance(v, SelectMaster(v, i), i)
    BY <1>2, SelectMasterSound, SameStatesAdvance, UserSyncBoolean
  <2>2. SelectMaster(v, i).modes[i].states[i] = "RUNNING"
    BY <2>1 DEF Advance
  <2>3. Outcome(i, v, Suggest(SelectMaster(v, i), "ELECTION"))
    BY <2>1, <2>2, SuggestOutcome DEF FsmStates
  <2> QED BY <1>1, <2>3 DEF ElectionNext
<1> QED BY <1>1, <1>2 DEF ElectionNext

\* _master_next changes the jobs only.
LEMMA MasterNextSound ==
    ASSUME NEW i \in Instance, NEW v \in Sound(UserSync, i), NEW lost,
           NEW work \in SUBSET {"start", "stop"}, v.modes[i].states[i] = "RUNNING",
           v.modes[i].state \in {"DISTRIBUTION", "OPERATION", "CONCILIATION"}
    PROVE  Outcome(i, v, MasterNext(v, i, lost, work))
<1> DEFINE fix == IF lost # {} THEN SetJobs(v, i, v.jobs \cup work) ELSE v
<1>1. v.jobs \cup work \in SUBSET {"start", "stop"}
  BY DEF Sound, SoundView
<1>2. fix \in Sound(UserSync, i) /\ fix.modes = v.modes
  BY <1>1, SetJobsSound, UserSyncBoolean
<1>3. SetJobs(v, i, work) \in Sound(UserSync, i) /\ SetJobs(v, i, work).modes = v.modes
  BY SetJobsSound, UserSyncBoolean
<1> HIDE DEF fix
<1>4. ASSUME NEW s \in {"DISTRIBUTION", "OPERATION", "CONCILIATION"}
      PROVE  /\ Outcome(i, v, Suggest(v, s))
             /\ Outcome(i, v, Suggest(fix, s))
             /\ Outcome(i, v, Suggest(SetJobs(v, i, work), s))
  <2>1. s \in FsmStates \cup {"NONE"}
    BY DEF FsmStates
  <2> QED BY <1>2, <1>3, <2>1, SuggestOutcome, SameModes
<1>5. CASE v.modes[i].state = "DISTRIBUTION"
  BY <1>4, <1>5 DEF MasterNext, fix
<1>6. CASE v.modes[i].state = "OPERATION"
  BY <1>4, <1>6 DEF MasterNext, fix
<1>7. CASE v.modes[i].state = "CONCILIATION"
  <2>1. MasterNext(v, i, lost, work) = ConciliationNext(v, i, work)
    BY <1>7 DEF MasterNext
  <2> QED BY <1>4, <2>1 DEF ConciliationNext
<1> QED BY <1>5, <1>6, <1>7

\* instance.next() of every state class has a sound outcome.
LEMMA EvaluateSound ==
    ASSUME NEW i \in Instance, NEW v \in Sound(UserSync, i), NEW p, NEW work, Parameters(p, work)
    PROVE  Outcome(i, v, Evaluate(v, i, p, work))
<1> DEFINE s      == v.modes[i].state
           lost   == Failed(v, i)
           active == ActivateInstances(InvalidateFailed(v, i), i)
           local  == active.modes[i].states[i] = "RUNNING"
           S      == StableIdentifiers(active, i)
           w      == IF local THEN SetDegraded(active, i, Degraded(S)) ELSE active
           broken == IF local THEN Consistence(w, i, S, lost) ELSE "OFF"
<1>1. /\ active \in Sound(UserSync, i)
      /\ Advance(v, active, i)
      /\ active.modes[i].state = s
  BY InvalidateFailedSound, ActivateInstancesSound, AdvanceTransitive
<1>2. s # "OFF" => local
  BY <1>1 DEF Sound, LocalAlive
<1> HIDE DEF active
<1>3. Degraded(S) \in BOOLEAN
  BY DEF Degraded
<1>4. w \in Sound(UserSync, i) /\ w.modes = active.modes
  BY <1>1, <1>3, SetDegradedSound, UserSyncBoolean
<1>5. Advance(v, w, i) /\ StableIdentifiers(w, i) = S
  <2> HIDE DEF w
  <2>1. Advance(active, w, i) /\ StableIdentifiers(w, i) = StableIdentifiers(active, i)
    BY <1>4, SameModes
  <2> QED BY <1>1, <2>1, AdvanceTransitive
<1>6. broken \in FsmStates \cup {"NONE"}
  BY DEF Consistence, FsmStates
<1>7. MasterState(w, i) \in FsmStates \cup {"NONE"}
  <2>1. w.modes[i].master \in Instance \cup {NoMaster}
    BY <1>4 DEF Sound, SoundView, Declared, StateModesRecord
  <2>2. \A j \in Instance : w.modes[j].state \in FsmStates
    BY <1>4 DEF Sound, SoundView, Declared, StateModesRecord
  <2> QED BY <2>1, <2>2 DEF MasterState
<1>8. s \in FsmStates
  BY DEF Sound, SoundView, Declared, StateModesRecord
<1> HIDE DEF w, broken, lost
<1>9. ASSUME NEW t \in FsmStates \cup {"NONE"}, t \in {"NONE", "OFF"} \/ local
      PROVE  Outcome(i, v, Suggest(active, t)) /\ Outcome(i, v, Suggest(w, t))
  BY <1>1, <1>4, <1>5, <1>9, SuggestOutcome
<1>10. ASSUME NEW r, Outcome(i, active, r) \/ Outcome(i, w, r)
       PROVE  Outcome(i, v, r)
  BY <1>1, <1>5, <1>10, AdvanceTransitive DEF Outcome
<1>11. CASE s = "OFF"
  <2>1. Evaluate(v, i, p, work) = Suggest(active, IF local THEN "SYNCHRONIZATION" ELSE "OFF")
    BY <1>11 DEF Evaluate, active
  <2> QED BY <1>9, <2>1 DEF FsmStates
<1>12. CASE s = "FINAL"
  <2>1. Evaluate(v, i, p, work) = Suggest(active, "NONE")
    BY <1>12 DEF Evaluate, active
  <2> QED BY <1>9, <2>1
<1>13. CASE s = "SYNCHRONIZATION"
  <2>1. Evaluate(v, i, p, work) = SynchronizationNext(active, i, S, p)
    BY <1>2, <1>13 DEF Evaluate, active
  <2> QED BY <1>1, <1>2, <1>10, <1>13, <2>1, SynchronizationNextSound DEF Parameters
<1>14. CASE s = "ELECTION"
  <2>1. Evaluate(v, i, p, work) =
            IF broken = "NONE" THEN ElectionNext(w, i, S) ELSE Suggest(w, broken)
    BY <1>14 DEF Evaluate, active, w, broken, lost
  <2>2. Outcome(i, w, ElectionNext(w, i, S))
    BY <1>2, <1>4, <1>5, <1>14, ElectionNextSound
  <2> QED BY <1>2, <1>6, <1>9, <1>10, <1>14, <2>1, <2>2
<1>15. CASE s \in {"DISTRIBUTION", "OPERATION", "CONCILIATION"}
  <2>1. Evaluate(v, i, p, work) =
            IF s # "DISTRIBUTION" /\ Checked(v, i) # {} THEN Suggest(active, "ELECTION")
            ELSE IF broken # "NONE" THEN Suggest(w, broken)
            ELSE IF IsMaster(w, i) THEN MasterNext(w, i, lost, work)
            ELSE Suggest(w, MasterState(w, i))
    BY <1>15 DEF Evaluate, active, w, broken, lost
  <2>2. Outcome(i, w, MasterNext(w, i, lost, work))
    BY <1>1, <1>2, <1>4, <1>15, MasterNextSound DEF Parameters
  <2>3. Outcome(i, v, Suggest(active, "ELECTION"))
    BY <1>2, <1>9, <1>15 DEF FsmStates
  <2> QED BY <1>2, <1>6, <1>7, <1>9, <1>10, <1>15, <2>1, <2>2, <2>3
<1>16. CASE s \in {"RESTARTING", "SHUTTING_DOWN"}
  <2>1. Evaluate(v, i, p, work) = Suggest(w, IF broken = "NONE" /\ Lasts(w, i) THEN s ELSE "FINAL")
    BY <1>16 DEF Evaluate, active, w, broken, lost
  <2> QED BY <1>2, <1>8, <1>9, <1>16, <2>1 DEF FsmStates
<1> QED BY <1>8, <1>11, <1>12, <1>13, <1>14, <1>15, <1>16 DEF FsmStates

\* enter() of every state class changes the jobs and the date only.
LEMMA EnterSound ==
    ASSUME NEW i \in Instance, NEW v \in Sound(UserSync, i), NEW work \in SUBSET {"start", "stop"}
    PROVE  Enter(v, i, work) \in Sound(UserSync, i) /\ Enter(v, i, work).modes = v.modes
<1> DEFINE aborted == AbortJobs(v)
<1>1. aborted \in Sound(UserSync, i) /\ aborted.modes = v.modes
  BY AbortJobsSound, UserSyncBoolean
<1> HIDE DEF aborted
<1>2. ASSUME NEW js \in SUBSET {"start", "stop"}
      PROVE  /\ SetJobs(v, i, js) \in Sound(UserSync, i)
             /\ SetJobs(v, i, js).modes = v.modes
             /\ SetJobs(aborted, i, js) \in Sound(UserSync, i)
             /\ SetJobs(aborted, i, js).modes = v.modes
  BY <1>1, SetJobsSound, UserSyncBoolean
<1>3. /\ [v EXCEPT !.late = FALSE] \in Sound(UserSync, i)
      /\ [v EXCEPT !.late = FALSE].modes = v.modes
  BY DEF Sound, SoundView, LocalAlive
<1>4. /\ v.jobs \cup work \in SUBSET {"start", "stop"}
      /\ v.jobs \cup (work \cap {"start"}) \in SUBSET {"start", "stop"}
      /\ work \cap {"stop"} \in SUBSET {"start", "stop"}
  BY DEF Sound, SoundView
<1> QED BY <1>1, <1>2, <1>3, <1>4 DEF Enter, aborted

\* One turn of the loop of set_state has a sound outcome.
LEMMA TurnSound ==
    ASSUME NEW i \in Instance, NEW v, NEW r, Outcome(i, v, r), NEW p, NEW work, Parameters(p, work)
    PROVE  Outcome(i, v, Turn(r, i, p, work))
<1> DEFINE s == r.v.modes[i].state
<1>1. r.v \in Sound(UserSync, i) /\ Advance(v, r.v, i)
  BY DEF Outcome, Result
<1>2. CASE r.next \in {"NONE", s} \/ r.next \notin Transitions[s]
  <2>1. Turn(r, i, p, work) = Suggest(r.v, "NONE")
    BY <1>2 DEF Turn
  <2> QED BY <1>1, <2>1, SuggestOutcome
<1>3. CASE ~ (r.next \in {"NONE", s} \/ r.next \notin Transitions[s])
  <2> DEFINE x == SetState(r.v, i, r.next)
             y == Enter(x, i, work)
  <2>1. r.next \in FsmStates /\ (r.next # "OFF" => r.v.modes[i].states[i] = "RUNNING")
    BY <1>3 DEF Outcome, Result
  <2>2. x \in Sound(UserSync, i) /\ Advance(r.v, x, i)
    BY <1>1, <2>1, SetStateSound, SameStatesAdvance, UserSyncBoolean
  <2> HIDE DEF x
  <2>3. y \in Sound(UserSync, i) /\ Advance(x, y, i)
    BY <2>2, EnterSound, SameModes DEF Parameters
  <2>4. Turn(r, i, p, work) = Evaluate(y, i, p, work)
    BY <1>3 DEF Turn, x
  <2> HIDE DEF y
  <2>5. Outcome(i, y, Turn(r, i, p, work))
    BY <2>3, <2>4, EvaluateSound
  <2> QED BY <1>1, <2>2, <2>3, <2>5, AdvanceTransitive DEF Outcome
<1> QED BY <1>2, <1>3

\* So has set_state, turn after turn.
LEMMA SetFsmStateSound ==
    ASSUME NEW i \in Instance, NEW v, NEW r, Outcome(i, v, r), NEW p, NEW work, Parameters(p, work)
    PROVE  /\ SetFsmState(r, i, p, work) \in Sound(UserSync, i)
           /\ Advance(v, SetFsmState(r, i, p, work), i)
<1> DEFINE T == [x \in Evaluation |-> Turn(x, i, p, work)]
<1>1. ASSUME NEW x, Outcome(i, v, x)
      PROVE  Outcome(i, v, T[x])
  <2>1. x \in [v : Sound(UserSync, i), next : FsmStates \cup {"NONE"}]
    BY <1>1 DEF Outcome, Result
  <2>2. Declared(UserSync) \subseteq StateModesRecord
    BY DEF Declared
  <2>3. Sound(UserSync, i) \subseteq View
    BY <2>2, DeclaredSequences DEF Sound, SoundView, View
  <2>4. x \in Evaluation
    BY <2>1, <2>3 DEF Evaluation
  <2>5. T[x] = Turn(x, i, p, work)
    BY <2>4
  <2> QED BY <1>1, <2>5, TurnSound
<1> HIDE DEF T
<1>2. Outcome(i, v, T[T[T[r]]])
  BY <1>1
<1>3. Outcome(i, v, T[T[T[T[T[T[r]]]]]])
  BY <1>1, <1>2
<1>4. Outcome(i, v, T[T[T[T[T[T[T[T[T[r]]]]]]]]])
  BY <1>1, <1>3
<1>5. SetFsmState(r, i, p, work) = T[T[T[T[T[T[T[T[T[r]]]]]]]]].v
  BY DEF SetFsmState, T
<1> QED BY <1>4, <1>5 DEF Outcome, Result

\* So has the evaluation of the FSM, from any sound view.
LEMMA FsmNextSound ==
    ASSUME NEW i \in Instance, NEW v \in Sound(UserSync, i), NEW p, NEW work, Parameters(p, work)
    PROVE  /\ FsmNext(v, i, p, work) \in Sound(UserSync, i)
           /\ Advance(v, FsmNext(v, i, p, work), i)
BY EvaluateSound, SetFsmStateSound DEF FsmNext

-----------------------------------------------------------------------------
(* The inductive invariant. *)

DeclaredAnswers ==
    [code : {"NONE", "UNKNOWN", "NOT_AUTHORIZED", "AUTHORIZED", "STATE", "LATE"},
     modes : Declared(UserSync)]

\* TypeOK, where every StateModes declares a Master that it sees RUNNING.
DeclaredOK ==
    /\ up \in [Instance -> BOOLEAN]
    /\ modes \in [Instance -> [Instance -> Declared(UserSync)]]
    /\ mark \in [Instance -> BOOLEAN] /\ late \in [Instance -> BOOLEAN]
    /\ degraded \in [Instance -> BOOLEAN]
    /\ jobs \in [Instance -> SUBSET {"start", "stop"}]
    /\ answer \in [Instance -> [Instance -> DeclaredAnswers]]
    /\ outbox \in [Instance -> [Instance -> Seq(Declared(UserSync))]]
    /\ failing \in [Instance -> SUBSET Instance]
    /\ heard \in [Instance -> [Instance -> 0..2]]
    /\ cut \in SUBSET SUBSET Instance
    /\ conflicts \in Nat /\ crashes \in Nat /\ cuts \in Nat

\* The proxy to the local instance never fails.
LocalReachable == \A i \in Instance : i \notin failing[i]

\* An authorization that is not obsolete is the one of the handshake in progress.
AnswersCurrent ==
    \A i, j \in Instance : answer[i][j].code \notin {"NONE", "LATE"} => Seen(i, j) = "CHECKING"

\* A new life starts from nothing.
DownIsFresh == \A i \in Instance : ~up[i] => modes[i] = FreshView.modes

IInv == DeclaredOK /\ LocalRunning /\ LocalReachable /\ AnswersCurrent /\ DownIsFresh

\* What a step does of the isolated instances.
IsolatedStep ==
    \A i, j \in Instance : Seen(i, j) = "ISOLATED" /\ up[i]' => Seen(i, j)' = "ISOLATED"

\* v is what a handler of i may leave.
Handled(i, v) ==
    /\ v \in Sound(UserSync, i)
    /\ \A j \in Instance : Seen(i, j) = "ISOLATED" => v.modes[i].states[j] = "ISOLATED"

\* A handler starts from a sound view.
LEMMA HeldHandled ==
    ASSUME NEW i \in Instance, IInv
    PROVE  Handled(i, Held(i)) /\ Held(i).modes = modes[i]
<1>1. << >> \in Seq(Declared(UserSync))
  BY EmptySeq
<1>2. Held(i) \in SoundView(UserSync) /\ Held(i).modes = modes[i]
  BY <1>1 DEF IInv, DeclaredOK, Held, SoundView
<1> QED BY <1>2 DEF IInv, LocalRunning, Fsm, Seen, Handled, Sound, LocalAlive

\* An evaluation does not bring an isolated instance back.
LEMMA AdvanceHandled ==
    ASSUME NEW i \in Instance, NEW v, NEW w \in Sound(UserSync, i), Handled(i, v), Advance(v, w, i)
    PROVE  Handled(i, w)
BY DEF Handled, Advance

\* The evaluation of the FSM brings no isolated instance back.
LEMMA FsmNextHandled ==
    ASSUME NEW i \in Instance, NEW v, Handled(i, v), NEW p, NEW work, Parameters(p, work)
    PROVE  Handled(i, FsmNext(v, i, p, work))
BY FsmNextSound, AdvanceHandled DEF Handled

\* The end of a handler keeps the invariant.
LEMMA CommitPreserves ==
    ASSUME IInv, NEW i \in Instance, up[i],
           NEW v, Handled(i, v),
           NEW ob \in [Instance -> [Instance -> Seq(Declared(UserSync))]],
           NEW ans \in [Instance -> [Instance -> DeclaredAnswers]],
           \A j \in Instance \ {i} : ans[j] = answer[j],
           Commit(i, ob, ans, v),
           failing' \in [Instance -> SUBSET Instance], LocalReachable',
           heard' \in [Instance -> [Instance -> 0..2]],
           UNCHANGED <<up, cut, crashes, cuts, conflicts>>
    PROVE  IInv' /\ IsolatedStep
<1>1. v \in SoundView(UserSync) /\ LocalAlive(v, i)
  BY DEF Handled, Sound
<1>2. \A s \in Seq(Declared(UserSync)) : s \o v.out \in Seq(Declared(UserSync))
  BY <1>1, ConcatProperties DEF SoundView
<1>3. << >> \in Seq(Declared(UserSync))
  BY EmptySeq
<1>4. outbox' \in [Instance -> [Instance -> Seq(Declared(UserSync))]]
  BY <1>2, <1>3 DEF Commit, Pushed
<1>5. NoAnswer \in DeclaredAnswers
  BY FreshModesDeclared, UserSyncBoolean DEF NoAnswer, DeclaredAnswers
<1>6. \A a \in DeclaredAnswers : [a EXCEPT !.code = "LATE"] \in DeclaredAnswers
  BY DEF DeclaredAnswers
<1>7. answer' \in [Instance -> [Instance -> DeclaredAnswers]]
  BY <1>5, <1>6 DEF Commit, Received
<1>8. /\ modes' \in [Instance -> [Instance -> Declared(UserSync)]]
      /\ modes'[i] = v.modes
      /\ \A j \in Instance \ {i} : modes'[j] = modes[j]
  BY <1>1 DEF Commit, SoundView, IInv, DeclaredOK
<1>9. DeclaredOK'
  BY <1>1, <1>4, <1>7, <1>8 DEF Commit, SoundView, IInv, DeclaredOK
<1>10. LocalRunning'
  BY <1>1, <1>8 DEF IInv, LocalRunning, LocalAlive, Fsm, Seen
<1>11. \A j \in Instance :
          answer'[i][j].code \notin {"NONE", "LATE"} => modes'[i][i].states[j] = "CHECKING"
  BY <1>6, <1>8 DEF Commit, Received, NoAnswer, DeclaredAnswers
<1>12. \A j \in Instance \ {i} : answer'[j] = answer[j]
  BY DEF Commit, Received
<1>13. AnswersCurrent'
  <2>1. ASSUME NEW k \in Instance, NEW j \in Instance, answer'[k][j].code \notin {"NONE", "LATE"}
        PROVE  modes'[k][k].states[j] = "CHECKING"
    <3>1. CASE k = i
      BY <1>11, <2>1, <3>1
    <3>2. CASE k # i
      <4>1. answer'[k] = answer[k] /\ modes'[k] = modes[k]
        BY <1>8, <1>12, <3>2
      <4> QED BY <2>1, <4>1 DEF IInv, AnswersCurrent, Seen
    <3> QED BY <3>1, <3>2
  <2> QED BY <2>1 DEF AnswersCurrent, Seen
<1>14. DownIsFresh'
  BY <1>8 DEF IInv, DownIsFresh
<1>15. IsolatedStep
  BY <1>8 DEF Handled, IsolatedStep, Seen
<1> QED BY <1>9, <1>10, <1>13, <1>14, <1>15 DEF IInv

-----------------------------------------------------------------------------
(* The handlers of the main thread. *)

\* A handler that changes nothing but the view of i and its answers.
LEMMA HandlerPreserves ==
    ASSUME IInv, NEW i \in Instance, up[i], NEW v, Handled(i, v),
           NEW ans \in [Instance -> [Instance -> DeclaredAnswers]],
           \A j \in Instance \ {i} : ans[j] = answer[j],
           Commit(i, outbox, ans, v), UNCHANGED <<failing, faultVars, conflicts>>
    PROVE  IInv' /\ IsolatedStep
<1>1. outbox \in [Instance -> [Instance -> Seq(Declared(UserSync))]]
  BY DEF IInv, DeclaredOK
<1>2. /\ failing' \in [Instance -> SUBSET Instance] /\ LocalReachable'
      /\ heard' \in [Instance -> [Instance -> 0..2]]
      /\ UNCHANGED <<up, cut, crashes, cuts, conflicts>>
  BY DEF IInv, DeclaredOK, LocalReachable, faultVars
<1> QED BY <1>1, <1>2, CommitPreserves

\* An instance that is not isolated may change state, and the local one in OFF.
LEMMA UpdateHandled ==
    ASSUME NEW i \in Instance, NEW v, Handled(i, v), NEW j \in Instance, NEW s \in InstanceStates,
           j = i /\ s # "RUNNING" => v.modes[i].state = "OFF",
           Seen(i, j) # "ISOLATED"
    PROVE  /\ Handled(i, UpdateInstanceState(v, i, j, s))
           /\ UpdateInstanceState(v, i, j, s).modes[i].state = v.modes[i].state
<1>1. v.modes[i].states \in [Instance -> InstanceStates]
  BY DEF Handled, Sound, SoundView, Declared, StateModesRecord
<1> DEFINE w == UpdateInstanceState(v, i, j, s)
<1>2. /\ w \in Sound(UserSync, i)
      /\ w.modes[i].state = v.modes[i].state
      /\ w.modes[i].states = [v.modes[i].states EXCEPT ![j] = s]
  BY UpdateInstanceStateSound, UserSyncBoolean DEF Handled
<1> HIDE DEF w
<1>3. Handled(i, w)
  BY <1>1, <1>2 DEF Handled
<1> QED BY <1>2, <1>3 DEF w

\* A handshake starts with a STOPPED instance, hence not with an isolated one.
LEMMA StartHandshakeHandled ==
    ASSUME NEW i \in Instance, IInv, NEW j \in Instance
    PROVE  Handled(i, StartHandshake(Held(i), i, j))
<1>1. Handled(i, Held(i)) /\ Held(i).modes = modes[i]
  BY HeldHandled
<1>2. CASE Held(i).modes[i].states[j] = "STOPPED"
  <2>1. j = i => Held(i).modes[i].state = "OFF"
    BY <1>1, <1>2 DEF Handled, Sound, LocalAlive
  <2>2. Seen(i, j) # "ISOLATED"
    BY <1>1, <1>2 DEF Seen
  <2>3. Handled(i, UpdateInstanceState(Held(i), i, j, "CHECKING"))
    BY <1>1, <2>1, <2>2, UpdateHandled DEF InstanceStates
  <2> QED BY <1>2, <2>3 DEF StartHandshake
<1>3. CASE Held(i).modes[i].states[j] # "STOPPED"
  BY <1>1, <1>3 DEF StartHandshake
<1> QED BY <1>2, <1>3

\* What the TICK leaves to the evaluation of the FSM: the instances S are FAILED.
Swept(i, S) ==
    LET v0 == StartHandshake(Held(i), i, i)
        v1 == [v0 EXCEPT !.modes[i].states = [k \in Instance |-> IF k \in S THEN "FAILED" ELSE @[k]],
                         !.mark = @ \/ S \ {Master(i)} # {}]
    IN  DeferredPublishStatus(IF Master(i) \in S THEN SetMaster(v1, i, NoMaster) ELSE v1, i)

\* The Master is reset when it is one of the instances found inactive.
LEMMA SweptHandled ==
    ASSUME NEW i \in Instance, IInv, NEW S \in SUBSET Inactive(i)
    PROVE  Handled(i, Swept(i, S))
<1> DEFINE u == UserSync
           v0 == StartHandshake(Held(i), i, i)
           states == [k \in Instance |-> IF k \in S THEN "FAILED" ELSE v0.modes[i].states[k]]
           m(n) == [v0.modes[i] EXCEPT !.states = states, !.master = n]
           late1 == v0.mark \/ S \ {Master(i)} # {}
           w(n) == [v0 EXCEPT !.modes[i] = m(n), !.mark = late1]
           master0 == v0.modes[i].master
           v1 == [v0 EXCEPT !.modes[i].states = [k \in Instance |-> IF k \in S THEN "FAILED" ELSE @[k]],
                            !.mark = @ \/ S \ {Master(i)} # {}]
           v2 == IF Master(i) \in S THEN SetMaster(v1, i, NoMaster) ELSE v1
<1>1. Handled(i, v0) /\ Handled(i, Held(i)) /\ Held(i).modes = modes[i]
  BY StartHandshakeHandled, HeldHandled
<1>2. /\ v0 \in SoundView(u) /\ v0.modes[i] \in Declared(u) /\ LocalAlive(v0, i)
      /\ v0.modes[i].states \in [Instance -> InstanceStates]
  BY <1>1 DEF Handled, Sound, SoundView, Declared, StateModesRecord
<1>3. master0 \in {Master(i), NoMaster}
  <2>1. Held(i) \in Sound(u, i)
    BY <1>1 DEF Handled
  <2>2. Held(i).modes[i].states[i] = "STOPPED" => Held(i).modes[i].state = "OFF"
    BY <2>1 DEF Sound, LocalAlive
  <2>3. Held(i).modes[i].states[i] = "STOPPED" =>
           UpdateInstanceState(Held(i), i, i, "CHECKING").modes[i].master \in {Held(i).modes[i].master, NoMaster}
    BY <2>1, <2>2, UpdateInstanceStateSound, UserSyncBoolean DEF InstanceStates
  <2> QED BY <1>1, <2>3 DEF StartHandshake, Master
<1> HIDE DEF v0
<1>4. i \notin S /\ \A j \in Instance : Seen(i, j) = "ISOLATED" => j \notin S
  BY DEF Inactive, Active, ActiveStates
<1>5. states \in [Instance -> InstanceStates] /\ states[i] = v0.modes[i].states[i]
  BY <1>2, <1>4 DEF InstanceStates
<1>6. \A j \in Instance : Seen(i, j) = "ISOLATED" => states[j] = "ISOLATED"
  BY <1>1, <1>4 DEF Handled
<1>7. /\ m(NoMaster) \in Declared(u)
      /\ master0 \notin S => m(master0) \in Declared(u)
  BY <1>2, <1>5, NoMasterAssumption DEF Declared, StateModesRecord, Coherent
<1> HIDE DEF states
<1>8. ASSUME NEW n, m(n) \in Declared(u)
      PROVE  Handled(i, w(n)) /\ w(n).modes[i] = m(n)
  <2>1. late1 \in BOOLEAN
    BY <1>2 DEF SoundView
  <2>2. /\ m(n).states = states /\ m(n).state = v0.modes[i].state
    BY <1>2 DEF Declared, StateModesRecord
  <2> HIDE DEF late1, m
  <2>3. w(n) \in SoundView(u) /\ w(n).modes[i] = m(n)
    BY <1>2, <1>8, <2>1 DEF SoundView
  <2> HIDE DEF w
  <2> QED BY <1>2, <1>5, <1>6, <2>2, <2>3 DEF Handled, Sound, LocalAlive
<1>9. v1 = w(master0)
  BY <1>2 DEF states, SoundView, Declared, StateModesRecord
<1>10. ASSUME Handled(i, v2)
       PROVE  Handled(i, Swept(i, S))
  <2> HIDE DEF v2
  <2>1. DeferredPublishStatus(v2, i) \in Sound(u, i) /\ DeferredPublishStatus(v2, i).modes = v2.modes
    BY <1>10, DeferredPublishStatusSound, UserSyncBoolean DEF Handled
  <2>2. Handled(i, DeferredPublishStatus(v2, i))
    BY <1>10, <2>1 DEF Handled
  <2>3. Swept(i, S) = DeferredPublishStatus(v2, i)
    BY DEF Swept, v2, v0
  <2> QED BY <2>2, <2>3
<1>11. CASE Master(i) \notin S \/ master0 = NoMaster
  <2>1. master0 \notin S
    BY <1>3, <1>11, NoMasterAssumption DEF Inactive
  <2>2. Handled(i, v1) /\ v1.modes[i] = m(master0)
    <3> HIDE DEF v1, w, m, master0
    <3> QED BY <1>7, <1>8, <1>9, <2>1
  <2>3. v1.modes[i].master = master0
    BY <1>2, <2>2 DEF Declared, StateModesRecord
  <2> HIDE DEF v1, m, master0
  <2>4. v2 = v1
    BY <1>11, <2>3 DEF SetMaster
  <2> QED BY <1>10, <2>2, <2>4
<1>12. CASE Master(i) \in S /\ master0 # NoMaster
  <2>1. [v1 EXCEPT !.modes[i].master = NoMaster] = w(NoMaster)
    <3>1. [w(master0) EXCEPT !.modes[i].master = NoMaster] = w(NoMaster)
      <4>1. [m(master0) EXCEPT !.master = NoMaster] = m(NoMaster)
        BY <1>2 DEF Declared, StateModesRecord
      <4> HIDE DEF m, late1, master0
      <4> QED BY <1>2, <4>1 DEF SoundView
    <3> HIDE DEF v1, w
    <3> QED BY <1>9, <3>1
  <2>2. v1.modes[i].master = master0
    BY <1>2, <1>9 DEF SoundView, Declared, StateModesRecord
  <2>3. v2 = PublishStatus(w(NoMaster), i)
    BY <1>12, <2>1, <2>2 DEF SetMaster
  <2>4. Handled(i, w(NoMaster))
    BY <1>7, <1>8
  <2> HIDE DEF w, v2
  <2>5. v2 \in SoundView(u) /\ v2.modes = w(NoMaster).modes
    BY <2>3, <2>4, PublishStatusSound, UserSyncBoolean DEF Handled, Sound
  <2>6. Handled(i, v2)
    BY <2>4, <2>5 DEF Handled, Sound, LocalAlive
  <2> QED BY <1>10, <2>6
<1> QED BY <1>11, <1>12

\* So the TICK brings no isolated instance back.
LEMMA TickedHandled ==
    ASSUME NEW i \in Instance, IInv, NEW S \in SUBSET Inactive(i),
           NEW p, NEW work, Parameters(p, work)
    PROVE  Handled(i, Ticked(i, S, p, work))
<1>1. Ticked(i, S, p, work) = FsmNext(Swept(i, S), i, p, work)
  BY DEF Ticked, Swept
<1> QED BY <1>1, SweptHandled, FsmNextHandled

\* The answers are those of i alone.
LEMMA AnswerTyped ==
    ASSUME IInv
    PROVE  /\ answer \in [Instance -> [Instance -> DeclaredAnswers]]
           /\ \A i \in Instance : \A a \in DeclaredAnswers : \A j \in Instance :
                 /\ [answer EXCEPT ![i][j] = a] \in [Instance -> [Instance -> DeclaredAnswers]]
                 /\ \A k \in Instance \ {i} : [answer EXCEPT ![i][j] = a][k] = answer[k]
BY DEF IInv, DeclaredOK

\* The timer of supervisord keeps the invariant.
LEMMA OnTickPreserves ==
    ASSUME IInv, NEW i \in Instance, NEW S, NEW p, NEW work, Parameters(p, work),
           OnTick(i, S, p, work)
    PROVE  IInv' /\ IsolatedStep
<1>1. S \in SUBSET Inactive(i) /\ up[i]
  BY DEF OnTick, Ready
<1>2. Handled(i, Ticked(i, S, p, work))
  BY <1>1, TickedHandled
<1>3. /\ Commit(i, outbox, answer, Ticked(i, S, p, work))
      /\ UNCHANGED <<failing, faultVars, conflicts>>
  BY DEF OnTick
<1> QED BY <1>1, <1>2, <1>3, AnswerTyped, HandlerPreserves

\* A TICK of a remote instance keeps the invariant.
LEMMA OnRemoteTickPreserves ==
    ASSUME IInv, NEW i \in Instance, NEW j \in Instance, OnRemoteTick(i, j)
    PROVE  IInv' /\ IsolatedStep
<1>1. Handled(i, StartHandshake(Held(i), i, j))
  BY StartHandshakeHandled
<1>2. /\ Commit(i, outbox, answer, StartHandshake(Held(i), i, j)) /\ up[i]
      /\ UNCHANGED <<failing, up, cut, crashes, cuts, conflicts>>
  BY DEF OnRemoteTick, Ready
<1>3. heard' \in [Instance -> [Instance -> 0..2]]
  <2> DEFINE n == IF heard[i][j] = 2 THEN 2 ELSE heard[i][j] + 1
  <2>1. heard \in [Instance -> [Instance -> 0..2]]
    BY DEF IInv, DeclaredOK
  <2>2. n \in 0..2
    BY <2>1
  <2>3. heard' = [heard EXCEPT ![i][j] = n]
    BY <2>1 DEF OnRemoteTick
  <2> HIDE DEF n
  <2> QED BY <2>1, <2>2, <2>3
<1>4. /\ outbox \in [Instance -> [Instance -> Seq(Declared(UserSync))]]
      /\ failing' \in [Instance -> SUBSET Instance] /\ LocalReachable'
  BY <1>2 DEF IInv, DeclaredOK, LocalReachable
<1> QED BY <1>1, <1>2, <1>3, <1>4, AnswerTyped, CommitPreserves

\* What is received from j, in its publications or in the handshake.
LEMMA OnStateEventHandled ==
    ASSUME IInv, NEW i \in Instance, NEW j \in Instance, NEW m \in Declared(UserSync),
           NEW p, NEW work, Parameters(p, work)
    PROVE  Handled(i, OnStateEvent(i, j, m, p, work))
<1> DEFINE v == OnInstanceStateEvent(Held(i), i, j, m)
<1>1. Handled(i, Held(i))
  BY HeldHandled
<1>2. v \in Sound(UserSync, i) /\ v.modes[i] = Held(i).modes[i]
  BY <1>1, OnInstanceStateEventSound, UserSyncBoolean DEF Handled
<1> HIDE DEF v
<1>3. Handled(i, v)
  BY <1>1, <1>2 DEF Handled
<1>4. Handled(i, FsmNext(v, i, p, work))
  BY <1>3, FsmNextHandled
<1> QED BY <1>1, <1>3, <1>4 DEF OnStateEvent, v

\* The state and modes got in a handshake keep the invariant, late ones too.
LEMMA OnHandshakeStatePreserves ==
    ASSUME IInv, NEW i \in Instance, NEW j \in Instance, NEW p, NEW work, Parameters(p, work),
           OnHandshakeState(i, j, p, work)
    PROVE  IInv' /\ IsolatedStep
<1> DEFINE a == IF answer[i][j].code = "LATE" THEN NoAnswer
                ELSE [code |-> "AUTHORIZED", modes |-> FreshModes]
           ans == [answer EXCEPT ![i][j] = a]
           v == OnStateEvent(i, j, answer[i][j].modes, p, work)
<1>1. answer[i][j] \in DeclaredAnswers
  BY DEF IInv, DeclaredOK
<1>2. Handled(i, v)
  BY <1>1, OnStateEventHandled DEF DeclaredAnswers
<1>3. a \in DeclaredAnswers
  BY FreshModesDeclared, UserSyncBoolean DEF NoAnswer, DeclaredAnswers
<1>4. ans = [answer EXCEPT ![i][j] = IF @.code = "LATE" THEN NoAnswer
                                     ELSE [code |-> "AUTHORIZED", modes |-> FreshModes]]
  BY DEF IInv, DeclaredOK
<1> HIDE DEF a, v
<1>5. /\ ans \in [Instance -> [Instance -> DeclaredAnswers]]
      /\ \A k \in Instance \ {i} : ans[k] = answer[k]
  BY <1>3, AnswerTyped
<1>6. up[i] /\ Commit(i, outbox, ans, v) /\ UNCHANGED <<failing, faultVars, conflicts>>
  BY <1>4 DEF OnHandshakeState, v
<1> HIDE DEF ans
<1> QED BY <1>2, <1>5, <1>6, HandlerPreserves

\* An authorization is only handled in CHECKING, hence never for an isolated instance.
LEMMA OnAuthorizationPreserves ==
    ASSUME IInv, NEW i \in Instance, NEW j \in Instance, NEW p, NEW work, Parameters(p, work),
           OnAuthorization(i, j, p, work)
    PROVE  IInv' /\ IsolatedStep
<1> DEFINE code == answer[i][j].code
           to   == CASE code = "NOT_AUTHORIZED" -> InvalidState(Held(i), i, j, TRUE)
                     [] code = "UNKNOWN"        -> "STOPPED"
                     [] code = "AUTHORIZED"     -> "CHECKED"
           v    == UpdateInstanceState(Held(i), i, j, to)
           x    == IF i = j /\ to = "CHECKED" THEN UpdateInstanceState(v, i, i, "RUNNING") ELSE v
<1>1. code \in {"UNKNOWN", "NOT_AUTHORIZED", "AUTHORIZED"}
  BY DEF OnAuthorization
<1>2. Seen(i, j) = "CHECKING"
  BY <1>1 DEF IInv, AnswersCurrent
<1>3. Handled(i, Held(i)) /\ Held(i).modes = modes[i]
  BY HeldHandled
<1>4. j = i => Held(i).modes[i].state = "OFF"
  BY <1>2, <1>3 DEF IInv, LocalRunning, Fsm
<1>5. to \in InstanceStates
  BY <1>1 DEF InvalidState, InstanceStates
<1> HIDE DEF to
<1>6. Handled(i, v) /\ v.modes[i].state = Held(i).modes[i].state
  BY <1>2, <1>3, <1>4, <1>5, UpdateHandled
<1> HIDE DEF v
<1>7. Handled(i, UpdateInstanceState(v, i, j, "RUNNING"))
  BY <1>2, <1>6, UpdateHandled DEF InstanceStates
<1>8. Handled(i, x)
  BY <1>6, <1>7
<1> HIDE DEF x
<1>9. Handled(i, FsmNext(x, i, p, work))
  BY <1>8, FsmNextHandled
<1>10. /\ up[i] /\ Commit(i, outbox, answer, FsmNext(x, i, p, work))
       /\ UNCHANGED <<failing, faultVars, conflicts>>
  BY DEF OnAuthorization, x, v, to
<1> QED BY <1>9, <1>10, AnswerTyped, HandlerPreserves

\* A failure is never the one of the local instance, and is ignored if isolated.
LEMMA OnInstanceFailurePreserves ==
    ASSUME IInv, NEW i \in Instance, NEW j \in Instance, OnInstanceFailure(i, j)
    PROVE  IInv' /\ IsolatedStep
<1> DEFINE v == IF Seen(i, j) \in Failable THEN UpdateInstanceState(Held(i), i, j, "FAILED")
                ELSE Held(i)
<1>1. j \in failing[i] /\ i # j
  BY DEF OnInstanceFailure, IInv, LocalReachable
<1>2. Handled(i, Held(i))
  BY HeldHandled
<1>3. Seen(i, j) \in Failable => Handled(i, UpdateInstanceState(Held(i), i, j, "FAILED"))
  BY <1>1, <1>2, UpdateHandled DEF Failable, InstanceStates
<1>4. Handled(i, v)
  BY <1>2, <1>3
<1>5. /\ up[i] /\ Commit(i, outbox, answer, v)
      /\ UNCHANGED <<up, heard, cut, crashes, cuts, conflicts>>
  BY DEF OnInstanceFailure, faultVars
<1>6. /\ failing' \in [Instance -> SUBSET Instance] /\ LocalReachable'
      /\ heard' \in [Instance -> [Instance -> 0..2]]
      /\ outbox \in [Instance -> [Instance -> Seq(Declared(UserSync))]]
  BY <1>5 DEF OnInstanceFailure, IInv, DeclaredOK, LocalReachable
<1> HIDE DEF v
<1> QED BY <1>4, <1>5, <1>6, AnswerTyped, CommitPreserves

\* The only handler that selects a Master without the agreement of the others.
LEMMA EndSyncPreserves ==
    ASSUME IInv, NEW i \in Instance, NEW m \in Instance \cup {NoMaster},
           NEW p, NEW work, Parameters(p, work), EndSync(i, m, p, work)
    PROVE  IInv' /\ IsolatedStep
<1> DEFINE v == IF m = NoMaster THEN SelectMaster(Held(i), i) ELSE SetMaster(Held(i), i, m)
<1>1. Handled(i, Held(i)) /\ Held(i).modes = modes[i]
  BY HeldHandled
<1>2. UserSync
  BY DEF EndSync, UserSync
<1>3. Held(i).modes[i].states[i] = "RUNNING"
  BY <1>1 DEF EndSync, IInv, LocalRunning, Seen
<1>4. /\ SelectMaster(Held(i), i) \in Sound(UserSync, i)
      /\ Advance(Held(i), SelectMaster(Held(i), i), i)
  BY <1>1, <1>2, <1>3, SelectMasterSound, SameStatesAdvance, UserSyncBoolean DEF Handled
<1>5. /\ SetMaster(Held(i), i, m) \in Sound(UserSync, i)
      /\ Advance(Held(i), SetMaster(Held(i), i, m), i)
  BY <1>1, <1>2, SetMasterSound, SameStatesAdvance, UserSyncBoolean DEF Handled
<1>6. Handled(i, v)
  BY <1>1, <1>4, <1>5, AdvanceHandled
<1> HIDE DEF v
<1>7. Handled(i, FsmNext(v, i, p, work))
  BY <1>6, FsmNextHandled
<1>8. /\ up[i] /\ Commit(i, outbox, answer, FsmNext(v, i, p, work))
      /\ UNCHANGED <<failing, faultVars, conflicts>>
  BY DEF EndSync, Ready, v
<1> QED BY <1>7, <1>8, AnswerTyped, HandlerPreserves

\* A request to restart or to shut down is not accepted in OFF.
LEMMA OnEndRequestPreserves ==
    ASSUME IInv, NEW i \in Instance, NEW s \in EndRequests,
           NEW p, NEW work, Parameters(p, work), OnEndRequest(i, s, p, work)
    PROVE  IInv' /\ IsolatedStep
<1> DEFINE r == Suggest(Held(i), s)
           v == SetFsmState(r, i, p, work)
<1>1. Handled(i, Held(i)) /\ Held(i).modes = modes[i]
  BY HeldHandled
<1>2. s \in FsmStates \cup {"NONE"} /\ s # "SYNCHRONIZATION"
  BY BoundsAssumption DEF FsmStates
<1>3. Fsm(i) # "OFF"
  BY <1>2 DEF OnEndRequest, Transitions
<1>4. Held(i).modes[i].states[i] = "RUNNING"
  BY <1>1, <1>3 DEF IInv, LocalRunning, Seen
<1>5. Outcome(i, Held(i), r)
  BY <1>1, <1>2, <1>4, SuggestOutcome, AdvanceReflexive DEF Handled
<1> HIDE DEF r
<1>6. Handled(i, v)
  BY <1>1, <1>5, SetFsmStateSound, AdvanceHandled
<1>7. up[i] /\ Commit(i, outbox, answer, v) /\ UNCHANGED <<failing, faultVars, conflicts>>
  BY DEF OnEndRequest, Ready, r
<1> HIDE DEF v
<1> QED BY <1>6, <1>7, AnswerTyped, HandlerPreserves

\* The end of the jobs keeps the invariant.
LEMMA JobsDonePreserves ==
    ASSUME IInv, NEW i \in Instance, JobsDone(i)
    PROVE  IInv' /\ IsolatedStep
<1>1. Handled(i, Held(i))
  BY HeldHandled
<1>2. PICK job \in jobs[i] : Commit(i, outbox, answer, SetJobs(Held(i), i, jobs[i] \ {job}))
  BY DEF JobsDone
<1> DEFINE v == SetJobs(Held(i), i, jobs[i] \ {job})
<1>3. jobs[i] \ {job} \in SUBSET {"start", "stop"}
  BY DEF IInv, DeclaredOK
<1>4. v \in Sound(UserSync, i) /\ Advance(Held(i), v, i)
  BY <1>1, <1>3, SetJobsSound, SameModes, UserSyncBoolean DEF Handled
<1>5. Handled(i, v)
  BY <1>1, <1>4, AdvanceHandled
<1>6. up[i] /\ UNCHANGED <<failing, faultVars, conflicts>>
  BY DEF JobsDone
<1> HIDE DEF v
<1> QED BY <1>2, <1>5, <1>6, AnswerTyped, HandlerPreserves DEF v

-----------------------------------------------------------------------------
(* The proxies. *)

\* What is published was declared, and declares a RUNNING Master.
LEMMA PublishPreserves ==
    ASSUME IInv, NEW i \in Instance, NEW j \in Instance, NEW p, NEW work, Parameters(p, work),
           Publish(i, j, p, work)
    PROVE  IInv' /\ IsolatedStep
<1> DEFINE ob == [outbox EXCEPT ![i][j] = Tail(@)]
           v == OnStateEvent(j, i, Head(outbox[i][j]), p, work)
<1>1. outbox[i][j] \in Seq(Declared(UserSync)) /\ outbox[i][j] # << >>
  BY DEF IInv, DeclaredOK, Publish
<1>2. /\ Head(outbox[i][j]) \in Declared(UserSync)
      /\ Tail(outbox[i][j]) \in Seq(Declared(UserSync))
  BY <1>1, HeadTailProperties
<1>3. ob \in [Instance -> [Instance -> Seq(Declared(UserSync))]]
  BY <1>2 DEF IInv, DeclaredOK
<1>4. Handled(j, v)
  BY <1>2, OnStateEventHandled
<1>5. /\ Commit(j, ob, answer, v) /\ up[j]
      /\ UNCHANGED <<failing, up, heard, cut, crashes, cuts, conflicts>>
  BY DEF Publish, Reachable, faultVars
<1>6. /\ failing' \in [Instance -> SUBSET Instance] /\ LocalReachable'
      /\ heard' \in [Instance -> [Instance -> 0..2]]
  BY <1>5 DEF IInv, DeclaredOK, LocalReachable
<1> HIDE DEF ob, v
<1> QED BY <1>3, <1>4, <1>5, <1>6, AnswerTyped, CommitPreserves

\* The steps that change no view.
LEMMA SameViews ==
    ASSUME IInv, UNCHANGED modes,
           DeclaredOK', LocalReachable', AnswersCurrent',
           \A i \in Instance : up[i] = up[i]'
    PROVE  IInv' /\ IsolatedStep
BY DEF IInv, LocalRunning, Fsm, Seen, DownIsFresh, IsolatedStep

\* What a handshake gets was declared, and declares a RUNNING Master.
LEMMA CheckInstancePreserves ==
    ASSUME IInv, NEW i \in Instance, NEW j \in Instance, NEW code \in Codes,
           CheckInstance(i, j, code)
    PROVE  IInv' /\ IsolatedStep
<1> DEFINE a == IF code = "UNKNOWN" THEN [code |-> code, modes |-> FreshModes]
                ELSE IF Seen(j, i) = "ISOLATED"
                THEN [code |-> "NOT_AUTHORIZED", modes |-> FreshModes]
                ELSE [code |-> "STATE", modes |-> modes[j][j]]
<1>1. modes[j][j] \in Declared(UserSync) /\ FreshModes \in Declared(UserSync)
  BY FreshModesDeclared, UserSyncBoolean DEF IInv, DeclaredOK
<1>2. a \in DeclaredAnswers
  BY <1>1 DEF DeclaredAnswers
<1>3. answer' = [answer EXCEPT ![i][j] = a]
  BY DEF CheckInstance
<1>4. /\ UNCHANGED <<modes, mark, late, degraded, jobs, outbox, failing>>
      /\ UNCHANGED <<up, heard, cut, crashes, cuts, conflicts>>
      /\ Seen(i, j) = "CHECKING"
  BY DEF CheckInstance, viewVars, faultVars
<1> HIDE DEF a
<1>5. DeclaredOK'
  BY <1>2, <1>3, <1>4 DEF IInv, DeclaredOK
<1>6. LocalReachable'
  BY <1>4 DEF IInv, LocalReachable
<1>7. ASSUME NEW k \in Instance, NEW l \in Instance, answer'[k][l].code \notin {"NONE", "LATE"}
      PROVE  Seen(k, l) = "CHECKING"
  <2>1. CASE k = i /\ l = j
    BY <1>4, <2>1
  <2>2. CASE ~ (k = i /\ l = j)
    <3>1. answer'[k][l] = answer[k][l]
      BY <1>3, <2>2 DEF IInv, DeclaredOK
    <3> QED BY <1>7, <3>1 DEF IInv, AnswersCurrent
  <2> QED BY <2>1, <2>2
<1>8. AnswersCurrent'
  BY <1>4, <1>7 DEF AnswersCurrent, Seen
<1> QED BY <1>4, <1>5, <1>6, <1>8, SameViews

\* A publication that cannot be sent is lost.
LEMMA SendFailurePreserves ==
    ASSUME IInv, NEW i \in Instance, NEW j \in Instance, SendFailure(i, j)
    PROVE  IInv' /\ IsolatedStep
<1> DEFINE q == IF outbox[i][j] = << >> THEN << >> ELSE Tail(outbox[i][j])
<1>1. outbox[i][j] \in Seq(Declared(UserSync))
  BY DEF IInv, DeclaredOK
<1>2. q \in Seq(Declared(UserSync))
  BY <1>1, EmptySeq, HeadTailProperties
<1>3. outbox' = [outbox EXCEPT ![i][j] = q]
  BY DEF SendFailure, IInv, DeclaredOK
<1>4. /\ UNCHANGED <<modes, mark, late, degraded, jobs, answer>>
      /\ UNCHANGED <<up, heard, cut, crashes, cuts, conflicts>>
      /\ failing' = [failing EXCEPT ![i] = @ \cup {j}] /\ i # j
  BY DEF SendFailure, viewVars, faultVars
<1> HIDE DEF q
<1>5. DeclaredOK'
  BY <1>2, <1>3, <1>4 DEF IInv, DeclaredOK
<1>6. LocalReachable'
  BY <1>4 DEF IInv, DeclaredOK, LocalReachable
<1>7. AnswersCurrent'
  BY <1>4 DEF IInv, AnswersCurrent, Seen
<1> QED BY <1>4, <1>5, <1>6, <1>7, SameViews

-----------------------------------------------------------------------------
(* The environment. *)

\* The end of synchro_timeout keeps the invariant.
LEMMA ElapsePreserves ==
    ASSUME IInv, NEW i \in Instance, Elapse(i)
    PROVE  IInv' /\ IsolatedStep
<1>1. /\ UNCHANGED <<modes, mark, degraded, jobs, answer, outbox, failing>>
      /\ UNCHANGED <<up, heard, cut, crashes, cuts, conflicts>>
      /\ late' = [late EXCEPT ![i] = TRUE]
  BY DEF Elapse, proxyVars, faultVars
<1>2. DeclaredOK'
  BY <1>1 DEF IInv, DeclaredOK
<1>3. LocalReachable' /\ AnswersCurrent'
  BY <1>1 DEF IInv, LocalReachable, AnswersCurrent, Seen
<1> QED BY <1>1, <1>2, <1>3, SameViews

\* The cuts and the conflicts.
LEMMA DisturbancePreserves ==
    ASSUME IInv, UNCHANGED <<viewVars, proxyVars, up, heard, crashes>>,
           cut' \in SUBSET SUBSET Instance, cuts' \in Nat, conflicts' \in Nat
    PROVE  IInv' /\ IsolatedStep
<1>1. UNCHANGED <<modes, mark, late, degraded, jobs, answer, outbox, failing, up, heard, crashes>>
  BY DEF viewVars, proxyVars
<1>2. DeclaredOK'
  BY <1>1 DEF IInv, DeclaredOK
<1>3. LocalReachable' /\ AnswersCurrent'
  BY <1>1 DEF IInv, LocalReachable, AnswersCurrent, Seen
<1> QED BY <1>1, <1>2, <1>3, SameViews

\* A new life starts from nothing.
LEMMA StartPreserves ==
    ASSUME IInv, NEW i \in Instance, Start(i)
    PROVE  IInv' /\ IsolatedStep
<1> DEFINE m == [FreshModes EXCEPT !.states[i] = "CHECKING"]
<1>1. modes[i] = FreshView.modes
  BY DEF Start, IInv, DownIsFresh
<1>2. modes[i][i] = FreshModes
  BY <1>1 DEF FreshView
<1>3. m \in Declared(UserSync)
  BY FreshModesDeclared, UserSyncBoolean DEF FreshModes, Declared, StateModesRecord, Coherent, InstanceStates
<1>4. /\ UNCHANGED <<mark, late, degraded, jobs, answer, outbox, failing>>
      /\ UNCHANGED <<heard, cut, crashes, cuts, conflicts>>
      /\ up' = [up EXCEPT ![i] = TRUE]
  BY DEF Start, proxyVars
<1>5. modes' = [modes EXCEPT ![i] = [modes[i] EXCEPT ![i] = m]]
  BY <1>2 DEF Start, IInv, DeclaredOK
<1>6. /\ modes'[i][i] = m
      /\ \A k \in Instance \ {i} : modes'[k] = modes[k]
      /\ modes' \in [Instance -> [Instance -> Declared(UserSync)]]
  BY <1>3, <1>5 DEF IInv, DeclaredOK
<1>7. m.state = "OFF" /\ m.states = [FreshModes.states EXCEPT ![i] = "CHECKING"]
  BY DEF FreshModes
<1>8. \A j \in Instance : FreshModes.states[j] = "STOPPED"
  BY DEF FreshModes
<1> HIDE DEF m
<1>9. DeclaredOK'
  BY <1>4, <1>6 DEF IInv, DeclaredOK
<1>10. LocalRunning'
  BY <1>6, <1>7 DEF IInv, LocalRunning, Fsm, Seen
<1>11. LocalReachable'
  BY <1>4 DEF IInv, LocalReachable
<1>12. \A j \in Instance : answer[i][j].code \in {"NONE", "LATE"}
  BY <1>2, <1>8 DEF IInv, AnswersCurrent, Seen
<1>13. \A k \in Instance : answer'[k] = answer[k]
  BY <1>4
<1>14. AnswersCurrent'
  BY <1>6, <1>12, <1>13 DEF IInv, AnswersCurrent, Seen
<1>15. DownIsFresh'
  BY <1>4, <1>6 DEF IInv, DeclaredOK, DownIsFresh
<1>16. IsolatedStep
  BY <1>2, <1>6, <1>8 DEF IsolatedStep, Seen
<1> QED BY <1>9, <1>10, <1>11, <1>14, <1>15, <1>16 DEF IInv

\* Nothing is left of a life that ends, but what the others hold.
LEMMA StopPreserves ==
    ASSUME IInv, NEW i \in Instance, Stop(i), crashes' \in Nat
    PROVE  IInv' /\ IsolatedStep
<1>1. FreshView.modes \in [Instance -> Declared(UserSync)] /\ FreshView.modes[i] = FreshModes
  BY FreshModesDeclared, UserSyncBoolean DEF FreshView
<1>2. NoAnswer \in DeclaredAnswers /\ NoAnswer.code = "NONE"
  BY FreshModesDeclared, UserSyncBoolean DEF NoAnswer, DeclaredAnswers
<1>3. << >> \in Seq(Declared(UserSync))
  BY EmptySeq
<1>4. /\ modes' = [modes EXCEPT ![i] = FreshView.modes]
      /\ up' = [up EXCEPT ![i] = FALSE]
      /\ mark' = [mark EXCEPT ![i] = FALSE]
      /\ late' = [late EXCEPT ![i] = FALSE]
      /\ degraded' = [degraded EXCEPT ![i] = FALSE]
      /\ jobs' = [jobs EXCEPT ![i] = {}]
      /\ answer' = [answer EXCEPT ![i] = [j \in Instance |-> NoAnswer]]
      /\ outbox' = [outbox EXCEPT ![i] = [j \in Instance |-> <<>>]]
      /\ failing' = [failing EXCEPT ![i] = {}]
      /\ UNCHANGED <<cut, cuts, conflicts>>
  BY DEF Stop
<1>5. heard' \in [Instance -> [Instance -> 0..2]]
  BY DEF Stop, IInv, DeclaredOK
<1>6. DeclaredOK'
  BY <1>1, <1>2, <1>3, <1>4, <1>5 DEF IInv, DeclaredOK
<1>7. /\ modes'[i] = FreshView.modes
      /\ \A k \in Instance \ {i} : modes'[k] = modes[k] /\ answer'[k] = answer[k] /\ up'[k] = up[k]
      /\ \A j \in Instance : answer'[i][j] = NoAnswer
      /\ ~ up'[i]
  BY <1>4 DEF IInv, DeclaredOK
<1>8. LocalRunning'
  BY <1>1, <1>7 DEF IInv, LocalRunning, Fsm, Seen, FreshModes
<1>9. LocalReachable'
  BY <1>4 DEF IInv, DeclaredOK, LocalReachable
<1>10. AnswersCurrent'
  BY <1>2, <1>7 DEF IInv, AnswersCurrent, Seen
<1>11. DownIsFresh'
  BY <1>7 DEF IInv, DownIsFresh
<1>12. IsolatedStep
  BY <1>7 DEF IsolatedStep, Seen
<1> QED BY <1>6, <1>8, <1>9, <1>10, <1>11, <1>12 DEF IInv

-----------------------------------------------------------------------------
(* The specification. *)

\* Nothing runs at first.
LEMMA InitEstablishes ==
    Init => IInv
<1> SUFFICES ASSUME Init PROVE IInv
  OBVIOUS
<1>1. FreshView.modes \in [Instance -> Declared(UserSync)]
  BY FreshModesDeclared, UserSyncBoolean DEF FreshView
<1>2. NoAnswer \in DeclaredAnswers /\ NoAnswer.code = "NONE"
  BY FreshModesDeclared, UserSyncBoolean DEF NoAnswer, DeclaredAnswers
<1>3. << >> \in Seq(Declared(UserSync))
  BY EmptySeq
<1>4. DeclaredOK
  BY <1>1, <1>2, <1>3 DEF Init, DeclaredOK
<1>5. \A i \in Instance : modes[i][i] = FreshModes
  BY DEF Init, FreshView
<1>6. LocalRunning
  BY <1>5 DEF LocalRunning, Fsm, FreshModes
<1>7. LocalReachable /\ AnswersCurrent /\ DownIsFresh
  BY <1>2 DEF Init, LocalReachable, AnswersCurrent, DownIsFresh
<1> QED BY <1>4, <1>6, <1>7 DEF IInv

\* The events of the main thread and the proxies of i, one by one.
LEMMA HandlePreserves ==
    ASSUME IInv, NEW i \in Instance, Handle(i)
    PROVE  IInv' /\ IsolatedStep
<1>1. ASSUME NEW p \in Preferred, NEW work \in Works
      PROVE  Parameters(p, work)
  BY BoundsAssumption DEF Parameters
<1>2. ASSUME NEW p \in Preferred, NEW work \in Works,
             \/ \E S \in SUBSET Instance : OnTick(i, S, p, work)
             \/ \E j \in Instance : OnHandshakeState(i, j, p, work) \/ OnAuthorization(i, j, p, work)
             \/ \E m \in Instance \cup {NoMaster} : EndSync(i, m, p, work)
             \/ \E s \in EndRequests : OnEndRequest(i, s, p, work)
             \/ \E j \in Instance : Publish(i, j, p, work)
      PROVE  IInv' /\ IsolatedStep
  BY <1>1, <1>2, OnTickPreserves, OnHandshakeStatePreserves, OnAuthorizationPreserves,
     EndSyncPreserves, OnEndRequestPreserves, PublishPreserves
<1>3. ASSUME NEW j \in Instance,
             \/ OnRemoteTick(i, j) \/ OnInstanceFailure(i, j) \/ SendFailure(i, j)
             \/ \E code \in Codes : CheckInstance(i, j, code)
      PROVE  IInv' /\ IsolatedStep
  BY <1>3, OnRemoteTickPreserves, OnInstanceFailurePreserves, SendFailurePreserves,
     CheckInstancePreserves
<1>4. CASE JobsDone(i) \/ Elapse(i)
  BY <1>4, JobsDonePreserves, ElapsePreserves
<1> QED BY <1>2, <1>3, <1>4 DEF Handle

\* The faults, the conflicts and the starts and stops of the supervisords.
LEMMA EnvironmentPreserves ==
    ASSUME IInv, Environment
    PROVE  IInv' /\ IsolatedStep
<1>1. /\ crashes \in Nat /\ cuts \in Nat /\ conflicts \in Nat
      /\ cut \in SUBSET SUBSET Instance
  BY DEF IInv, DeclaredOK
<1>2. ASSUME NEW i \in Instance, Start(i)
      PROVE  IInv' /\ IsolatedStep
  BY <1>2, StartPreserves
<1>3. ASSUME NEW i \in Instance, Crash(i) \/ End(i)
      PROVE  IInv' /\ IsolatedStep
  <2>1. Stop(i) /\ crashes' \in Nat
    BY <1>1, <1>3 DEF Crash, End
  <2> QED BY <2>1, StopPreserves
<1>4. ASSUME NEW i \in Instance, NEW j \in Instance, Cut(i, j)
      PROVE  IInv' /\ IsolatedStep
  <2>1. /\ UNCHANGED <<viewVars, proxyVars, up, heard, crashes>>
        /\ cut' \in SUBSET SUBSET Instance /\ cuts' \in Nat /\ conflicts' \in Nat
    BY <1>1, <1>4 DEF Cut
  <2> QED BY <2>1, DisturbancePreserves
<1>5. ASSUME NEW i \in Instance, NEW j \in Instance, Heal(i, j)
      PROVE  IInv' /\ IsolatedStep
  <2>1. /\ UNCHANGED <<viewVars, proxyVars, up, heard, crashes>>
        /\ cut' \in SUBSET SUBSET Instance /\ cuts' \in Nat /\ conflicts' \in Nat
    BY <1>1, <1>5 DEF Heal
  <2> QED BY <2>1, DisturbancePreserves
<1>6. CASE ConflictAppears \/ ConflictEnds
  <2>1. /\ UNCHANGED <<viewVars, proxyVars, up, heard, crashes>>
        /\ cut' \in SUBSET SUBSET Instance /\ cuts' \in Nat /\ conflicts' \in Nat
    BY <1>1, <1>6 DEF ConflictAppears, ConflictEnds, faultVars
  <2> QED BY <2>1, DisturbancePreserves
<1> QED BY <1>2, <1>3, <1>4, <1>5, <1>6 DEF Environment

\* The invariant is inductive, and no step brings an isolated instance back.
LEMMA NextPreserves ==
    IInv /\ [Next]_vars => IInv' /\ IsolatedStep
<1> SUFFICES ASSUME IInv, [Next]_vars PROVE IInv' /\ IsolatedStep
  OBVIOUS
<1>1. CASE Next
  BY <1>1, EnvironmentPreserves, HandlePreserves DEF Next
<1>2. CASE UNCHANGED vars
  <2>1. /\ UNCHANGED <<viewVars, proxyVars, up, heard, crashes>>
        /\ cut' \in SUBSET SUBSET Instance /\ cuts' \in Nat /\ conflicts' \in Nat
    BY <1>2 DEF vars, faultVars, IInv, DeclaredOK
  <2> QED BY <2>1, DisturbancePreserves
<1> QED BY <1>1, <1>2

\* The invariant holds in every reachable state.
LEMMA Invariant == Spec => []IInv
<1>1. Init => IInv
  BY InitEstablishes
<1>2. IInv /\ [Next]_vars => IInv'
  BY NextPreserves
<1> QED BY <1>1, <1>2, PTL DEF Spec

-----------------------------------------------------------------------------
\* Whatever the number of instances, the options and the faults, every variable
\* keeps its type: no handler leaves a state, a Master or an answer out of the
\* enumerations of ttypes.py.
THEOREM TypeCorrect == Spec => []TypeOK
<1>1. IInv => TypeOK
  <2> SUFFICES ASSUME IInv PROVE TypeOK
    OBVIOUS
  <2>1. Declared(UserSync) \subseteq StateModesRecord
    BY DEF Declared
  <2>2. Seq(Declared(UserSync)) \subseteq Seq(StateModesRecord)
    BY DeclaredSequences
  <2>3. DeclaredAnswers \subseteq Answers
    BY <2>1 DEF DeclaredAnswers, Answers
  <2> QED BY <2>1, <2>2, <2>3 DEF TypeOK, IInv, DeclaredOK
<1> QED BY <1>1, Invariant, PTL

\* The consistency check that statemachine.py:202 calls "the symptom of an internal
\* bug" never fails: past OFF, an instance sees itself RUNNING, whatever TICK,
\* handshake or failure is handled, in whatever order.
THEOREM LocalAlwaysRunning == Spec => []LocalRunning
<1>1. IInv => LocalRunning
  BY DEF IInv
<1> QED BY <1>1, Invariant, PTL

\* Without the USER option, nobody ever follows a Master that it does not see
\* RUNNING: neither the election (select_master) nor the loss of the Master
\* (update_instance_state) lets it happen, whatever was published or received.
THEOREM MasterAlwaysRunning ==
    ASSUME "USER" \notin SyncOptions
    PROVE  Spec => []MasterSeenRunning
<1>1. IInv => MasterSeenRunning
  <2> SUFFICES ASSUME IInv, NEW i \in Instance, Master(i) # NoMaster
               PROVE  Seen(i, Master(i)) = "RUNNING"
    BY DEF MasterSeenRunning
  <2>1. modes[i][i] \in Declared(UserSync) /\ ~UserSync
    BY DEF IInv, DeclaredOK, UserSync
  <2> QED BY <2>1 DEF Declared, Coherent, Master, Seen
<1> QED BY <1>1, Invariant, PTL

\* An isolated instance stays isolated until the local Supvisors is stopped, whatever
\* TICK, answer, publication or failure is still in flight.
THEOREM IsolatedStaysIsolated == Spec => IsolatedForGood
<1>1. IInv /\ [Next]_vars => IInv' /\ [IsolatedStep]_vars
  BY NextPreserves
<1>2. [][IsolatedStep]_vars => IsolatedForGood
  BY PTL DEF IsolatedForGood, IsolatedStep
<1>3. Init => IInv
  BY InitEstablishes
<1> QED BY <1>1, <1>2, <1>3, PTL DEF Spec
=============================================================================
