---------------------------- MODULE LeaderProofs ----------------------------
(***************************************************************************)
(* Why two Masters do not work side by side.                               *)
(***************************************************************************)
EXTENDS MasterProofs

\* x is preferred to y, or is y: a core instance first, then the lowest nick
\* identifier, which is the order of select_master.
Prefers(x, y) ==
    /\ x \in Instance /\ y \in Instance
    /\ IF x \in CoreInstance <=> y \in CoreInstance THEN Rank[x] <= Rank[y]
       ELSE x \in CoreInstance

\* The Master x may replace what has been declared, d.
Outranks(x, d) == d = NoMaster \/ Prefers(x, d)

\* Outranks is an order.
LEMMA OutranksOrder ==
    /\ \A x \in Instance \cup {NoMaster} : Outranks(x, x)
    /\ \A x, y, z : Outranks(x, y) /\ Outranks(y, z) => Outranks(x, z)
    /\ \A x, y : Prefers(x, y) /\ Prefers(y, x) => x = y
<1>1. \A x \in Instance \cup {NoMaster} : Outranks(x, x)
  BY RankAssumption DEF Outranks, Prefers
<1>2. ASSUME NEW x, NEW y, NEW z, Outranks(x, y), Outranks(y, z)
      PROVE  Outranks(x, z)
  <2>1. CASE z = NoMaster
    BY <2>1 DEF Outranks
  <2>2. CASE z # NoMaster
    <3>1. Prefers(y, z) /\ y \in Instance
      BY <1>2, <2>2 DEF Outranks, Prefers
    <3>2. Prefers(x, y)
      BY <1>2, <3>1, NoMasterAssumption DEF Outranks
    <3>3. Rank[x] \in Nat /\ Rank[y] \in Nat /\ Rank[z] \in Nat
      BY <3>1, <3>2, RankAssumption DEF Prefers
    <3> QED BY <3>1, <3>2, <3>3 DEF Outranks, Prefers
  <2> QED BY <2>1, <2>2
<1>3. ASSUME NEW x, NEW y, Prefers(x, y), Prefers(y, x)
      PROVE  x = y
  <2>1. Rank[x] \in Nat /\ Rank[y] \in Nat
    BY <1>3, RankAssumption DEF Prefers
  <2>2. Rank[x] = Rank[y]
    BY <1>3, <2>1 DEF Prefers
  <2> QED BY <1>3, <2>2, RankAssumption DEF Prefers
<1> QED BY <1>1, <1>2, <1>3

\* select_master takes the best of the Masters declared, if any.
LEMMA SelectionOutranks ==
    ASSUME NEW i \in Instance, NEW v \in Sound(UserSync, i), v.modes[i].states[i] = "RUNNING"
    PROVE  /\ Lowest(Candidates(v, i)) \in Instance
           /\ \A j \in Running(v, i) : Outranks(Lowest(Candidates(v, i)), v.modes[j].master)
<1> DEFINE declared == MasterIdentifiers(v, i) \ {NoMaster}
           S == Candidates(v, i)
<1>1. declared \subseteq Instance /\ Running(v, i) \subseteq Instance /\ Running(v, i) # {}
  BY SoundParts DEF MasterIdentifiers, Running, RunningIdentifiers, StateModesRecord
<1>2. S \in SUBSET Instance /\ S # {}
  BY <1>1 DEF Candidates
<1>3. Lowest(S) \in S /\ \A d \in S : Rank[Lowest(S)] <= Rank[d]
  BY <1>2, LowestMember
<1>4. ASSUME NEW j \in Running(v, i), v.modes[j].master # NoMaster
      PROVE  Prefers(Lowest(S), v.modes[j].master)
  <2> DEFINE m == v.modes[j].master
  <2>1. m \in declared
    BY <1>4 DEF MasterIdentifiers
  <2>2. CASE m \in S
    <3>1. CoreInstance \cap declared # {} => Lowest(S) \in CoreInstance /\ m \in CoreInstance
      BY <1>3, <2>1, <2>2 DEF Candidates
    <3>2. Lowest(S) \in declared
      BY <1>3, <2>1 DEF Candidates
    <3> QED BY <1>1, <1>3, <2>1, <2>2, <3>1, <3>2 DEF Prefers
  <2>3. CASE m \notin S
    <3>1. CoreInstance \cap declared # {} /\ S = CoreInstance \cap declared
      BY <2>1, <2>3 DEF Candidates
    <3> QED BY <1>1, <1>3, <2>1, <2>3, <3>1 DEF Prefers
  <2> QED BY <2>2, <2>3
<1> QED BY <1>2, <1>3, <1>4 DEF Outranks

-----------------------------------------------------------------------------
(* What the operations of a handler of i do to its Master and to what it     *)
(* publishes.                                                                *)

\* Nothing that v publishes is ahead of the Master of v.
Ordered(v, i) == \A n \in DOMAIN v.out : Outranks(v.modes[i].master, v.out[n].master)

\* From v to w the Master is kept or replaced by a better one, and published so.
Rises(v, w, i) ==
    /\ Outranks(w.modes[i].master, v.modes[i].master)
    /\ Ordered(v, i) => Ordered(w, i)

\* Rises is a preorder.
LEMMA RisesSame ==
    ASSUME NEW i \in Instance, NEW v \in Sound(UserSync, i), NEW w,
           w.out = v.out, w.modes[i].master = v.modes[i].master
    PROVE  Rises(v, w, i)
BY OutranksOrder, SoundParts DEF Rises, Ordered

LEMMA RisesTransitive ==
    ASSUME NEW i, NEW v, NEW w, NEW x, Rises(v, w, i), Rises(w, x, i)
    PROVE  Rises(v, x, i)
BY OutranksOrder DEF Rises

\* A publication of the Master it has now.
LEMMA RisesPublished ==
    ASSUME NEW i \in Instance, NEW v \in Sound(UserSync, i), NEW x,
           DOMAIN x = DOMAIN v, x.out = v.out,
           x.modes[i].master \in Instance \cup {NoMaster},
           Outranks(x.modes[i].master, v.modes[i].master)
    PROVE  Rises(v, PublishStatus(x, i), i)
<1> DEFINE w == PublishStatus(x, i)
           m == x.modes[i].master
<1>1. v.out \in Seq(Declared(UserSync)) /\ {"modes", "out"} \subseteq DOMAIN v
  BY SoundParts DEF SoundView
<1>2. w.modes = x.modes /\ w.out = Append(v.out, x.modes[i])
  BY <1>1 DEF PublishStatus
<1> HIDE DEF w
<1>3. Outranks(m, m) /\ \A d : Outranks(v.modes[i].master, d) => Outranks(m, d)
  BY OutranksOrder
<1>4. \A n \in DOMAIN w.out : \/ n \in DOMAIN v.out /\ w.out[n] = v.out[n]
                              \/ w.out[n] = x.modes[i]
  BY <1>1, <1>2
<1> QED BY <1>2, <1>3, <1>4 DEF Rises, Ordered, w

\* The setters that leave the Master alone.
LEMMA SetStateRises ==
    ASSUME NEW i \in Instance, NEW v \in Sound(UserSync, i), NEW s
    PROVE  Rises(v, SetState(v, i, s), i)
<1> DEFINE x == [v EXCEPT !.modes[i].state = s]
<1>1. DOMAIN x = DOMAIN v /\ x.out = v.out /\ x.modes[i].master = v.modes[i].master
  BY SoundParts DEF SoundView, StateModesRecord
<1>2. v.modes[i].master \in Instance \cup {NoMaster}
  BY SoundParts
<1> HIDE DEF x
<1>3. Rises(v, PublishStatus(x, i), i)
  BY <1>1, <1>2, RisesPublished, OutranksOrder
<1> QED BY <1>3, RisesSame DEF SetState, x

LEMMA SetDegradedRises ==
    ASSUME NEW i \in Instance, NEW v \in Sound(UserSync, i), NEW d
    PROVE  Rises(v, SetDegraded(v, i, d), i)
<1> DEFINE x == [v EXCEPT !.degraded = d]
<1>1. DOMAIN x = DOMAIN v /\ x.out = v.out /\ x.modes = v.modes
  BY SoundParts DEF SoundView
<1>2. v.modes[i].master \in Instance \cup {NoMaster}
  BY SoundParts
<1> HIDE DEF x
<1>3. Rises(v, PublishStatus(x, i), i)
  BY <1>1, <1>2, RisesPublished, OutranksOrder
<1> QED BY <1>3, RisesSame DEF SetDegraded, x

LEMMA SetJobsRises ==
    ASSUME NEW i \in Instance, NEW v \in Sound(UserSync, i), NEW js
    PROVE  Rises(v, SetJobs(v, i, js), i)
<1> DEFINE x == [v EXCEPT !.jobs = js]
<1>1. DOMAIN x = DOMAIN v /\ x.out = v.out /\ x.modes = v.modes
  BY SoundParts DEF SoundView
<1>2. v.modes[i].master \in Instance \cup {NoMaster}
  BY SoundParts
<1> HIDE DEF x
<1>3. Rises(v, PublishStatus(x, i), i)
  BY <1>1, <1>2, RisesPublished, OutranksOrder
<1> QED BY <1>3, RisesSame DEF SetJobs, x

\* A better Master.
LEMMA SetMasterRises ==
    ASSUME NEW i \in Instance, NEW v \in Sound(UserSync, i), NEW m \in Instance \cup {NoMaster},
           Outranks(m, v.modes[i].master)
    PROVE  Rises(v, SetMaster(v, i, m), i)
<1> DEFINE x == [v EXCEPT !.modes[i].master = m]
<1>1. DOMAIN x = DOMAIN v /\ x.out = v.out /\ x.modes[i].master = m
  BY SoundParts DEF SoundView, StateModesRecord
<1> HIDE DEF x
<1>2. Rises(v, PublishStatus(x, i), i)
  BY <1>1, RisesPublished
<1> QED BY <1>2, RisesSame DEF SetMaster, x

\* abort_jobs and the reset of the start date publish nothing.
LEMMA EnterRises ==
    ASSUME NEW i \in Instance, NEW v \in Sound(UserSync, i), NEW work \in SUBSET {"start", "stop"}
    PROVE  Rises(v, Enter(v, i, work), i)
<1> DEFINE aborted == AbortJobs(v)
<1>1. aborted \in Sound(UserSync, i) /\ aborted.modes = v.modes
  BY AbortJobsSound, UserSyncBoolean
<1>2. aborted.out = v.out
  BY SoundParts DEF AbortJobs, SoundView
<1> HIDE DEF aborted
<1>3. Rises(v, aborted, i)
  BY <1>1, <1>2, RisesSame
<1>4. \A js : Rises(v, SetJobs(v, i, js), i) /\ Rises(v, SetJobs(aborted, i, js), i)
  BY <1>1, <1>3, SetJobsRises, RisesTransitive
<1>5. Rises(v, [v EXCEPT !.late = FALSE], i)
  <2>1. [v EXCEPT !.late = FALSE].out = v.out /\ [v EXCEPT !.late = FALSE].modes = v.modes
    BY SoundParts DEF SoundView
  <2> QED BY <2>1, RisesSame
<1>6. Rises(v, v, i)
  BY RisesSame
<1> QED BY <1>3, <1>4, <1>5, <1>6 DEF Enter, aborted

\* The Master of a view without USER is RUNNING: it is not one of the FAILED
\* instances that an evaluation invalidates.
LEMMA ActivatedRises ==
    ASSUME ~UserSync, NEW i \in Instance, NEW v \in Sound(UserSync, i)
    PROVE  LET a == Activated(v, i)
           IN  /\ a.modes[i].master = v.modes[i].master
               /\ Rises(v, a, i)
               /\ \A k \in Instance \ {i} : a.modes[k] \in {v.modes[k], FreshModes}
               /\ v.modes[i].state # "DISTRIBUTION" => Checked(a, i) = {}
<1> DEFINE S == Failed(v, i)
           states == [k \in Instance |-> IF k \in S THEN InvalidState(v, i, k, FALSE)
                                         ELSE v.modes[i].states[k]]
           m == [v.modes[i] EXCEPT !.states = states]
           all == [j \in Instance |-> IF j = i THEN m ELSE IF j \in S THEN FreshModes ELSE v.modes[j]]
           x == [v EXCEPT !.modes = all, !.mark = @ \/ S # {}]
           a == Activated(v, i)
<1>1. v \in SoundView(UserSync) /\ v.modes[i].master \in Instance \cup {NoMaster} /\ Coherent(v.modes[i])
  BY SoundParts DEF SoundView, Declared
<1>2. v.modes[i].master \notin S
  BY <1>1, NoMasterAssumption DEF Failed, Coherent
<1>3. InvalidateFailed(v, i) = x
  BY <1>2 DEF InvalidateFailed
<1>4. x.out = v.out /\ x.modes = all /\ DOMAIN x = DOMAIN v /\ {"modes", "mark", "out"} \subseteq DOMAIN v
  BY <1>1 DEF SoundView
<1>5. m.master = v.modes[i].master /\ m.state = v.modes[i].state /\ m.states = states
  <2> HIDE DEF states
  <2> QED BY SoundParts DEF StateModesRecord
<1>6. \A k \in Instance : states[k] \in InstanceStates
  BY SoundParts DEF InvalidState, InstanceStates
<1>7. x \in Sound(UserSync, i)
  BY <1>3, InvalidateFailedSound
<1> HIDE DEF m, states
<1>8. /\ all[i] = m
      /\ \A k \in Instance \ {i} : all[k] \in {v.modes[k], FreshModes}
  OBVIOUS
<1> HIDE DEF x, all
<1>9. a = ActivateInstances(x, i)
  BY <1>3 DEF Activated
<1> HIDE DEF a
<1>10. a.out = x.out
  BY <1>4, <1>9 DEF ActivateInstances, ActivateChecked
<1>11. /\ OthersSame(x, a, i) /\ a.modes[i].master = x.modes[i].master
       /\ \A k \in Instance : a.modes[i].states[k] =
             IF x.modes[i].state # "DISTRIBUTION" /\ x.modes[i].states[k] = "CHECKED"
             THEN "RUNNING" ELSE x.modes[i].states[k]
  BY <1>7, <1>9, ActivateInstancesFrame
<1>12. a.modes[i].master = v.modes[i].master /\ Rises(v, a, i)
  BY <1>4, <1>5, <1>8, <1>10, <1>11, RisesSame
<1>13. \A k \in Instance \ {i} : a.modes[k] \in {v.modes[k], FreshModes}
  BY <1>4, <1>8, <1>11 DEF OthersSame
<1>14. v.modes[i].state # "DISTRIBUTION" => Checked(a, i) = {}
  BY <1>4, <1>5, <1>8, <1>11 DEF Checked
<1> QED BY <1>12, <1>13, <1>14 DEF a

\* An evaluation.  Nobody joins a distribution, and those that join otherwise put an
\* election to the agenda; the Masters declared are the same when it is over.
LEMMA EvaluateRises ==
    ASSUME ~UserSync, NEW i \in Instance, NEW v \in Sound(UserSync, i),
           NEW p, NEW work, Parameters(p, work)
    PROVE  LET s == v.modes[i].state
               r == Evaluate(v, i, p, work)
           IN  /\ Rises(v, r.v, i)
               /\ s \in {"DISTRIBUTION", "OPERATION", "CONCILIATION"} =>
                     r.v.modes[i].master = v.modes[i].master
               /\ s \in {"OPERATION", "CONCILIATION"} /\ Checked(v, i) # {} => r.next = "ELECTION"
               /\ s = "ELECTION" /\ r.next = "DISTRIBUTION" => CheckMaster(r.v, i)
<1> DEFINE s      == v.modes[i].state
           lost   == Failed(v, i)
           a      == ActivateInstances(InvalidateFailed(v, i), i)
           local  == a.modes[i].states[i] = "RUNNING"
           S      == StableIdentifiers(a, i)
           w      == IF local THEN SetDegraded(a, i, Degraded(S)) ELSE a
           broken == IF local THEN Consistence(w, i, S, lost) ELSE "OFF"
           r      == Evaluate(v, i, p, work)
<1>a. a = Activated(v, i)
  BY DEF Activated
<1>1. a \in Sound(UserSync, i) /\ a.modes[i].state = s /\ a.modes[i].master = v.modes[i].master
  BY <1>a, ActivatedFrame, ActivatedRises
<1>2. s \in FsmStates /\ (s # "OFF" => local) /\ Rises(v, a, i)
  BY <1>a, <1>1, SoundParts, ActivatedRises DEF LocalAlive
<1>3. s \in {"DISTRIBUTION", "OPERATION", "CONCILIATION"} => r.v.modes[i].master = v.modes[i].master
  BY <1>a, <1>1, EvaluateShape DEF Shape
<1> HIDE DEF a
<1>4. Degraded(S) \in BOOLEAN
  BY DEF Degraded
<1>5. w \in Sound(UserSync, i) /\ w.modes = a.modes
  BY <1>1, <1>4, SetDegradedSound, SetDegradedFrame, UserSyncBoolean
<1>6. Rises(v, w, i)
  <2>1. Rises(a, SetDegraded(a, i, Degraded(S)), i)
    BY <1>1, SetDegradedRises
  <2> QED BY <1>2, <2>1, RisesTransitive
<1>7. broken # "DISTRIBUTION"
  BY DEF Consistence
<1> HIDE DEF w, broken, lost
<1>8. ASSUME NEW n, r = Suggest(a, n) \/ r = Suggest(w, n)
      PROVE  Rises(v, r.v, i)
  BY <1>2, <1>6, <1>8 DEF Suggest
<1>9. CASE s = "OFF"
  <2>1. r = Suggest(a, IF local THEN "SYNCHRONIZATION" ELSE "OFF")
    BY <1>9 DEF Evaluate, a
  <2> QED BY <1>8, <1>9, <2>1
<1>10. CASE s = "FINAL"
  <2>1. r = Suggest(a, "NONE")
    BY <1>10 DEF Evaluate, a
  <2> QED BY <1>8, <1>10, <2>1
<1>11. CASE s = "SYNCHRONIZATION"
  <2>1. r = SynchronizationNext(a, i, S, p)
    BY <1>2, <1>11 DEF Evaluate, a
  <2>2. r.v = SetDegraded(a, i, Degraded(S))
    BY <2>1 DEF SynchronizationNext, Suggest, UserSync
  <2>3. r.v = w
    BY <1>2, <1>11, <2>2 DEF w
  <2> QED BY <1>6, <1>11, <2>3
<1>12. CASE s = "ELECTION"
  <2>1. r = IF broken = "NONE" THEN ElectionNext(w, i, S) ELSE Suggest(w, broken)
    BY <1>12 DEF Evaluate, a, w, broken, lost
  <2>2. CASE broken # "NONE"
    <3>1. r = Suggest(w, broken) /\ r.next # "DISTRIBUTION"
      BY <1>7, <2>1, <2>2 DEF Suggest
    <3> QED BY <1>8, <1>12, <3>1
  <2>3. CASE broken = "NONE"
    <3>1. \/ r = Suggest(w, "ELECTION")
          \/ r = Suggest(w, "DISTRIBUTION") /\ CheckMaster(w, i)
          \/ r = Suggest(SelectMaster(w, i), "ELECTION")
      BY <2>1, <2>3 DEF ElectionNext
    <3>2. CASE r = Suggest(SelectMaster(w, i), "ELECTION")
      <4>1. w.modes[i].states[i] = "RUNNING" /\ i \in Running(w, i)
        BY <1>2, <1>5, <1>12 DEF Running, RunningIdentifiers
      <4>2. Rises(w, SelectMaster(w, i), i)
        BY <1>5, <4>1, SelectionOutranks, SetMasterRises DEF SelectMaster
      <4>3. Rises(v, SelectMaster(w, i), i)
        BY <1>6, <4>2, RisesTransitive
      <4> QED BY <1>12, <3>2, <4>3 DEF Suggest
    <3> QED BY <1>8, <1>12, <3>1, <3>2 DEF Suggest
  <2> QED BY <2>2, <2>3
<1>13. CASE s \in {"DISTRIBUTION", "OPERATION", "CONCILIATION"}
  <2>1. r = IF s # "DISTRIBUTION" /\ Checked(v, i) # {} THEN Suggest(a, "ELECTION")
            ELSE IF broken # "NONE" THEN Suggest(w, broken)
            ELSE IF IsMaster(w, i) THEN MasterNext(w, i, lost, work)
            ELSE Suggest(w, MasterState(w, i))
    BY <1>13 DEF Evaluate, a, w, broken, lost
  <2>2. \A js : Rises(v, SetJobs(w, i, js), i)
    BY <1>5, <1>6, SetJobsRises, RisesTransitive
  <2>3. Rises(v, MasterNext(w, i, lost, work).v, i)
    BY <1>1, <1>5, <1>6, <1>13, <2>2 DEF MasterNext, ConciliationNext, Suggest
  <2>4. s \in {"OPERATION", "CONCILIATION"} /\ Checked(v, i) # {} => r.next = "ELECTION"
    BY <2>1 DEF Suggest
  <2>5. Rises(v, r.v, i)
    BY <1>8, <2>1, <2>3
  <2> QED BY <1>3, <1>13, <2>4, <2>5
<1>14. CASE s \in {"RESTARTING", "SHUTTING_DOWN"}
  <2>1. r = Suggest(w, IF broken = "NONE" /\ Lasts(w, i) THEN s ELSE "FINAL")
    BY <1>14 DEF Evaluate, a, w, broken, lost
  <2> QED BY <1>8, <1>14, <2>1
<1> HIDE DEF r, S
<1> QED BY <1>2, <1>3, <1>9, <1>10, <1>11, <1>12, <1>13, <1>14 DEF FsmStates, r

-----------------------------------------------------------------------------
(* What is carried from turn to turn, beside Turned.                         *)

Leading == {"DISTRIBUTION", "OPERATION", "CONCILIATION"}

\* What the others have declared to i is not ahead of the Masters they have now.
Honest(v, i) == \A j \in Instance \ {i} : Outranks(Master(j), v.modes[j].master)

\* If i is the Master at work, the others that it sees RUNNING have it as Master, or
\* a better one.
Backed(v, i) ==
    v.modes[i].master = i /\ v.modes[i].state \in Leading =>
        \A j \in Instance \ {i} : v.modes[i].states[j] = "RUNNING" => Prefers(Master(j), i)

\* i was in CONCILIATION, and still is with one more instance.
Joined(v, w, i) ==
    /\ v.modes[i].state = "CONCILIATION" /\ w.modes[i].state = "CONCILIATION"
    /\ \E k \in Instance : v.modes[i].states[k] = "CHECKED" /\ w.modes[i].states[k] = "RUNNING"

\* r is what the turns may have made of v.
Calm(i, v, r) ==
    /\ Outcome(i, v, r) /\ Rises(v, r.v, i) /\ Honest(r.v, i)
    /\ r.v.modes[i].state # "DISTRIBUTION" => Checked(r.v, i) = {}
    /\ r.v.modes[i].state = "ELECTION" /\ r.next = "DISTRIBUTION" => CheckMaster(r.v, i)
    /\ \/ Backed(r.v, i)
       \/ Joined(v, r.v, i) /\ r.next \in {"NONE", "ELECTION"}
       \/ r.v.modes[i].state = "OPERATION" /\ r.next = "ELECTION"

\* So it will be once nobody is left to join.
Done(i, v, r) ==
    /\ Calm(i, v, r)
    /\ Checked(r.v, i) = {} \/ r.next = "NONE"
    /\ Backed(r.v, i) \/ Joined(v, r.v, i)

\* An evaluation that starts from y, which the handler has made of v.
LEMMA EvaluateCalm ==
    ASSUME ~UserSync, NEW i \in Instance, NEW v, NEW y \in Sound(UserSync, i),
           Advance(v, y, i), Rises(v, y, i), Honest(y, i), Backed(y, i),
           y = v \/ y.modes[i].state # "CONCILIATION" \/ Checked(y, i) = {},
           NEW p, NEW work, Parameters(p, work)
    PROVE  LET r == Evaluate(y, i, p, work)
           IN  Calm(i, v, r) /\ (Checked(y, i) = {} => Done(i, v, r))
<1> DEFINE s == y.modes[i].state
           a == Activated(y, i)
           r == Evaluate(y, i, p, work)
           w == r.v
<1>1. /\ Rises(y, w, i)
      /\ s \in Leading => w.modes[i].master = y.modes[i].master
      /\ s \in {"OPERATION", "CONCILIATION"} /\ Checked(y, i) # {} => r.next = "ELECTION"
      /\ s = "ELECTION" /\ r.next = "DISTRIBUTION" => CheckMaster(w, i)
  BY EvaluateRises DEF Leading
<1>2. Outcome(i, y, r)
  BY EvaluateSound
<1>3. /\ w.modes[i].state = s
      /\ \A k \in Instance : y.modes[i].states[k] = "RUNNING" => w.modes[i].states[k] = "RUNNING"
  BY EvaluateKeeps
<1>4. Shape(a, w, i)
  BY EvaluateShape
<1>5. /\ \A k \in Instance \ {i} : a.modes[k] \in {y.modes[k], FreshModes}
      /\ s # "DISTRIBUTION" => Checked(a, i) = {}
  BY ActivatedRises
<1>6. \A k \in Instance : s = "DISTRIBUTION" /\ a.modes[i].states[k] = "RUNNING"
                             => y.modes[i].states[k] = "RUNNING"
  BY ActivatedFrame
<1> HIDE DEF a, r
<1>7. Outcome(i, v, r) /\ Rises(v, w, i) /\ Advance(y, w, i)
  BY <1>1, <1>2, AdvanceTransitive, RisesTransitive DEF Outcome
<1>8. Honest(w, i)
  <2>1. \A k \in Instance \ {i} : w.modes[k] \in {y.modes[k], FreshModes}
    BY <1>4, <1>5 DEF Shape, OthersSame
  <2>2. FreshModes.master = NoMaster
    BY DEF FreshModes
  <2> QED BY <2>1, <2>2 DEF Honest, Outranks
<1>9. s # "DISTRIBUTION" => Checked(w, i) = {}
  BY <1>4, <1>5 DEF Shape, Checked
<1>10. Checked(y, i) = {} => Checked(w, i) = {}
  BY <1>7 DEF Advance, Checked
<1>11. ASSUME s = "DISTRIBUTION" \/ Checked(y, i) = {}
       PROVE  Backed(w, i)
  <2>1. \A k \in Instance : w.modes[i].states[k] = "RUNNING" => y.modes[i].states[k] = "RUNNING"
    BY <1>4, <1>6, <1>7, <1>11 DEF Shape, Advance, Checked
  <2> QED BY <1>1, <1>3, <2>1 DEF Backed
<1>12. ASSUME s = "CONCILIATION", Checked(y, i) # {}, ~Backed(w, i)
       PROVE  Joined(v, w, i) /\ r.next = "ELECTION"
  <2>1. y = v
    BY <1>12
  <2>2. PICK k \in Instance \ {i} : w.modes[i].states[k] = "RUNNING" /\ ~Prefers(Master(k), i)
    BY <1>12 DEF Backed
  <2>3. y.modes[i].states[k] # "RUNNING"
    BY <1>1, <1>3, <1>12, <2>2 DEF Backed
  <2>4. y.modes[i].states[k] = "CHECKED"
    BY <1>7, <2>2, <2>3 DEF Advance
  <2> QED BY <1>1, <1>3, <1>12, <2>1, <2>2, <2>4 DEF Joined
<1>13. ASSUME s = "OPERATION", Checked(y, i) # {}
       PROVE  r.next = "ELECTION"
  BY <1>1, <1>13
<1>14. ASSUME s \notin Leading
       PROVE  Backed(w, i)
  BY <1>3, <1>14 DEF Backed
<1>15. \/ Backed(w, i)
       \/ Joined(v, w, i) /\ r.next \in {"NONE", "ELECTION"}
       \/ w.modes[i].state = "OPERATION" /\ r.next = "ELECTION"
  BY <1>3, <1>11, <1>12, <1>13, <1>14 DEF Leading
<1>16. Calm(i, v, r)
  BY <1>1, <1>3, <1>7, <1>8, <1>9, <1>15 DEF Calm
<1>17. Checked(y, i) = {} => Done(i, v, r)
  BY <1>10, <1>11, <1>16 DEF Done
<1> QED BY <1>16, <1>17 DEF r

\* What is left to do by a turn that changes state: the new state is backed too.
LEMMA TransitionBacked ==
    ASSUME NEW i \in Instance, NEW v, NEW r, Calm(i, v, r), NEW y,
           r.next \in Transitions[r.v.modes[i].state], r.v.modes[i].state \in FsmStates,
           OthersSame(r.v, y, i), y.modes[i].state = r.next,
           y.modes[i].master = r.v.modes[i].master, y.modes[i].states = r.v.modes[i].states
    PROVE  Backed(y, i)
<1> DEFINE s == r.v.modes[i].state
<1>1. CASE r.next \notin Leading
  BY <1>1 DEF Backed
<1>2. CASE r.next = "DISTRIBUTION"
  <2>1. s = "ELECTION"
    BY <1>2 DEF Transitions, FsmStates
  <2>2. CheckMaster(r.v, i)
    BY <1>2, <2>1 DEF Calm
  <2>3. ASSUME y.modes[i].master = i, NEW j \in Instance \ {i}, y.modes[i].states[j] = "RUNNING"
        PROVE  Prefers(Master(j), i)
    <3>1. j \in Running(r.v, i)
      BY <2>3 DEF Running, RunningIdentifiers
    <3>2. r.v \in Sound(UserSync, i)
      BY DEF Calm, Outcome, Result
    <3>3. r.v.modes[i].states[i] = "RUNNING" /\ i \in Running(r.v, i)
      BY <2>1, <3>2, SoundParts DEF LocalAlive, Running, RunningIdentifiers
    <3>4. r.v.modes[j].master = i
      BY <2>2, <2>3, <3>1, <3>3 DEF CheckMaster, MasterIdentifiers
    <3> QED BY <3>4, NoMasterAssumption DEF Calm, Honest, Outranks
  <2> QED BY <2>3 DEF Backed
<1>3. CASE r.next = "OPERATION"
  <2>1. s \in {"DISTRIBUTION", "CONCILIATION"} /\ r.next \notin {"NONE", "ELECTION"}
    BY <1>3 DEF Transitions, FsmStates
  <2>2. Backed(r.v, i)
    BY <2>1 DEF Calm
  <2> QED BY <2>1, <2>2 DEF Backed, Leading
<1>4. CASE r.next = "CONCILIATION"
  <2>1. s = "OPERATION" /\ r.next \notin {"NONE", "ELECTION"}
    BY <1>4 DEF Transitions, FsmStates
  <2>2. Backed(r.v, i)
    BY <2>1 DEF Calm
  <2> QED BY <2>1, <2>2 DEF Backed, Leading
<1> QED BY <1>1, <1>2, <1>3, <1>4 DEF Leading

\* A turn of the loop of set_state carries the facts on.
LEMMA TurnCalm ==
    ASSUME ~UserSync, NEW i \in Instance, NEW v, NEW r, Calm(i, v, r),
           NEW p, NEW work, Parameters(p, work)
    PROVE  LET t == Turn(r, i, p, work)
           IN  /\ Calm(i, v, t) /\ (Done(i, v, t) \/ Checked(t.v, i) = {})
               /\ Checked(r.v, i) = {} \/ r.next = "NONE" => Done(i, v, t)
<1> DEFINE s == r.v.modes[i].state
           t == Turn(r, i, p, work)
<1>1. r.v \in Sound(UserSync, i) /\ s \in FsmStates /\ Advance(v, r.v, i)
  BY SoundParts DEF Calm, Outcome, Result
<1>2. CASE r.next \in {"NONE", s} \/ r.next \notin Transitions[s]
  <2>1. t.v = r.v /\ t.next = "NONE"
    BY <1>2 DEF Turn, Suggest
  <2>2. Outcome(i, v, t)
    BY TurnSound DEF Calm
  <2> HIDE DEF t
  <2>3. ~(s = "OPERATION" /\ r.next = "ELECTION")
    BY <1>2 DEF Transitions
  <2> QED BY <2>1, <2>2, <2>3 DEF Calm, Done, t
<1>3. CASE ~(r.next \in {"NONE", s} \/ r.next \notin Transitions[s])
  <2> DEFINE x == SetState(r.v, i, r.next)
             y == Enter(x, i, work)
             m == [r.v.modes[i] EXCEPT !.state = r.next]
  <2>1. r.next \in FsmStates /\ (r.next # "OFF" => r.v.modes[i].states[i] = "RUNNING")
    BY <1>3 DEF Calm, Outcome, Result
  <2>2. x \in Sound(UserSync, i) /\ Rises(r.v, x, i)
    BY <1>1, <2>1, SetStateSound, SetStateRises, UserSyncBoolean
  <2>3. x.modes[i] = m /\ OthersSame(r.v, x, i)
    BY <1>1, SetStateFrame, MineParts
  <2>4. m.state = r.next /\ m.master = r.v.modes[i].master /\ m.states = r.v.modes[i].states
    BY <1>1, SoundParts DEF StateModesRecord
  <2> HIDE DEF x, m
  <2>5. y \in Sound(UserSync, i) /\ y.modes = x.modes /\ Rises(x, y, i)
    BY <2>2, EnterSound, EnterRises DEF Parameters
  <2>6. t = Evaluate(y, i, p, work)
    BY <1>3 DEF Turn, x
  <2> HIDE DEF y, t
  <2>7. Rises(v, y, i)
    BY <2>2, <2>5, RisesTransitive DEF Calm
  <2>8. /\ y.modes[i].state = r.next /\ y.modes[i].master = r.v.modes[i].master
        /\ y.modes[i].states = r.v.modes[i].states /\ OthersSame(r.v, y, i)
    BY <2>3, <2>4, <2>5 DEF OthersSame
  <2>9. Advance(v, y, i) /\ Honest(y, i) /\ Checked(y, i) = Checked(r.v, i)
    BY <1>1, <2>8 DEF Advance, Honest, OthersSame, Checked, Calm
  <2>10. Backed(y, i)
    BY <1>1, <1>3, <2>8, TransitionBacked
  <2>11. y.modes[i].state # "CONCILIATION" \/ Checked(y, i) = {}
    <3>1. r.next = "CONCILIATION" => s = "OPERATION"
      BY <1>1, <1>3 DEF Transitions, FsmStates
    <3> QED BY <2>8, <2>9, <3>1 DEF Calm
  <2>12. Calm(i, v, t) /\ (Checked(y, i) = {} => Done(i, v, t))
    BY <2>5, <2>6, <2>7, <2>9, <2>10, <2>11, EvaluateCalm
  <2>13. Done(i, v, t) \/ Checked(t.v, i) = {}
    <3>1. CASE s # "DISTRIBUTION"
      BY <2>9, <2>12, <3>1 DEF Calm
    <3>2. CASE s = "DISTRIBUTION"
      <4>1. t.v.modes[i].state = r.next
        BY <2>5, <2>6, <2>8, EvaluateKeeps
      <4> QED BY <1>3, <2>12, <3>2, <4>1 DEF Calm
    <3> QED BY <3>1, <3>2
  <2> QED BY <1>3, <2>9, <2>12, <2>13 DEF t
<1> QED BY <1>2, <1>3

\* What a handler may commit, starting from v.
Raised(i, v, w) ==
    /\ Advance(v, w, i) /\ Rises(v, w, i) /\ Honest(w, i)
    /\ Backed(w, i) \/ Joined(v, w, i)

\* So does set_state, the first turn of which is the only one that may leave somebody
\* to join.
LEMMA SetFsmStateRaised ==
    ASSUME ~UserSync, NEW i \in Instance, NEW v, NEW r, NEW p, NEW work, Parameters(p, work),
           r \in Evaluation, Calm(i, v, Turn(r, i, p, work))
    PROVE  Raised(i, v, SetFsmState(r, i, p, work))
<1> DEFINE T == [x \in Evaluation |-> Turn(x, i, p, work)]
<1>1. ASSUME NEW x, Calm(i, v, x)
      PROVE  T[x] = Turn(x, i, p, work)
  <2>1. x \in [v : Sound(UserSync, i), next : FsmStates \cup {"NONE"}]
    BY <1>1 DEF Calm, Outcome, Result
  <2>2. Declared(UserSync) \subseteq StateModesRecord
    BY DEF Declared
  <2>3. Sound(UserSync, i) \subseteq View
    BY <2>2, DeclaredSequences DEF Sound, SoundView, View
  <2>4. x \in Evaluation
    BY <2>1, <2>3 DEF Evaluation
  <2> QED BY <2>4
<1>2. Calm(i, v, T[r])
  OBVIOUS
<1>3. ASSUME NEW x, Calm(i, v, x)
      PROVE  /\ Calm(i, v, T[x]) /\ (Done(i, v, T[x]) \/ Checked(T[x].v, i) = {})
             /\ Checked(x.v, i) = {} \/ x.next = "NONE" => Done(i, v, T[x])
  BY <1>1, <1>3, TurnCalm
<1>4. ASSUME NEW x, Done(i, v, x)
      PROVE  Done(i, v, T[x])
  BY <1>3, <1>4 DEF Done
<1> HIDE DEF T
<1>5. Calm(i, v, T[T[r]]) /\ (Done(i, v, T[T[r]]) \/ Checked(T[T[r]].v, i) = {})
  BY <1>2, <1>3
<1>6. Done(i, v, T[T[T[r]]])
  BY <1>3, <1>4, <1>5
<1>7. Done(i, v, T[T[T[T[T[T[r]]]]]])
  BY <1>4, <1>6
<1>8. Done(i, v, T[T[T[T[T[T[T[T[T[r]]]]]]]]])
  BY <1>4, <1>7
<1> DEFINE last == T[T[T[T[T[T[T[T[T[r]]]]]]]]]
<1>9. SetFsmState(r, i, p, work) = last.v
  BY DEF SetFsmState, T
<1> HIDE DEF last
<1> QED BY <1>8, <1>9 DEF Done, Calm, Outcome, Raised, last

\* The evaluation of the FSM.
LEMMA FsmNextRaised ==
    ASSUME ~UserSync, NEW i \in Instance, NEW v \in Sound(UserSync, i), Honest(v, i), Backed(v, i),
           NEW p, NEW work, Parameters(p, work)
    PROVE  Raised(i, v, FsmNext(v, i, p, work))
<1> DEFINE r == Evaluate(v, i, p, work)
<1>1. Calm(i, v, r)
  BY AdvanceReflexive, RisesSame, EvaluateCalm
<1>2. r \in Evaluation
  <2>1. r \in [v : Sound(UserSync, i), next : FsmStates \cup {"NONE"}]
    BY EvaluateSound DEF Outcome, Result
  <2> HIDE DEF r
  <2>2. Declared(UserSync) \subseteq StateModesRecord
    BY DEF Declared
  <2>3. Sound(UserSync, i) \subseteq View
    BY <2>2, DeclaredSequences DEF Sound, SoundView, View
  <2> QED BY <2>1, <2>3 DEF Evaluation
<1> HIDE DEF r
<1>3. Calm(i, v, Turn(r, i, p, work))
  BY <1>1, TurnCalm
<1> QED BY <1>2, <1>3, SetFsmStateRaised DEF FsmNext, r

-----------------------------------------------------------------------------
(* The inductive invariant, while nothing is lost. *)

\* What is in the queues is not ahead of the Master of its sender, and what the
\* handshakes have got is not ahead of the Master of whom it comes from.
Queued(ob) ==
    \A j, k \in Instance : \A n \in DOMAIN ob[j][k] : Outranks(Master(j), ob[j][k][n].master)
Answered(ans) == \A k, j \in Instance : Outranks(Master(j), ans[k][j].modes.master)

\* Nobody ever had a better Master than the one it has.
Ascending ==
    /\ \A k \in Instance : \A j \in Instance \ {k} : Outranks(Master(j), modes[k][j].master)
    /\ Queued(outbox) /\ Answered(answer)

\* Those that the Master at work sees RUNNING have it as Master, or a better one.
Followed ==
    \A i \in Instance : Leads(i) =>
        \A j \in Instance \ {i} : Seen(i, j) = "RUNNING" => Prefers(Master(j), i)

\* v is what a handler of i leaves to the evaluation of the FSM: nothing is published
\* that is ahead of the Master, which is not replaced.
Modest(i, v) ==
    /\ Ordered(v, i) /\ Honest(v, i)
    /\ v.modes[i].master \in {Master(i), NoMaster}
    /\ \A k \in Instance : Seen(i, k) = "RUNNING" => v.modes[i].states[k] \in {"RUNNING", "FAILED"}

\* The Master of a view without USER is RUNNING.
LEMMA MasterRunning ==
    ASSUME ~UserSync, IInv, NEW i \in Instance, NEW m \in Instance, Master(i) = m
    PROVE  Seen(i, m) = "RUNNING"
<1>1. modes[i][i] \in Declared(UserSync) /\ modes[i][i].master = m
  BY DEF IInv, DeclaredOK, Master
<1>2. Coherent(modes[i][i])
  BY <1>1 DEF Declared
<1> QED BY <1>1, <1>2, NoMasterAssumption DEF Coherent, Seen

\* The Masters are typed.
LEMMA MasterTyped ==
    ASSUME IInv
    PROVE  /\ \A i \in Instance : Master(i) \in Instance \cup {NoMaster}
           /\ \A i \in Instance : Outranks(Master(i), Master(i))
<1>1. \A i \in Instance : Master(i) \in Instance \cup {NoMaster}
  BY DEF IInv, DeclaredOK, Declared, StateModesRecord, Master
<1> QED BY <1>1, OutranksOrder

\* What the handler leaves may be committed as it is.
LEMMA ModestRaised ==
    ASSUME IInv, Followed, NEW i \in Instance, NEW v, Entered(i, v), Modest(i, v)
    PROVE  Honest(v, i) /\ Backed(v, i) /\ Raised(i, v, v)
<1>1. v \in Sound(UserSync, i)
  BY DEF Entered, Handled
<1>2. Backed(v, i)
  <2>1. v.modes[i].master = i /\ v.modes[i].state \in Leading => Leads(i)
    BY NoMasterAssumption DEF Modest, Entered, Leads, Leading
  <2>2. \A j \in Instance \ {i} : v.modes[i].states[j] = "RUNNING" => Seen(i, j) = "RUNNING"
    BY DEF Entered
  <2> QED BY <2>1, <2>2 DEF Backed, Followed
<1>3. Advance(v, v, i) /\ Rises(v, v, i)
  BY <1>1, AdvanceReflexive, RisesSame
<1> QED BY <1>2, <1>3 DEF Modest, Raised

\* Nobody loses the Master that it has: it remains RUNNING for it, which includes that
\* the instance itself, if it has a Master, does not stop.  And nobody joins an instance
\* that stays in CONCILIATION, from where statemachine.py:1196 has no way to ELECTION.
Undisturbed ==
    \A i \in Instance :
        /\ \A m \in Instance : Master(i) = m => Seen(i, m)' = "RUNNING"
        /\ Fsm(i) = "CONCILIATION" /\ Fsm(i)' = "CONCILIATION" =>
              \A j \in Instance : Seen(i, j) # "RUNNING" => Seen(i, j)' # "RUNNING"

\* What a concatenation is made of.
LEMMA ConcatElements ==
    ASSUME NEW S, NEW s \in Seq(S), NEW t \in Seq(S), NEW n \in DOMAIN (s \o t)
    PROVE  \/ n \in DOMAIN s /\ (s \o t)[n] = s[n]
           \/ \E l \in DOMAIN t : (s \o t)[n] = t[l]
<1>1. /\ Len(s \o t) = Len(s) + Len(t) /\ s \o t \in Seq(S)
      /\ \A l \in 1 .. Len(s) + Len(t) :
            (s \o t)[l] = IF l <= Len(s) THEN s[l] ELSE t[l - Len(s)]
  BY ConcatProperties
<1>2. Len(s) \in Nat /\ Len(t) \in Nat /\ n \in 1 .. Len(s) + Len(t)
  BY <1>1, LenProperties
<1>3. DOMAIN s = 1 .. Len(s) /\ DOMAIN t = 1 .. Len(t)
  BY LenProperties
<1>4. CASE n <= Len(s)
  BY <1>1, <1>2, <1>3, <1>4
<1>5. CASE n > Len(s)
  <2>1. n - Len(s) \in DOMAIN t /\ (s \o t)[n] = t[n - Len(s)]
    BY <1>1, <1>2, <1>3, <1>5
  <2> QED BY <2>1
<1> QED BY <1>2, <1>4, <1>5

\* A handler that commits w.
LEMMA CommitRaised ==
    ASSUME ~UserSync, IInv, Ascending, Followed, Undisturbed, NEW i \in Instance,
           NEW v, Entered(i, v), Modest(i, v), NEW w, Raised(i, v, w),
           NEW ob \in [Instance -> [Instance -> Seq(Declared(UserSync))]], Queued(ob),
           NEW ans \in [Instance -> [Instance -> DeclaredAnswers]], Answered(ans),
           w.out \in Seq(Declared(UserSync)),
           Commit(i, ob, ans, w)
    PROVE  Ascending' /\ Followed'
<1>1. modes'[i] = w.modes /\ \A k \in Instance \ {i} : modes'[k] = modes[k]
  BY DEF Commit, IInv, DeclaredOK
<1>2. \A k \in Instance \ {i} : Master(k)' = Master(k) /\ Fsm(k)' = Fsm(k)
  BY <1>1 DEF Master, Fsm
<1>3. Master(i)' = w.modes[i].master /\ Fsm(i)' = w.modes[i].state
  BY <1>1 DEF Master, Fsm
<1>4. Outranks(Master(i)', Master(i))
  <2>1. CASE Master(i) \in Instance
    <3>1. w.modes[i].states[Master(i)] = "RUNNING"
      BY <1>1, <2>1 DEF Undisturbed, Seen
    <3>2. v.modes[i].states[Master(i)] # "FAILED"
      BY <2>1, <3>1 DEF Raised, Advance
    <3>3. Seen(i, Master(i)) = "RUNNING"
      BY <2>1, MasterRunning
    <3>4. v.modes[i].master = Master(i)
      BY <2>1, <3>2, <3>3 DEF Entered
    <3> QED BY <1>3, <3>4 DEF Raised, Rises
  <2>2. CASE Master(i) = NoMaster
    BY <2>2 DEF Outranks
  <2> QED BY <2>1, <2>2, MasterTyped
<1>5. \A j \in Instance : Outranks(Master(j)', Master(j))
  BY <1>2, <1>4, MasterTyped
<1>6. \A j \in Instance : \A d : Outranks(Master(j), d) => Outranks(Master(j)', d)
  BY <1>5, OutranksOrder
<1>7. \A k \in Instance : \A j \in Instance \ {k} : Outranks(Master(j)', modes'[k][j].master)
  <2>1. ASSUME NEW k \in Instance \ {i}, NEW j \in Instance \ {k}
        PROVE  Outranks(Master(j)', modes'[k][j].master)
    BY <1>1, <1>6, <2>1 DEF Ascending
  <2>2. ASSUME NEW j \in Instance \ {i}
        PROVE  Outranks(Master(j)', modes'[i][j].master)
    BY <1>1, <1>6, <2>2 DEF Raised, Honest
  <2> QED BY <2>1, <2>2
<1>8. \A n \in DOMAIN w.out : Outranks(Master(i)', w.out[n].master)
  BY <1>3 DEF Raised, Rises, Modest, Ordered
<1>9. ASSUME NEW j \in Instance, NEW k \in Instance, NEW n \in DOMAIN outbox'[j][k]
      PROVE  Outranks(Master(j)', outbox'[j][k][n].master)
  <2>1. outbox' = Pushed(ob, i, w)
    BY DEF Commit
  <2>2. CASE j # i
    <3>1. outbox'[j][k] = ob[j][k]
      BY <2>1, <2>2 DEF Pushed
    <3> QED BY <1>6, <1>9, <3>1 DEF Queued
  <2>3. CASE j = i /\ outbox'[i][k] # << >>
    <3>1. outbox'[i][k] = ob[i][k] \o w.out
      BY <2>1, <2>3 DEF Pushed
    <3>2. ob[i][k] \in Seq(Declared(UserSync)) /\ n \in DOMAIN (ob[i][k] \o w.out)
      BY <1>9, <2>3, <3>1
    <3>3. \/ n \in DOMAIN ob[i][k] /\ outbox'[i][k][n] = ob[i][k][n]
          \/ \E l \in DOMAIN w.out : outbox'[i][k][n] = w.out[l]
      <4> DEFINE s == ob[i][k]
                 t == w.out
      <4>1. s \in Seq(Declared(UserSync)) /\ t \in Seq(Declared(UserSync)) /\ n \in DOMAIN (s \o t)
        BY <3>2
      <4>2. outbox'[i][k] = s \o t
        BY <3>1
      <4> HIDE DEF s, t
      <4>3. \/ n \in DOMAIN s /\ (s \o t)[n] = s[n]
            \/ \E l \in DOMAIN t : (s \o t)[n] = t[l]
        BY <4>1, ConcatElements
      <4> QED BY <4>2, <4>3 DEF s, t
    <3> QED BY <1>6, <1>8, <2>3, <3>3 DEF Queued
  <2>4. CASE j = i /\ outbox'[i][k] = << >>
    BY <1>9, <2>4
  <2> QED BY <2>2, <2>3, <2>4
<1>10. ASSUME NEW k \in Instance, NEW j \in Instance
       PROVE  Outranks(Master(j)', answer'[k][j].modes.master)
  <2>1. answer' = Received(ans, i, w) /\ ans[k][j] \in DeclaredAnswers
    BY DEF Commit
  <2>2. NoAnswer.modes.master = NoMaster
    BY DEF NoAnswer, FreshModes
  <2>3. [ans[k][j] EXCEPT !.code = "LATE"].modes = ans[k][j].modes
    BY <2>1 DEF DeclaredAnswers
  <2>4. answer'[k][j] \in {ans[k][j], [ans[k][j] EXCEPT !.code = "LATE"], NoAnswer}
    BY <2>1 DEF Received
  <2>5. answer'[k][j].modes \in {ans[k][j].modes, NoAnswer.modes}
    BY <2>3, <2>4
  <2> QED BY <1>6, <2>2, <2>5 DEF Answered, Outranks
<1>11. Ascending'
  BY <1>7, <1>9, <1>10 DEF Ascending, Queued, Answered
<1>12. ASSUME NEW k \in Instance \ {i}, Leads(k)', NEW j \in Instance \ {k}, Seen(k, j)' = "RUNNING"
       PROVE  Prefers(Master(j)', k)
  <2>1. Leads(k) /\ Seen(k, j) = "RUNNING"
    BY <1>1, <1>2, <1>12 DEF Leads, Seen
  <2>2. Prefers(Master(j), k)
    BY <2>1 DEF Followed
  <2> QED BY <1>6, <2>2, NoMasterAssumption DEF Outranks
<1>13. ASSUME Leads(i)', NEW j \in Instance \ {i}, Seen(i, j)' = "RUNNING"
       PROVE  Prefers(Master(j)', i)
  <2>1. w.modes[i].master = i /\ w.modes[i].state \in Leading /\ w.modes[i].states[j] = "RUNNING"
    BY <1>1, <1>3, <1>13 DEF Leads, Leading, Seen
  <2>2. ~Joined(v, w, i)
    <3> SUFFICES ASSUME Joined(v, w, i) PROVE FALSE
      OBVIOUS
    <3>1. PICK k \in Instance : v.modes[i].states[k] = "CHECKED" /\ w.modes[i].states[k] = "RUNNING"
      BY DEF Joined
    <3>2. Fsm(i) = "CONCILIATION" /\ Fsm(i)' = "CONCILIATION"
      BY <1>3 DEF Joined, Entered
    <3>3. Seen(i, k) # "RUNNING" /\ Seen(i, k)' = "RUNNING"
      BY <1>1, <3>1 DEF Modest, Seen
    <3> QED BY <3>2, <3>3 DEF Undisturbed
  <2>3. Prefers(Master(j), i)
    BY <2>1, <2>2 DEF Raised, Backed
  <2> QED BY <1>2, <2>3
<1>14. Followed'
  BY <1>12, <1>13 DEF Followed
<1> QED BY <1>11, <1>14

-----------------------------------------------------------------------------
(* What the handlers leave to the evaluation. *)

\* A handler starts from what i holds.
LEMMA HeldModest ==
    ASSUME IInv, Ascending, NEW i \in Instance
    PROVE  Modest(i, Held(i))
<1>1. Held(i).modes = modes[i] /\ Held(i).out = << >>
  BY DEF Held
<1>2. DOMAIN Held(i).out = {}
  BY <1>1
<1> QED BY <1>1, <1>2 DEF Modest, Ordered, Honest, Ascending, Master, Seen

\* An instance that is not the Master changes state.
LEMMA UpdateModest ==
    ASSUME NEW i \in Instance, NEW v, Entered(i, v), Modest(i, v),
           NEW j \in Instance, NEW s \in InstanceStates,
           Seen(i, j) # "RUNNING" \/ s = "FAILED", v.modes[i].master # j
    PROVE  Modest(i, UpdateInstanceState(v, i, j, s))
<1> DEFINE recorded == [v EXCEPT !.modes[i].states[j] = s]
           forgot   == IF s \in {"STOPPED", "ISOLATED"} /\ j # i
                       THEN [recorded EXCEPT !.modes[j] = FreshModes] ELSE recorded
           w == UpdateInstanceState(v, i, j, s)
<1>1. v \in SoundView(UserSync) /\ v.modes \in [Instance -> StateModesRecord]
      /\ v.modes[i].states \in [Instance -> InstanceStates]
  BY SoundParts DEF Entered, Handled
<1>2. /\ recorded.out = v.out /\ recorded.modes[i].master = v.modes[i].master
      /\ \A k \in Instance \ {i} : recorded.modes[k] = v.modes[k]
      /\ \A k \in Instance : recorded.modes[i].states[k] = IF k = j THEN s ELSE v.modes[i].states[k]
  BY <1>1 DEF SoundView, StateModesRecord
<1>3. DOMAIN recorded = DOMAIN v /\ DOMAIN recorded.modes = Instance
      /\ {"modes", "mark", "jobs", "out"} \subseteq DOMAIN v
  BY <1>1 DEF SoundView
<1>4. w = [forgot EXCEPT !.mark = TRUE]
  BY DEF UpdateInstanceState
<1> HIDE DEF recorded
<1>5. /\ forgot.out = v.out /\ forgot.modes[i] = recorded.modes[i]
      /\ \A k \in Instance \ {i} : forgot.modes[k] \in {v.modes[k], FreshModes}
      /\ DOMAIN forgot = DOMAIN v
  BY <1>2, <1>3
<1> HIDE DEF forgot, w
<1>6. w.out = v.out /\ w.modes = forgot.modes
  BY <1>3, <1>4, <1>5
<1>7. Ordered(w, i) /\ w.modes[i].master \in {Master(i), NoMaster}
  BY <1>2, <1>5, <1>6 DEF Modest, Ordered
<1>8. Honest(w, i)
  <2>1. FreshModes.master = NoMaster
    BY DEF FreshModes
  <2> QED BY <1>5, <1>6, <2>1 DEF Modest, Honest, Outranks
<1>9. \A k \in Instance : Seen(i, k) = "RUNNING" => w.modes[i].states[k] \in {"RUNNING", "FAILED"}
  BY <1>2, <1>5, <1>6 DEF Modest
<1> QED BY <1>7, <1>8, <1>9 DEF Modest, w

\* A handshake starts with an instance that is STOPPED, hence not the Master.
LEMMA StartHandshakeModest ==
    ASSUME ~UserSync, IInv, Ascending, NEW i \in Instance, NEW j \in Instance
    PROVE  LET v == StartHandshake(Held(i), i, j)
           IN  /\ Modest(i, v) /\ v.modes[i].master = Master(i) /\ v.out = << >>
               /\ \A k \in Instance \ {i} : v.modes[k] = modes[i][k]
<1> DEFINE w == UpdateInstanceState(Held(i), i, j, "CHECKING")
<1>1. Entered(i, Held(i)) /\ Modest(i, Held(i)) /\ Held(i).modes = modes[i] /\ Held(i).out = << >>
  BY HeldEntered, HeldModest DEF Held
<1>2. CASE Held(i).modes[i].states[j] = "STOPPED"
  <2>1. Seen(i, j) = "STOPPED" /\ Held(i).modes[i].master # j
    BY <1>1, <1>2, MasterRunning DEF Seen, Master
  <2>2. Modest(i, w)
    BY <1>1, <2>1, UpdateModest DEF InstanceStates
  <2>3. w.modes[i].master = Master(i)
    BY <1>1, <2>1, UpdateFrame DEF Entered, Handled, Master
  <2>4. w.out = << >> /\ \A k \in Instance \ {i} : w.modes[k] = modes[i][k]
    <3> DEFINE x == [Held(i) EXCEPT !.modes[i].states[j] = "CHECKING"]
    <3>1. w = [x EXCEPT !.mark = TRUE]
      BY <2>1 DEF UpdateInstanceState
    <3>2. modes[i] \in [Instance -> Declared(UserSync)]
      BY DEF IInv, DeclaredOK
    <3>3. /\ x.out = << >> /\ {"modes", "mark", "out"} \subseteq DOMAIN x
          /\ \A k \in Instance \ {i} : x.modes[k] = modes[i][k]
      BY <3>2 DEF Held
    <3> HIDE DEF x, w
    <3> QED BY <3>1, <3>3
  <2>5. StartHandshake(Held(i), i, j) = w
    BY <1>2 DEF StartHandshake
  <2> QED BY <2>2, <2>3, <2>4, <2>5
<1>3. CASE Held(i).modes[i].states[j] # "STOPPED"
  BY <1>1, <1>3 DEF StartHandshake, Master
<1> QED BY <1>2, <1>3

\* The Master is not one of the instances found inactive.
LEMMA SweptModest ==
    ASSUME ~UserSync, IInv, Ascending, NEW i \in Instance,
           NEW S \in SUBSET Inactive(i), Master(i) \notin S
    PROVE  Modest(i, Swept(i, S))
<1> DEFINE v0 == StartHandshake(Held(i), i, i)
           v1 == [v0 EXCEPT !.modes[i].states = [k \in Instance |-> IF k \in S THEN "FAILED" ELSE @[k]],
                            !.mark = @ \/ S \ {Master(i)} # {}]
           w  == Swept(i, S)
<1>1. /\ Entered(i, v0) /\ Modest(i, v0) /\ v0.modes[i].master = Master(i) /\ v0.out = << >>
      /\ \A k \in Instance \ {i} : v0.modes[k] = modes[i][k]
  BY StartHandshakeEntered, StartHandshakeModest
<1>2. v0 \in SoundView(UserSync)
  BY <1>1, SoundParts DEF Entered, Handled
<1>3. /\ w.modes[i].states = [k \in Instance |-> IF k \in S THEN "FAILED" ELSE v0.modes[i].states[k]]
      /\ w.modes[i].master = Master(i)
  BY <1>1, SweptFrame
<1>4. w = DeferredPublishStatus(v1, i)
  BY DEF Swept
<1> HIDE DEF v0
<1>5. v1.out = << >> /\ DOMAIN v1 = DOMAIN v0 /\ {"modes", "mark", "out"} \subseteq DOMAIN v0
      /\ \A k \in Instance \ {i} : v1.modes[k] = v0.modes[k]
  BY <1>1, <1>2 DEF SoundView
<1> HIDE DEF v1, w
<1>6. w.modes = v1.modes /\ w.out \in {<< >>, Append(<< >>, v1.modes[i])}
  BY <1>4, <1>5 DEF DeferredPublishStatus, PublishStatus
<1>7. \A n \in DOMAIN w.out : w.out[n] = w.modes[i]
  BY <1>6
<1>8. Ordered(w, i)
  BY <1>3, <1>7, MasterTyped DEF Ordered
<1>9. Honest(w, i)
  BY <1>1, <1>5, <1>6 DEF Honest, Ascending
<1>10. \A k \in Instance : Seen(i, k) = "RUNNING" => w.modes[i].states[k] \in {"RUNNING", "FAILED"}
  BY <1>1, <1>3 DEF Modest
<1> QED BY <1>3, <1>8, <1>9, <1>10 DEF Modest, w

\* What is received from j is not ahead of its Master.
LEMMA OnInstanceStateModest ==
    ASSUME IInv, Ascending, NEW i \in Instance, NEW j \in Instance, NEW m \in Declared(UserSync),
           Outranks(Master(j), m.master)
    PROVE  Modest(i, OnInstanceStateEvent(Held(i), i, j, m))
<1> DEFINE v == OnInstanceStateEvent(Held(i), i, j, m)
<1>1. Entered(i, Held(i)) /\ Modest(i, Held(i)) /\ Held(i).modes = modes[i]
  BY HeldEntered, HeldModest
<1>2. v.modes[i] = modes[i][i]
  BY <1>1, OnInstanceStateEventSound, UserSyncBoolean DEF Entered, Handled
<1>3. v.out = Held(i).out
  BY DEF OnInstanceStateEvent, Held
<1>4. \A k \in Instance \ {i} : v.modes[k] = IF k = j THEN m ELSE modes[i][k]
  BY <1>1 DEF OnInstanceStateEvent, IInv, DeclaredOK, Held
<1> HIDE DEF v
<1>5. Honest(v, i)
  BY <1>4 DEF Honest, Ascending
<1>6. Ordered(v, i)
  BY <1>1, <1>2, <1>3 DEF Modest, Ordered
<1> QED BY <1>1, <1>2, <1>5, <1>6 DEF Modest, v

-----------------------------------------------------------------------------
(* The handlers of the main thread, one by one. *)

Led == Ascending /\ Followed

\* A handler that commits without, or after, an evaluation.
LEMMA HandlerLed ==
    ASSUME ~UserSync, IInv, Led, Undisturbed, NEW i \in Instance,
           NEW v, Entered(i, v), Modest(i, v),
           NEW p, NEW work, Parameters(p, work), NEW w \in {v, FsmNext(v, i, p, work)},
           NEW ob \in [Instance -> [Instance -> Seq(Declared(UserSync))]], Queued(ob),
           NEW ans \in [Instance -> [Instance -> DeclaredAnswers]], Answered(ans),
           Commit(i, ob, ans, w)
    PROVE  Led'
<1>1. v \in Sound(UserSync, i) /\ Ascending /\ Followed
  BY DEF Entered, Handled, Led
<1>2. Raised(i, v, w)
  BY <1>1, ModestRaised, FsmNextRaised
<1>3. w \in Sound(UserSync, i)
  BY <1>1, FsmNextSound
<1>4. w.out \in Seq(Declared(UserSync))
  BY <1>3 DEF Sound, SoundView
<1> QED BY <1>1, <1>2, <1>4, CommitRaised DEF Led

\* The queues and the answers as they are.
LEMMA ProxiesLed ==
    ASSUME IInv, Led
    PROVE  /\ outbox \in [Instance -> [Instance -> Seq(Declared(UserSync))]] /\ Queued(outbox)
           /\ answer \in [Instance -> [Instance -> DeclaredAnswers]] /\ Answered(answer)
BY DEF IInv, DeclaredOK, Led, Ascending

\* The timer of supervisord: the Master is not found inactive.
LEMMA OnTickLed ==
    ASSUME ~UserSync, IInv, Led, Undisturbed, NEW i \in Instance,
           NEW S, NEW p, NEW work, Parameters(p, work), OnTick(i, S, p, work)
    PROVE  Led'
<1> DEFINE v == Swept(i, S)
           w == FsmNext(v, i, p, work)
<1>1. S \in SUBSET Inactive(i) /\ Commit(i, outbox, answer, Ticked(i, S, p, work))
  BY DEF OnTick
<1>2. Ticked(i, S, p, work) = w
  BY DEF Ticked, Swept
<1>3. Entered(i, v) /\ v \in Sound(UserSync, i)
  BY <1>1, SweptEntered DEF Entered, Handled
<1>4. Advance(v, w, i)
  BY <1>3, FsmNextSound
<1>5. Master(i) \notin S
  <2> SUFFICES ASSUME Master(i) \in S PROVE FALSE
    OBVIOUS
  <2>1. Master(i) \in Instance
    BY <1>1 DEF Inactive
  <2>2. v.modes[i].states[Master(i)] = "FAILED"
    BY <1>1, <2>1, SweptFrame
  <2> HIDE DEF v, w
  <2>3. w.modes[i].states[Master(i)] # "RUNNING"
    BY <1>4, <2>1, <2>2 DEF Advance
  <2>4. modes'[i] = w.modes
    BY <1>1, <1>2 DEF Commit, IInv, DeclaredOK
  <2> QED BY <2>1, <2>3, <2>4 DEF Undisturbed, Seen
<1>6. Modest(i, v)
  BY <1>1, <1>5, SweptModest DEF Led
<1> HIDE DEF v
<1> QED BY <1>1, <1>2, <1>3, <1>6, HandlerLed, ProxiesLed

\* A TICK of a remote instance is not followed by an evaluation.
LEMMA OnRemoteTickLed ==
    ASSUME ~UserSync, IInv, Led, Undisturbed, NEW i \in Instance, NEW j \in Instance,
           OnRemoteTick(i, j)
    PROVE  Led'
<1> DEFINE v == StartHandshake(Held(i), i, j)
<1>1. Commit(i, outbox, answer, v)
  BY DEF OnRemoteTick
<1>2. Entered(i, v) /\ Modest(i, v) /\ Parameters(i, {})
  BY StartHandshakeEntered, StartHandshakeModest DEF Parameters, Led
<1> HIDE DEF v
<1> QED BY <1>1, <1>2, HandlerLed, ProxiesLed

\* The modes received from j, published or got in the handshake.
LEMMA OnStateEventLed ==
    ASSUME ~UserSync, IInv, Led, Undisturbed, NEW i \in Instance, NEW j \in Instance,
           NEW m \in Declared(UserSync), Outranks(Master(j), m.master),
           NEW p, NEW work, Parameters(p, work),
           NEW ob \in [Instance -> [Instance -> Seq(Declared(UserSync))]], Queued(ob),
           NEW ans \in [Instance -> [Instance -> DeclaredAnswers]], Answered(ans),
           Commit(i, ob, ans, OnStateEvent(i, j, m, p, work))
    PROVE  Led'
<1> DEFINE v == OnInstanceStateEvent(Held(i), i, j, m)
           w == OnStateEvent(i, j, m, p, work)
<1>1. Entered(i, v) /\ Modest(i, v) /\ Entered(i, Held(i)) /\ Modest(i, Held(i))
  BY OnInstanceStateEntered, OnInstanceStateModest, HeldEntered, HeldModest DEF Led
<1>2. w = Held(i) \/ w \in {v, FsmNext(v, i, p, work)}
  BY DEF OnStateEvent
<1> HIDE DEF v, w
<1>3. Commit(i, ob, ans, w)
  BY DEF w
<1>4. CASE w = Held(i)
  BY <1>1, <1>3, <1>4, HandlerLed
<1>5. CASE w \in {v, FsmNext(v, i, p, work)}
  BY <1>1, <1>3, <1>5, HandlerLed
<1> QED BY <1>2, <1>4, <1>5

\* The state and modes got in a handshake.
LEMMA OnHandshakeStateLed ==
    ASSUME ~UserSync, IInv, Led, Undisturbed, NEW i \in Instance, NEW j \in Instance,
           NEW p, NEW work, Parameters(p, work), OnHandshakeState(i, j, p, work)
    PROVE  Led'
<1> DEFINE a == IF answer[i][j].code = "LATE" THEN NoAnswer
                ELSE [code |-> "AUTHORIZED", modes |-> FreshModes]
           ans == [answer EXCEPT ![i][j] = a]
           m == answer[i][j].modes
<1>1. m \in Declared(UserSync) /\ Outranks(Master(j), m.master)
  BY ProxiesLed DEF Answered, DeclaredAnswers
<1>2. a \in DeclaredAnswers /\ a.modes.master = NoMaster
  BY FreshModesDeclared, UserSyncBoolean DEF NoAnswer, DeclaredAnswers, FreshModes
<1>3. Commit(i, outbox, ans, OnStateEvent(i, j, m, p, work))
  BY DEF OnHandshakeState, IInv, DeclaredOK
<1> HIDE DEF a, m
<1>4. ans \in [Instance -> [Instance -> DeclaredAnswers]] /\ Answered(ans)
  BY <1>2, ProxiesLed DEF Answered, Outranks
<1> HIDE DEF ans
<1> QED BY <1>1, <1>3, <1>4, ProxiesLed, OnStateEventLed

\* The head of a queue is not ahead of the Master of its sender.
LEMMA QueueLed ==
    ASSUME IInv, Led, NEW i \in Instance, NEW j \in Instance, outbox[i][j] # << >>
    PROVE  LET ob == [outbox EXCEPT ![i][j] = Tail(outbox[i][j])]
           IN  /\ Head(outbox[i][j]) \in Declared(UserSync)
               /\ Outranks(Master(i), Head(outbox[i][j]).master)
               /\ ob \in [Instance -> [Instance -> Seq(Declared(UserSync))]] /\ Queued(ob)
<1> DEFINE q == outbox[i][j]
           t == Tail(q)
           ob == [outbox EXCEPT ![i][j] = t]
<1>1. q \in Seq(Declared(UserSync)) /\ q # << >>
  BY DEF IInv, DeclaredOK
<1>2. \A n \in DOMAIN q : Outranks(Master(i), q[n].master)
  BY DEF Led, Ascending, Queued
<1> HIDE DEF q
<1>3. Len(q) \in Nat /\ Len(q) # 0 /\ DOMAIN q = 1 .. Len(q)
  BY <1>1, LenProperties, EmptySeq
<1>4. /\ Head(q) = q[1] /\ Head(q) \in Declared(UserSync) /\ t \in Seq(Declared(UserSync))
      /\ Len(t) = Len(q) - 1 /\ \A n \in 1 .. Len(t) : t[n] = q[n + 1]
  BY <1>1, HeadTailProperties
<1>5. \A n \in DOMAIN t : n + 1 \in DOMAIN q /\ t[n] = q[n + 1]
  BY <1>3, <1>4, LenProperties
<1>6. Outranks(Master(i), Head(q).master)
  BY <1>2, <1>3, <1>4
<1>7. \A n \in DOMAIN t : Outranks(Master(i), t[n].master)
  BY <1>2, <1>5
<1> HIDE DEF t
<1>8. ob \in [Instance -> [Instance -> Seq(Declared(UserSync))]]
  BY <1>4 DEF IInv, DeclaredOK
<1>9. \A k, l \in Instance : ob[k][l] = IF k = i /\ l = j THEN t ELSE outbox[k][l]
  BY DEF IInv, DeclaredOK
<1> HIDE DEF ob
<1>10. Queued(ob)
  BY <1>7, <1>9 DEF Led, Ascending, Queued
<1> QED BY <1>4, <1>6, <1>8, <1>10 DEF ob, t, q

\* A publication.
LEMMA PublishLed ==
    ASSUME ~UserSync, IInv, Led, Undisturbed, NEW i \in Instance, NEW j \in Instance,
           NEW p, NEW work, Parameters(p, work), Publish(i, j, p, work)
    PROVE  Led'
<1> DEFINE ob == [outbox EXCEPT ![i][j] = Tail(outbox[i][j])]
           m  == Head(outbox[i][j])
<1>1. outbox[i][j] # << >> /\ Commit(j, ob, answer, OnStateEvent(j, i, m, p, work))
  BY DEF Publish, IInv, DeclaredOK
<1>2. /\ m \in Declared(UserSync) /\ Outranks(Master(i), m.master)
      /\ ob \in [Instance -> [Instance -> Seq(Declared(UserSync))]] /\ Queued(ob)
  BY <1>1, QueueLed
<1> HIDE DEF ob, m
<1> QED BY <1>1, <1>2, ProxiesLed, OnStateEventLed

\* An authorization is about an instance that is CHECKING, hence not the Master.
LEMMA OnAuthorizationLed ==
    ASSUME ~UserSync, IInv, Led, Undisturbed, NEW i \in Instance, NEW j \in Instance,
           NEW p, NEW work, Parameters(p, work), OnAuthorization(i, j, p, work)
    PROVE  Led'
<1> DEFINE code == answer[i][j].code
           to   == CASE code = "NOT_AUTHORIZED" -> InvalidState(Held(i), i, j, TRUE)
                     [] code = "UNKNOWN"        -> "STOPPED"
                     [] code = "AUTHORIZED"     -> "CHECKED"
           v    == UpdateInstanceState(Held(i), i, j, to)
           x    == IF i = j /\ to = "CHECKED" THEN UpdateInstanceState(v, i, i, "RUNNING") ELSE v
<1>1. code \in {"UNKNOWN", "NOT_AUTHORIZED", "AUTHORIZED"}
  BY DEF OnAuthorization
<1>2. Seen(i, j) = "CHECKING" /\ Master(i) # j
  BY <1>1, MasterRunning DEF IInv, AnswersCurrent
<1>3. Entered(i, Held(i)) /\ Held(i).modes = modes[i] /\ Modest(i, Held(i))
  BY HeldEntered, HeldModest DEF Led
<1>4. j = i => Held(i).modes[i].state = "OFF"
  BY <1>2, <1>3 DEF IInv, LocalRunning, Fsm
<1>5. to \in InstanceStates
  BY <1>1 DEF InvalidState, InstanceStates
<1>6. to # "RUNNING"
  BY <1>1 DEF InvalidState
<1>7. Commit(i, outbox, answer, FsmNext(x, i, p, work))
  BY DEF OnAuthorization
<1> HIDE DEF to
<1>8. Entered(i, v) /\ Modest(i, v)
  BY <1>2, <1>3, <1>4, <1>5, <1>6, UpdateEntered, UpdateModest DEF Master
<1> HIDE DEF v
<1>9. Entered(i, x) /\ Modest(i, x)
  <2>1. v.modes[i].master # j
    BY <1>2, <1>8, NoMasterAssumption DEF Modest
  <2>2. i = j => /\ Entered(i, UpdateInstanceState(v, i, j, "RUNNING"))
                 /\ Modest(i, UpdateInstanceState(v, i, j, "RUNNING"))
    BY <1>2, <1>8, <2>1, UpdateEntered, UpdateModest DEF InstanceStates
  <2> QED BY <1>8, <2>2
<1> HIDE DEF x
<1> QED BY <1>7, <1>9, HandlerLed, ProxiesLed

\* The failure is not about the Master.
LEMMA OnInstanceFailureLed ==
    ASSUME ~UserSync, IInv, Led, Undisturbed, NEW i \in Instance, NEW j \in Instance,
           OnInstanceFailure(i, j)
    PROVE  Led'
<1> DEFINE u == UpdateInstanceState(Held(i), i, j, "FAILED")
           v == IF Seen(i, j) \in Failable THEN u ELSE Held(i)
<1>1. i # j /\ Commit(i, outbox, answer, v) /\ Parameters(i, {})
  BY DEF OnInstanceFailure, IInv, LocalReachable, Parameters
<1>2. Entered(i, Held(i)) /\ Modest(i, Held(i)) /\ Held(i).modes = modes[i]
  BY HeldEntered, HeldModest DEF Led
<1>3. CASE Seen(i, j) \in Failable
  <2>1. Entered(i, u)
    BY <1>1, <1>2, <1>3, UpdateEntered DEF Failable, InstanceStates
  <2>2. u.modes[i].states[j] = "FAILED"
    <3>1. Held(i) \in Sound(UserSync, i) /\ Held(i).modes[i].states \in [Instance -> InstanceStates]
      BY <1>2, SoundParts DEF Entered, Handled
    <3> DEFINE s == "FAILED"
               h == Held(i)
    <3>2. s \in InstanceStates
      BY DEF InstanceStates
    <3> HIDE DEF s, h
    <3>3. UpdateInstanceState(h, i, j, s).modes[i].states = [h.modes[i].states EXCEPT ![j] = s]
      BY <1>1, <3>1, <3>2, UpdateInstanceStateSound, UserSyncBoolean DEF h
    <3> QED BY <3>1, <3>3 DEF s, h
  <2>3. Master(i) # j
    <3>1. modes'[i] = u.modes
      BY <1>1, <1>3 DEF Commit, IInv, DeclaredOK
    <3> HIDE DEF u
    <3> QED BY <2>2, <3>1 DEF Undisturbed, Seen
  <2>4. Modest(i, u)
    BY <1>2, <2>3, UpdateModest DEF InstanceStates, Master
  <2> HIDE DEF u
  <2> QED BY <1>1, <1>3, <2>1, <2>4, HandlerLed, ProxiesLed
<1>4. CASE Seen(i, j) \notin Failable
  BY <1>1, <1>2, <1>4, HandlerLed, ProxiesLed
<1> QED BY <1>3, <1>4

\* The user puts an end to Supvisors: the instance does not lead anymore.
LEMMA OnEndRequestLed ==
    ASSUME ~UserSync, IInv, Led, Undisturbed, NEW i \in Instance, NEW s \in EndRequests,
           NEW p, NEW work, Parameters(p, work), OnEndRequest(i, s, p, work)
    PROVE  Led'
<1> DEFINE h == Held(i)
           r == Suggest(h, s)
           w == SetFsmState(r, i, p, work)
           x == SetState(h, i, s)
           y == Enter(x, i, work)
           m == [h.modes[i] EXCEPT !.state = s]
<1>1. Entered(i, h) /\ Modest(i, h) /\ h \in Sound(UserSync, i) /\ h.modes = modes[i]
  BY HeldEntered, HeldModest DEF Led, Entered, Handled
<1>2. s \in {"RESTARTING", "SHUTTING_DOWN"} /\ s \in Transitions[Fsm(i)] /\ Fsm(i) \in FsmStates
  BY <1>1, BoundsAssumption, SoundParts DEF OnEndRequest, Fsm
<1>3. Fsm(i) \notin {"OFF", s}
  BY <1>2 DEF Transitions, FsmStates
<1>4. h.modes[i].states[i] = "RUNNING" /\ h.modes[i].state = Fsm(i)
  BY <1>1, <1>3 DEF IInv, LocalRunning, Seen, Fsm
<1>5. Commit(i, outbox, answer, w)
  BY DEF OnEndRequest
<1> HIDE DEF h
<1>6. r \in Evaluation
  <2>1. Declared(UserSync) \subseteq StateModesRecord
    BY DEF Declared
  <2>2. Sound(UserSync, i) \subseteq View
    BY <2>1, DeclaredSequences DEF Sound, SoundView, View
  <2> QED BY <1>1, <1>2, <2>2 DEF Evaluation, Suggest, FsmStates
<1>7. Turn(r, i, p, work) = Evaluate(y, i, p, work)
  BY <1>2, <1>3, <1>4 DEF Turn, Suggest
<1>8. x \in Sound(UserSync, i) /\ Rises(h, x, i)
  BY <1>1, <1>2, <1>4, SetStateSound, SetStateRises, UserSyncBoolean DEF FsmStates
<1>9. x.modes[i] = m /\ OthersSame(h, x, i)
  BY <1>1, SetStateFrame, MineParts
<1>10. m.state = s /\ m.states = h.modes[i].states
  BY <1>1, SoundParts DEF StateModesRecord
<1> HIDE DEF m, x
<1>11. y \in Sound(UserSync, i) /\ y.modes = x.modes /\ Rises(x, y, i)
  BY <1>8, EnterSound, EnterRises DEF Parameters
<1> HIDE DEF y, r
<1>12. Advance(h, y, i) /\ Rises(h, y, i) /\ Honest(y, i) /\ Backed(y, i)
  <2>1. Advance(h, y, i)
    BY <1>9, <1>10, <1>11 DEF Advance
  <2>2. Rises(h, y, i)
    BY <1>8, <1>11, RisesTransitive
  <2>3. Honest(y, i)
    BY <1>1, <1>9, <1>11 DEF Modest, Honest, OthersSame
  <2>4. Backed(y, i)
    BY <1>2, <1>9, <1>10, <1>11 DEF Backed, Leading
  <2> QED BY <2>1, <2>2, <2>3, <2>4
<1>13. y.modes[i].state # "CONCILIATION"
  BY <1>2, <1>9, <1>10, <1>11
<1>14. Calm(i, h, Turn(r, i, p, work))
  BY <1>7, <1>11, <1>12, <1>13, EvaluateCalm
<1>15. Raised(i, h, w)
  BY <1>6, <1>14, SetFsmStateRaised
<1>16. w.out \in Seq(Declared(UserSync))
  <2>1. Outcome(i, h, Suggest(h, s))
    BY <1>1, <1>2, <1>4, SuggestOutcome, AdvanceReflexive DEF FsmStates
  <2>2. w \in Sound(UserSync, i)
    BY <1>1, <2>1, SetFsmStateSound DEF r
  <2> QED BY <2>2 DEF Sound, SoundView
<1> HIDE DEF w
<1> QED BY <1>1, <1>5, <1>15, <1>16, ProxiesLed, CommitRaised DEF Led

\* The jobs that are done.
LEMMA JobsDoneLed ==
    ASSUME ~UserSync, IInv, Led, Undisturbed, NEW i \in Instance, JobsDone(i)
    PROVE  Led'
<1>1. PICK job \in jobs[i] : Commit(i, outbox, answer, SetJobs(Held(i), i, jobs[i] \ {job}))
  BY DEF JobsDone
<1> DEFINE js == jobs[i] \ {job}
           h == Held(i)
           w == SetJobs(h, i, js)
<1>2. Entered(i, h) /\ Modest(i, h) /\ h \in Sound(UserSync, i)
  BY HeldEntered, HeldModest DEF Led, Entered, Handled
<1>3. Raised(i, h, h)
  BY <1>2, ModestRaised DEF Led
<1>4. js \in SUBSET {"start", "stop"}
  BY DEF IInv, DeclaredOK
<1> HIDE DEF h, js
<1>5. w.modes = h.modes /\ w \in Sound(UserSync, i) /\ Rises(h, w, i)
  BY <1>2, <1>4, SetJobsFrame, SetJobsSound, SetJobsRises, UserSyncBoolean
<1> HIDE DEF w
<1>6. Raised(i, h, w)
  BY <1>3, <1>5 DEF Raised, Advance, Honest, Backed, Joined
<1>7. w.out \in Seq(Declared(UserSync)) /\ Commit(i, outbox, answer, w)
  BY <1>1, <1>5 DEF Sound, SoundView, w, h, js
<1> QED BY <1>2, <1>6, <1>7, ProxiesLed, CommitRaised DEF Led

-----------------------------------------------------------------------------
(* The other steps, which change no Master. *)

\* An instance keeps what it holds, or forgets it.
LEMMA QuietLed ==
    ASSUME IInv, Led, \A j \in Instance : Master(j)' = Master(j),
           \A k \in Instance :
              \/ modes'[k] = modes[k]
              \/ ~Leads(k)' /\ \A j \in Instance \ {k} : modes'[k][j] \in {modes[k][j], FreshModes},
           \A j, k \in Instance : \A n \in DOMAIN outbox'[j][k] :
              Outranks(Master(j), outbox'[j][k][n].master),
           \A k, j \in Instance : Outranks(Master(j), answer'[k][j].modes.master)
    PROVE  Led'
<1>1. FreshModes.master = NoMaster
  BY DEF FreshModes
<1>2. ASSUME NEW k \in Instance, NEW j \in Instance \ {k}
      PROVE  Outranks(Master(j)', modes'[k][j].master)
  <2>1. Outranks(Master(j), modes[k][j].master)
    BY DEF Led, Ascending
  <2>2. modes'[k][j] \in {modes[k][j], FreshModes}
    OBVIOUS
  <2> QED BY <1>1, <2>1, <2>2 DEF Outranks
<1>3. Ascending'
  BY <1>2 DEF Ascending, Queued, Answered
<1>4. ASSUME NEW k \in Instance, Leads(k)', NEW j \in Instance \ {k}, Seen(k, j)' = "RUNNING"
      PROVE  Prefers(Master(j)', k)
  <2>1. modes'[k] = modes[k]
    BY <1>4
  <2>2. Leads(k) /\ Seen(k, j) = "RUNNING"
    BY <1>4, <2>1 DEF Leads, Seen, Master, Fsm
  <2> QED BY <2>2 DEF Led, Followed
<1>5. Followed'
  BY <1>4 DEF Followed
<1> QED BY <1>3, <1>5 DEF Led

\* The steps that change neither the modes nor what is in the proxies.
LEMMA SameLed ==
    ASSUME IInv, Led, UNCHANGED <<modes, outbox, answer>>
    PROVE  Led'
<1>1. \A j \in Instance : Master(j)' = Master(j)
  BY DEF Master
<1> QED BY <1>1, ProxiesLed, QuietLed DEF Queued, Answered

\* What the handshake gets from j is what it declares now.
LEMMA CheckInstanceLed ==
    ASSUME IInv, Led, NEW i \in Instance, NEW j \in Instance, NEW code, CheckInstance(i, j, code)
    PROVE  Led'
<1> DEFINE a == IF code = "UNKNOWN" THEN [code |-> code, modes |-> FreshModes]
                ELSE IF Seen(j, i) = "ISOLATED"
                THEN [code |-> "NOT_AUTHORIZED", modes |-> FreshModes]
                ELSE [code |-> "STATE", modes |-> modes[j][j]]
<1>1. Outranks(Master(j), a.modes.master)
  <2>1. a.modes.master \in {NoMaster, Master(j)}
    BY DEF FreshModes, Master
  <2> HIDE DEF a
  <2> QED BY <2>1, MasterTyped DEF Outranks
<1>2. answer' = [answer EXCEPT ![i][j] = a] /\ modes' = modes /\ outbox' = outbox
  BY DEF CheckInstance, viewVars
<1> HIDE DEF a
<1>3. \A k, l \in Instance : answer'[k][l] = IF k = i /\ l = j THEN a ELSE answer[k][l]
  BY <1>2 DEF IInv, DeclaredOK
<1>4. \A k, l \in Instance : Outranks(Master(l), answer'[k][l].modes.master)
  BY <1>1, <1>3, ProxiesLed DEF Answered
<1>5. \A k \in Instance : Master(k)' = Master(k)
  BY <1>2 DEF Master
<1> QED BY <1>2, <1>4, <1>5, ProxiesLed, QuietLed DEF Queued

\* A publication that cannot be sent is lost.
LEMMA SendFailureLed ==
    ASSUME IInv, Led, NEW i \in Instance, NEW j \in Instance, SendFailure(i, j)
    PROVE  Led'
<1>1. modes' = modes /\ answer' = answer
      /\ outbox' = [outbox EXCEPT ![i][j] = IF @ = << >> THEN @ ELSE Tail(@)]
  BY DEF SendFailure, viewVars
<1>2. \A k \in Instance : Master(k)' = Master(k)
  BY <1>1 DEF Master
<1>3. CASE outbox[i][j] = << >>
  <2>1. outbox' = outbox
    BY <1>1, <1>3 DEF IInv, DeclaredOK
  <2> QED BY <1>1, <2>1, SameLed
<1>4. CASE outbox[i][j] # << >>
  <2> DEFINE ob == [outbox EXCEPT ![i][j] = Tail(outbox[i][j])]
  <2>1. outbox' = ob
    BY <1>1, <1>4 DEF IInv, DeclaredOK
  <2>2. Queued(ob)
    BY <1>4, QueueLed
  <2> HIDE DEF ob
  <2> QED BY <1>1, <1>2, <2>1, <2>2, ProxiesLed, QuietLed DEF Queued, Answered
<1> QED BY <1>3, <1>4

\* A new life has no Master, as the end of the previous one.
LEMMA StartLed ==
    ASSUME IInv, Led, NEW i \in Instance, Start(i)
    PROVE  Led'
<1> DEFINE m == [FreshModes EXCEPT !.states[i] = "CHECKING"]
<1>1. modes[i][i] = FreshModes /\ modes[i] \in [Instance -> Declared(UserSync)]
  BY DEF Start, IInv, DownIsFresh, FreshView, DeclaredOK
<1>2. /\ modes' = [modes EXCEPT ![i] = [modes[i] EXCEPT ![i] = m]]
      /\ outbox' = outbox /\ answer' = answer
  BY <1>1 DEF Start, IInv, DeclaredOK, proxyVars
<1>3. /\ modes'[i][i] = m /\ \A j \in Instance \ {i} : modes'[i][j] = modes[i][j]
      /\ \A k \in Instance \ {i} : modes'[k] = modes[k]
  BY <1>1, <1>2 DEF IInv, DeclaredOK
<1>4. m.master = NoMaster
  BY DEF FreshModes
<1> HIDE DEF m
<1>5. Master(i)' = NoMaster /\ Master(i) = NoMaster /\ ~Leads(i)'
  BY <1>1, <1>3, <1>4, NoMasterAssumption DEF Master, FreshModes, Leads
<1>6. \A k \in Instance : Master(k)' = Master(k)
  BY <1>3, <1>5 DEF Master
<1> QED BY <1>2, <1>3, <1>5, <1>6, ProxiesLed, QuietLed DEF Queued, Answered

\* An instance that has a Master does not stop.
LEMMA StopLed ==
    ASSUME IInv, Led, Undisturbed, NEW i \in Instance, Stop(i)
    PROVE  Led'
<1>1. /\ modes'[i] = FreshView.modes /\ \A k \in Instance \ {i} : modes'[k] = modes[k]
      /\ \A j \in Instance : outbox'[i][j] = << >> /\ answer'[i][j] = NoAnswer
      /\ \A k \in Instance \ {i} : outbox'[k] = outbox[k] /\ answer'[k] = answer[k]
  BY DEF Stop, IInv, DeclaredOK
<1>2. \A j \in Instance : modes'[i][j] = FreshModes
  BY <1>1 DEF FreshView
<1>3. Master(i)' = NoMaster /\ ~Leads(i)' /\ \A j \in Instance : Seen(i, j)' = "STOPPED"
  BY <1>2, NoMasterAssumption DEF Master, Leads, Seen, FreshModes
<1>4. Master(i) = NoMaster
  BY <1>3, MasterTyped DEF Undisturbed
<1>5. \A k \in Instance : Master(k)' = Master(k)
  BY <1>1, <1>3, <1>4 DEF Master
<1>6. ASSUME NEW j \in Instance, NEW k \in Instance, NEW n \in DOMAIN outbox'[j][k]
      PROVE  Outranks(Master(j), outbox'[j][k][n].master)
  <2>1. CASE j = i
    BY <1>1, <1>6, <2>1
  <2>2. CASE j # i
    BY <1>1, <1>6, <2>2, ProxiesLed DEF Queued
  <2> QED BY <2>1, <2>2
<1>7. ASSUME NEW k \in Instance, NEW j \in Instance
      PROVE  Outranks(Master(j), answer'[k][j].modes.master)
  <2>1. CASE k = i
    BY <1>1, <2>1 DEF NoAnswer, FreshModes, Outranks
  <2>2. CASE k # i
    BY <1>1, <2>2, ProxiesLed DEF Answered
  <2> QED BY <2>1, <2>2
<1> QED BY <1>1, <1>2, <1>3, <1>5, <1>6, <1>7, QuietLed

\* The events of the main thread and the proxies of i, one by one.
LEMMA HandleLed ==
    ASSUME ~UserSync, IInv, Led, Undisturbed, NEW i \in Instance, Handle(i)
    PROVE  Led'
<1>1. ASSUME NEW p \in Preferred, NEW work \in Works
      PROVE  Parameters(p, work)
  BY BoundsAssumption DEF Parameters
<1>2. \A m, p, work : ~EndSync(i, m, p, work)
  BY DEF EndSync, UserSync
<1>3. ASSUME NEW p \in Preferred, NEW work \in Works,
             \/ \E S \in SUBSET Instance : OnTick(i, S, p, work)
             \/ \E j \in Instance : OnHandshakeState(i, j, p, work) \/ OnAuthorization(i, j, p, work)
             \/ \E m \in Instance \cup {NoMaster} : EndSync(i, m, p, work)
             \/ \E s \in EndRequests : OnEndRequest(i, s, p, work)
             \/ \E j \in Instance : Publish(i, j, p, work)
      PROVE  Led'
  BY <1>1, <1>2, <1>3, OnTickLed, OnHandshakeStateLed, OnAuthorizationLed, OnEndRequestLed,
     PublishLed
<1>4. ASSUME NEW j \in Instance, OnRemoteTick(i, j) \/ OnInstanceFailure(i, j)
      PROVE  Led'
  BY <1>4, OnRemoteTickLed, OnInstanceFailureLed
<1>5. ASSUME NEW j \in Instance, SendFailure(i, j) \/ \E code \in Codes : CheckInstance(i, j, code)
      PROVE  Led'
  BY <1>5, SendFailureLed, CheckInstanceLed
<1>6. CASE JobsDone(i) \/ Elapse(i)
  BY <1>6, JobsDoneLed, SameLed DEF Elapse, proxyVars
<1> QED BY <1>3, <1>4, <1>5, <1>6 DEF Handle

\* Every step.
LEMMA NextLed ==
    ~UserSync /\ IInv /\ Led /\ [Next]_vars /\ Undisturbed => Led'
<1> SUFFICES ASSUME ~UserSync, IInv, Led, [Next]_vars, Undisturbed PROVE Led'
  OBVIOUS
<1>1. ASSUME NEW i \in Instance, Start(i) \/ Crash(i) \/ End(i)
      PROVE  Led'
  BY <1>1, StartLed, StopLed DEF Crash, End
<1>2. ASSUME \/ \E i, j \in Instance : Cut(i, j) \/ Heal(i, j)
             \/ ConflictAppears \/ ConflictEnds
      PROVE  Led'
  BY <1>2, SameLed DEF Cut, Heal, ConflictAppears, ConflictEnds, viewVars, proxyVars
<1>3. CASE UNCHANGED vars
  BY <1>3, SameLed DEF vars, viewVars, proxyVars
<1> QED BY <1>1, <1>2, <1>3, HandleLed DEF Next, Environment

\* Nobody has had a Master to begin with.
LEMMA InitLed == Init => Led
<1> SUFFICES ASSUME Init PROVE Led
  OBVIOUS
<1>1. \A i, j \in Instance : modes[i][j] = FreshModes
  BY DEF Init, FreshView
<1>2. \A i, j \in Instance : outbox[i][j] = << >> /\ answer[i][j] = NoAnswer
  BY DEF Init
<1>3. FreshModes.master = NoMaster /\ NoAnswer.modes.master = NoMaster
  BY DEF FreshModes, NoAnswer
<1>4. Ascending
  BY <1>1, <1>2, <1>3 DEF Ascending, Queued, Answered, Outranks
<1>5. Followed
  BY <1>1, <1>3, NoMasterAssumption DEF Followed, Leads, Master
<1> QED BY <1>4, <1>5 DEF Led

\* Two Masters that see each other would both be preferred to the other.
LEMMA LedOneLeader == Followed => OneLeader
<1> SUFFICES ASSUME Followed, NEW i \in Instance, NEW j \in Instance, i # j, Leads(i), Leads(j),
                    Seen(i, j) = "RUNNING", Seen(j, i) = "RUNNING"
             PROVE  FALSE
  BY DEF OneLeader
<1>1. Prefers(Master(j), i) /\ Prefers(Master(i), j)
  BY DEF Followed
<1>2. Master(i) = i /\ Master(j) = j
  BY DEF Leads
<1> QED BY <1>1, <1>2, OutranksOrder

\* Without the USER option, two instances that see each other RUNNING are never both
\* the Master at work, as long as no Master is lost and nobody joins a conciliation
\* that goes on: an instance only replaces its Master by one that is preferred to it
\* in select_master (statemodes.py:419), whatever is late, lost, cut or restarted
\* otherwise, and the Master at work has been declared by all those it sees.
THEOREM OneLeaderUndisturbed ==
    ASSUME "USER" \notin SyncOptions
    PROVE  Spec /\ [][Undisturbed]_vars => []OneLeader
<1>1. ~UserSync
  BY DEF UserSync
<1>2. Init => Led
  BY InitLed
<1>3. IInv /\ Led /\ [Next]_vars /\ [Undisturbed]_vars => Led'
  <2>1. CASE UNCHANGED vars
    BY <2>1, SameLed DEF vars, viewVars, proxyVars
  <2>2. CASE Undisturbed
    BY <1>1, <2>2, NextLed
  <2> QED BY <2>1, <2>2
<1>4. Led => OneLeader
  BY LedOneLeader DEF Led
<1> QED BY <1>2, <1>3, <1>4, Invariant, PTL DEF Spec
=============================================================================
