------------------------- MODULE InstanceLifeProofs -------------------------
(***************************************************************************)
(* The state machine implements InstanceLife: whatever a handler does of   *)
(* the instances, one after the other, each of them has followed its life  *)
(* cycle when the handler returns.                                         *)
(***************************************************************************)
EXTENDS MasterProofs

\* What becomes of an instance that is lost, as in InstanceLife.
Lost(i, j) == IF AutoFence /\ j # i THEN {"STOPPED", "ISOLATED"} ELSE {"STOPPED"}

\* The instance j may get the state t in a handler of i: the disjuncts of Follows in
\* InstanceLife, in their order.
Begun(i, j, t) == Seen(i, j) = "STOPPED" /\ t = "CHECKING" /\ (j = i \/ Ticks(i, j))

Accepted(i, j, t) ==
    Seen(i, j) = "CHECKING" /\ answer[i][j].code = "AUTHORIZED" /\ t \in {"CHECKED", "RUNNING"}

Rejected(i, j, t) ==
    /\ Seen(i, j) = "CHECKING" /\ answer[i][j].code \in {"UNKNOWN", "NOT_AUTHORIZED"}
    /\ t = IF answer[i][j].code = "NOT_AUTHORIZED" /\ j # i THEN "ISOLATED" ELSE "STOPPED"

Reported(i, j, t) == Seen(i, j) \in {"CHECKING", "CHECKED", "RUNNING"} /\ j \in failing[i] /\ t = "FAILED"

Missing(i, j) ==
    Seen(i, j) \notin {"STOPPED", "ISOLATED"} /\ j # i /\ (~Ticks(i, j) \/ heard[i][j] < 2)

May(i, j, t) ==
    \/ t = Seen(i, j)
    \/ Begun(i, j, t) \/ Accepted(i, j, t) \/ Rejected(i, j, t)
    \/ Seen(i, j) = "CHECKED" /\ t = "RUNNING"
    \/ Reported(i, j, t)
    \/ Missing(i, j) /\ t \in Lost(i, j)
    \/ Seen(i, j) = "FAILED" /\ t \in Lost(i, j)

\* A handler of i may leave the view v.
Lived(i, v) == \A j \in Instance : May(i, j, v.modes[i].states[j])

\* What a handler leaves to the evaluation of the FSM: the instances found inactive
\* are FAILED until then.
Opened(i, v) ==
    \A j \in Instance :
        LET t == v.modes[i].states[j]
        IN  \/ t = Seen(i, j)
            \/ Begun(i, j, t) \/ Accepted(i, j, t) \/ Rejected(i, j, t)
            \/ Missing(i, j) /\ t = "FAILED"

-----------------------------------------------------------------------------
(* The evaluation of the FSM. *)

\* An evaluation leaves no instance FAILED.
LEMMA FsmNextInvalidates ==
    ASSUME NEW i \in Instance, NEW v \in Sound(UserSync, i), NEW p, NEW work, Parameters(p, work)
    PROVE  /\ Advance(v, FsmNext(v, i, p, work), i)
           /\ \A j \in Instance : FsmNext(v, i, p, work).modes[i].states[j] # "FAILED"
<1> DEFINE r == Evaluate(v, i, p, work)
<1>1. Outcome(i, v, r)
  BY EvaluateSound
<1>2. r.v.modes[i].states = Activated(v, i).modes[i].states
  BY EvaluateShape DEF Shape
<1>3. \A j \in Instance : r.v.modes[i].states[j] # "FAILED"
  BY <1>2, ActivatedFrame
<1>4. Outcome(i, r.v, r)
  BY <1>1, AdvanceReflexive DEF Outcome
<1>5. FsmNext(v, i, p, work) = SetFsmState(r, i, p, work)
  BY DEF FsmNext
<1> HIDE DEF r
<1>6. /\ Advance(v, SetFsmState(r, i, p, work), i)
      /\ Advance(r.v, SetFsmState(r, i, p, work), i)
  BY <1>1, <1>4, SetFsmStateSound
<1>7. \A j \in Instance : SetFsmState(r, i, p, work).modes[i].states[j] # "FAILED"
  BY <1>3, <1>6 DEF Advance
<1> QED BY <1>5, <1>6, <1>7

\* What an evaluation makes of what a handler leaves to it.
LEMMA FsmNextLived ==
    ASSUME NEW i \in Instance, NEW v \in Sound(UserSync, i), Opened(i, v),
           NEW p, NEW work, Parameters(p, work)
    PROVE  Lived(i, FsmNext(v, i, p, work))
<1> DEFINE w == FsmNext(v, i, p, work)
<1>1. Advance(v, w, i) /\ \A j \in Instance : w.modes[i].states[j] # "FAILED"
  BY FsmNextInvalidates
<1> HIDE DEF w
<1> SUFFICES ASSUME NEW j \in Instance PROVE May(i, j, w.modes[i].states[j])
  BY DEF Lived, w
<1> DEFINE s == v.modes[i].states[j]
           t == w.modes[i].states[j]
<1>2. /\ \/ t = s
         \/ s = "FAILED" /\ t \in Lost(i, j)
         \/ s = "CHECKED" /\ t = "RUNNING"
      /\ t # "FAILED"
  BY <1>1 DEF Advance, Lost
<1>3. \/ s = Seen(i, j)
      \/ Begun(i, j, s) \/ Accepted(i, j, s) \/ Rejected(i, j, s)
      \/ Missing(i, j) /\ s = "FAILED"
  BY DEF Opened
<1> HIDE DEF s, t
<1>4. May(i, j, t)
  BY <1>2, <1>3 DEF May, Begun, Accepted, Rejected
<1> QED BY <1>4 DEF t

\* Without an evaluation, or with the part of it that changes the state of the FSM.
LEMMA AdvanceLived ==
    ASSUME IInv, NEW i \in Instance, NEW w, Advance(Held(i), w, i)
    PROVE  Lived(i, w)
<1>1. Held(i).modes = modes[i]
  BY HeldHandled
<1> QED BY <1>1 DEF Advance, Lived, May, Seen, Lost

\* What i holds is sound, and opens no transition.
LEMMA HeldOpened ==
    ASSUME IInv, NEW i \in Instance
    PROVE  Held(i) \in Sound(UserSync, i) /\ Held(i).modes = modes[i] /\ Opened(i, Held(i))
<1>1. Handled(i, Held(i)) /\ Held(i).modes = modes[i]
  BY HeldHandled
<1> QED BY <1>1 DEF Handled, Opened, Seen

-----------------------------------------------------------------------------
(* The steps of InstanceLife. *)

\* The rows of the refinement mapping.
LEMMA Mapping ==
    ASSUME IInv, NEW i \in Instance, NEW j \in Instance
    PROVE  /\ [k \in Instance |-> modes[k][k].states][i][j] = Seen(i, j)
           /\ [k \in Instance |-> modes[k][k].states]'[i][j] = Seen(i, j)'
           /\ [k \in Instance |-> [l \in Instance |-> answer[k][l].code]][i][j] = answer[i][j].code
           /\ j \in [k \in Instance |-> {l \in Instance : ~Ticks(k, l)}][i] <=> ~Ticks(i, j)
           /\ j \in [k \in Instance |-> {l \in Instance : heard[k][l] < 2}][i] <=> heard[i][j] < 2
BY DEF Seen

\* What an instance may become is a transition of InstanceLife.
LEMMA MayFollows ==
    ASSUME IInv, NEW i \in Instance, NEW j \in Instance, May(i, j, Seen(i, j)')
    PROVE  Life!Follows(i, j)
<1> DEFINE S == [k \in Instance |-> modes[k][k].states]
           A == [k \in Instance |-> [l \in Instance |-> answer[k][l].code]]
           D == [k \in Instance |-> {l \in Instance : ~Ticks(k, l)}]
           R == [k \in Instance |-> {l \in Instance : heard[k][l] < 2}]
<1>1. /\ S[i][j] = Seen(i, j) /\ S'[i][j] = Seen(i, j)' /\ A[i][j] = answer[i][j].code
      /\ j \in D[i] <=> ~Ticks(i, j)
      /\ j \in R[i] <=> heard[i][j] < 2
  BY Mapping
<1>2. CASE Seen(i, j)' = Seen(i, j)
  BY <1>1, <1>2 DEF Life!Follows
<1>3. CASE Begun(i, j, Seen(i, j)')
  <2>1. Life!Discovers(i, j)
    BY <1>1, <1>3 DEF Begun, Life!Discovers
  <2> QED BY <2>1 DEF Life!Follows
<1>4. CASE Accepted(i, j, Seen(i, j)')
  <2>1. Life!Accepts(i, j)
    BY <1>1, <1>4 DEF Accepted, Life!Accepts
  <2> QED BY <2>1 DEF Life!Follows
<1>5. CASE Rejected(i, j, Seen(i, j)')
  <2>1. Life!Rejects(i, j)
    BY <1>1, <1>5 DEF Rejected, Life!Rejects
  <2> QED BY <2>1 DEF Life!Follows
<1>6. CASE Seen(i, j) = "CHECKED" /\ Seen(i, j)' = "RUNNING"
  <2>1. Life!Joins(i, j)
    BY <1>1, <1>6 DEF Life!Joins
  <2> QED BY <2>1 DEF Life!Follows
<1>7. CASE Reported(i, j, Seen(i, j)')
  <2>1. Life!Fails(i, j)
    BY <1>1, <1>7 DEF Reported, Life!Fails
  <2> QED BY <2>1 DEF Life!Follows
<1>8. CASE Missing(i, j) /\ Seen(i, j)' \in Lost(i, j)
  <2>1. Life!Vanishes(i, j)
    BY <1>1, <1>8 DEF Missing, Lost, Life!Vanishes, Life!Gone
  <2> QED BY <2>1 DEF Life!Follows
<1>9. CASE Seen(i, j) = "FAILED" /\ Seen(i, j)' \in Lost(i, j)
  <2>1. Life!Leaves(i, j)
    BY <1>1, <1>9 DEF Lost, Life!Leaves, Life!Gone
  <2> QED BY <2>1 DEF Life!Follows
<1> QED BY <1>2, <1>3, <1>4, <1>5, <1>6, <1>7, <1>8, <1>9 DEF May

\* A step where the row of a single instance changes.
RowStep(i) ==
    \A k \in Instance \ {i} :
        up'[k] = up[k] /\ [l \in Instance |-> modes[l][l].states]'[k] = [l \in Instance |-> modes[l][l].states][k]

\* A handler of i that commits w.
LEMMA CommitLives ==
    ASSUME IInv, NEW i \in Instance, up[i], UNCHANGED up,
           NEW w, Lived(i, w), NEW ob, NEW ans, Commit(i, ob, ans, w)
    PROVE  Life!Next
<1>1. modes'[i] = w.modes /\ \A k \in Instance \ {i} : modes'[k] = modes[k]
  BY DEF Commit, IInv, DeclaredOK
<1>2. \A j \in Instance : Life!Follows(i, j)
  BY <1>1, MayFollows DEF Lived, Seen
<1>3. Life!Handles(i)
  BY <1>2 DEF Life!Handles
<1>4. RowStep(i)
  BY <1>1 DEF RowStep
<1> QED BY <1>3, <1>4 DEF RowStep, Life!Next

-----------------------------------------------------------------------------
(* The handlers of the main thread. *)

\* A handshake starts with an instance that is STOPPED and whose TICKs come.
LEMMA StartHandshakeStates ==
    ASSUME IInv, NEW i \in Instance, NEW j \in Instance
    PROVE  /\ Handled(i, StartHandshake(Held(i), i, j))
           /\ \A k \in Instance :
                 LET t == StartHandshake(Held(i), i, j).modes[i].states[k]
                 IN  t = Seen(i, k) \/ (k = j /\ Seen(i, k) = "STOPPED" /\ t = "CHECKING")
<1> DEFINE v == StartHandshake(Held(i), i, j)
<1>1. Held(i) \in Sound(UserSync, i) /\ Held(i).modes = modes[i]
  BY HeldOpened
<1>2. Handled(i, v)
  BY StartHandshakeHandled
<1>3. CASE Seen(i, j) # "STOPPED"
  <2>1. v = Held(i)
    BY <1>1, <1>3 DEF StartHandshake, Seen
  <2> QED BY <1>1, <1>2, <2>1 DEF Seen
<1>4. CASE Seen(i, j) = "STOPPED"
  <2>1. j = i => Held(i).modes[i].state = "OFF"
    BY <1>1, <1>4 DEF Sound, LocalAlive, Seen
  <2>2. v = UpdateInstanceState(Held(i), i, j, "CHECKING")
    BY <1>1, <1>4 DEF StartHandshake, Seen
  <2> HIDE DEF v
  <2>3. "CHECKING" \in InstanceStates
    BY DEF InstanceStates
  <2>4. v.modes[i].states = [Held(i).modes[i].states EXCEPT ![j] = "CHECKING"]
    BY <1>1, <2>1, <2>2, <2>3, UpdateInstanceStateSound, UserSyncBoolean
  <2>5. modes[i][i].states \in [Instance -> InstanceStates]
    BY DEF IInv, DeclaredOK, Declared, StateModesRecord
  <2> QED BY <1>1, <1>2, <1>4, <2>4, <2>5 DEF Seen, v
<1> QED BY <1>3, <1>4

\* The timer: the local handshake, and the instances found inactive.
LEMMA OnTickLives ==
    ASSUME IInv, NEW i \in Instance, NEW S \in SUBSET Instance,
           NEW p, NEW work, Parameters(p, work), OnTick(i, S, p, work)
    PROVE  Life!Next
<1> DEFINE v0 == StartHandshake(Held(i), i, i)
           v  == Swept(i, S)
<1>1. S \in SUBSET Inactive(i) /\ up[i]
  BY DEF OnTick, Ready
<1>2. v \in Sound(UserSync, i)
  BY <1>1, SweptHandled DEF Handled
<1>3. v.modes[i].states = [k \in Instance |-> IF k \in S THEN "FAILED" ELSE v0.modes[i].states[k]]
  BY <1>1, SweptFrame
<1>4. \A k \in Instance :
         \/ v0.modes[i].states[k] = Seen(i, k)
         \/ k = i /\ Seen(i, k) = "STOPPED" /\ v0.modes[i].states[k] = "CHECKING"
  BY StartHandshakeStates
<1>5. \A k \in S : Missing(i, k)
  BY <1>1 DEF Inactive, Active, ActiveStates, Missing
<1> HIDE DEF v0, v
<1>6. Opened(i, v)
  BY <1>3, <1>4, <1>5 DEF Opened, Begun
<1>7. Lived(i, FsmNext(v, i, p, work))
  BY <1>2, <1>6, FsmNextLived
<1>8. /\ Commit(i, outbox, answer, Ticked(i, S, p, work)) /\ UNCHANGED up
      /\ Ticked(i, S, p, work) = FsmNext(v, i, p, work)
  BY DEF OnTick, faultVars, Ticked, Swept, v
<1> QED BY <1>1, <1>7, <1>8, CommitLives

\* A TICK of a remote instance.
LEMMA OnRemoteTickLives ==
    ASSUME IInv, NEW i \in Instance, NEW j \in Instance, OnRemoteTick(i, j)
    PROVE  Life!Next
<1> DEFINE v == StartHandshake(Held(i), i, j)
<1>1. up[i] /\ Ticks(i, j) /\ Commit(i, outbox, answer, v) /\ UNCHANGED up
  BY DEF OnRemoteTick, Ready
<1>2. \A k \in Instance :
         \/ v.modes[i].states[k] = Seen(i, k)
         \/ k = j /\ Seen(i, k) = "STOPPED" /\ v.modes[i].states[k] = "CHECKING"
  BY StartHandshakeStates
<1> HIDE DEF v
<1>3. Lived(i, v)
  BY <1>1, <1>2 DEF Lived, May, Begun
<1> QED BY <1>1, <1>3, CommitLives

\* What is received changes no instance state but through the evaluation.
LEMMA OnStateEventLived ==
    ASSUME IInv, NEW i \in Instance, NEW j \in Instance, NEW m \in Declared(UserSync),
           NEW p, NEW work, Parameters(p, work)
    PROVE  Lived(i, OnStateEvent(i, j, m, p, work))
<1> DEFINE v == OnInstanceStateEvent(Held(i), i, j, m)
<1>1. Held(i) \in Sound(UserSync, i) /\ Held(i).modes = modes[i]
  BY HeldOpened
<1>2. v \in Sound(UserSync, i) /\ v.modes[i] = Held(i).modes[i]
  BY <1>1, OnInstanceStateEventSound, UserSyncBoolean
<1> HIDE DEF v
<1>3. Opened(i, v) /\ Lived(i, v) /\ Lived(i, Held(i))
  BY <1>1, <1>2 DEF Opened, Lived, May, Seen
<1>4. Lived(i, FsmNext(v, i, p, work))
  BY <1>2, <1>3, FsmNextLived
<1> QED BY <1>3, <1>4 DEF OnStateEvent, v

\* The state and modes got in a handshake.
LEMMA OnHandshakeStateLives ==
    ASSUME IInv, NEW i \in Instance, NEW j \in Instance, NEW p, NEW work, Parameters(p, work),
           OnHandshakeState(i, j, p, work)
    PROVE  Life!Next
<1>1. answer[i][j].modes \in Declared(UserSync)
  BY DEF IInv, DeclaredOK, DeclaredAnswers
<1>2. /\ up[i] /\ UNCHANGED up
      /\ \E ans : Commit(i, outbox, ans, OnStateEvent(i, j, answer[i][j].modes, p, work))
  BY DEF OnHandshakeState, faultVars
<1> QED BY <1>1, <1>2, OnStateEventLived, CommitLives

\* The publications of a remote instance.
LEMMA PublishLives ==
    ASSUME IInv, NEW i \in Instance, NEW j \in Instance, NEW p, NEW work, Parameters(p, work),
           Publish(i, j, p, work)
    PROVE  Life!Next
<1>1. outbox[i][j] \in Seq(Declared(UserSync)) /\ outbox[i][j] # << >>
  BY DEF IInv, DeclaredOK, Publish
<1>2. Head(outbox[i][j]) \in Declared(UserSync)
  BY <1>1, HeadTailProperties
<1>3. /\ up[j] /\ UNCHANGED up
      /\ \E ob : Commit(j, ob, answer, OnStateEvent(j, i, Head(outbox[i][j]), p, work))
  BY DEF Publish, Reachable, faultVars
<1> QED BY <1>2, <1>3, OnStateEventLived, CommitLives

\* The authorization of the handshake in progress.
LEMMA OnAuthorizationLives ==
    ASSUME IInv, NEW i \in Instance, NEW j \in Instance, NEW p, NEW work, Parameters(p, work),
           OnAuthorization(i, j, p, work)
    PROVE  Life!Next
<1> DEFINE code == answer[i][j].code
           to   == CASE code = "NOT_AUTHORIZED" -> InvalidState(Held(i), i, j, TRUE)
                     [] code = "UNKNOWN"        -> "STOPPED"
                     [] code = "AUTHORIZED"     -> "CHECKED"
           v    == UpdateInstanceState(Held(i), i, j, to)
           x    == IF i = j /\ to = "CHECKED" THEN UpdateInstanceState(v, i, i, "RUNNING") ELSE v
           t    == IF i = j /\ to = "CHECKED" THEN "RUNNING" ELSE to
<1>1. /\ code \in {"UNKNOWN", "NOT_AUTHORIZED", "AUTHORIZED"}
      /\ up[i] /\ UNCHANGED up /\ Commit(i, outbox, answer, FsmNext(x, i, p, work))
  BY DEF OnAuthorization, faultVars
<1>2. Seen(i, j) = "CHECKING"
  BY <1>1 DEF IInv, AnswersCurrent
<1>3. Held(i) \in Sound(UserSync, i) /\ Held(i).modes = modes[i]
  BY HeldOpened
<1>4. j = i => Held(i).modes[i].state = "OFF"
  BY <1>2, <1>3 DEF IInv, LocalRunning, Fsm
<1>5. to \in InstanceStates /\ "RUNNING" \in InstanceStates
  BY <1>1 DEF InvalidState, InstanceStates
<1>6. Accepted(i, j, t) \/ Rejected(i, j, t)
  BY <1>1, <1>2 DEF Accepted, Rejected, InvalidState
<1>7. modes[i][i].states \in [Instance -> InstanceStates]
  BY DEF IInv, DeclaredOK, Declared, StateModesRecord
<1> HIDE DEF to, v
<1>8. /\ v \in Sound(UserSync, i) /\ v.modes[i].state = Held(i).modes[i].state
      /\ v.modes[i].states = [modes[i][i].states EXCEPT ![j] = to]
  BY <1>3, <1>4, <1>5, UpdateInstanceStateSound, UserSyncBoolean DEF v
<1>9. LET y == UpdateInstanceState(v, i, i, "RUNNING")
      IN  y \in Sound(UserSync, i) /\ y.modes[i].states = [v.modes[i].states EXCEPT ![i] = "RUNNING"]
  BY <1>5, <1>8, UpdateInstanceStateSound, UserSyncBoolean
<1>10. x \in Sound(UserSync, i) /\ x.modes[i].states = [modes[i][i].states EXCEPT ![j] = t]
  BY <1>5, <1>7, <1>8, <1>9
<1> HIDE DEF x, t, code
<1>11. Opened(i, x)
  BY <1>6, <1>7, <1>10 DEF Opened, Seen
<1>12. Lived(i, FsmNext(x, i, p, work))
  BY <1>10, <1>11, FsmNextLived
<1> QED BY <1>1, <1>12, CommitLives

\* A failure is not followed by an evaluation.
LEMMA OnInstanceFailureLives ==
    ASSUME IInv, NEW i \in Instance, NEW j \in Instance, OnInstanceFailure(i, j)
    PROVE  Life!Next
<1> DEFINE v == UpdateInstanceState(Held(i), i, j, "FAILED")
<1>1. /\ j \in failing[i] /\ i # j /\ up[i] /\ UNCHANGED up
      /\ Commit(i, outbox, answer, IF Seen(i, j) \in Failable THEN v ELSE Held(i))
  BY DEF OnInstanceFailure, IInv, LocalReachable, faultVars
<1>2. Held(i) \in Sound(UserSync, i) /\ Held(i).modes = modes[i]
  BY HeldOpened
<1>3. modes[i][i].states \in [Instance -> InstanceStates] /\ "FAILED" \in InstanceStates
  BY DEF IInv, DeclaredOK, Declared, StateModesRecord, InstanceStates
<1>4. v.modes[i].states = [modes[i][i].states EXCEPT ![j] = "FAILED"]
  BY <1>1, <1>2, <1>3, UpdateInstanceStateSound, UserSyncBoolean
<1> HIDE DEF v
<1>5. Seen(i, j) \in Failable => Lived(i, v)
  BY <1>1, <1>3, <1>4 DEF Lived, May, Reported, Failable, Seen
<1>6. Lived(i, Held(i))
  BY AdvanceReflexive, AdvanceLived
<1> QED BY <1>1, <1>5, <1>6, CommitLives

\* The user ends the synchronization.
LEMMA EndSyncLives ==
    ASSUME IInv, NEW i \in Instance, NEW m \in Instance \cup {NoMaster},
           NEW p, NEW work, Parameters(p, work), EndSync(i, m, p, work)
    PROVE  Life!Next
<1> DEFINE v == IF m = NoMaster THEN SelectMaster(Held(i), i) ELSE SetMaster(Held(i), i, m)
<1>1. Held(i) \in Sound(UserSync, i) /\ Held(i).modes = modes[i]
  BY HeldOpened
<1>2. UserSync /\ Held(i).modes[i].states[i] = "RUNNING"
  BY <1>1 DEF EndSync, UserSync, IInv, LocalRunning, Seen
<1>3. v \in Sound(UserSync, i) /\ SameStates(Held(i), v, i)
  <2>1. CASE m = NoMaster
    BY <1>1, <1>2, <2>1, SelectMasterSound, UserSyncBoolean
  <2>2. CASE m # NoMaster
    BY <1>1, <1>2, <2>2, SetMasterSound, UserSyncBoolean
  <2> QED BY <2>1, <2>2
<1>4. up[i] /\ UNCHANGED up /\ Commit(i, outbox, answer, FsmNext(v, i, p, work))
  BY DEF EndSync, Ready, faultVars
<1> HIDE DEF v
<1>5. Opened(i, v)
  BY <1>1, <1>3 DEF Opened, SameStates, Seen
<1>6. Lived(i, FsmNext(v, i, p, work))
  BY <1>3, <1>5, FsmNextLived
<1> QED BY <1>4, <1>6, CommitLives

\* A request to restart or to shut down.
LEMMA OnEndRequestLives ==
    ASSUME IInv, NEW i \in Instance, NEW s \in EndRequests,
           NEW p, NEW work, Parameters(p, work), OnEndRequest(i, s, p, work)
    PROVE  Life!Next
<1> DEFINE r == Suggest(Held(i), s)
<1>1. Held(i) \in Sound(UserSync, i) /\ Held(i).modes = modes[i]
  BY HeldOpened
<1>2. s \in FsmStates \cup {"NONE"} /\ s # "SYNCHRONIZATION"
  BY BoundsAssumption DEF FsmStates
<1>3. Fsm(i) # "OFF"
  BY <1>2 DEF OnEndRequest, Transitions
<1>4. Outcome(i, Held(i), r)
  BY <1>1, <1>2, <1>3, SuggestOutcome, AdvanceReflexive DEF IInv, LocalRunning, Seen
<1>5. up[i] /\ UNCHANGED up /\ Commit(i, outbox, answer, SetFsmState(r, i, p, work))
  BY DEF OnEndRequest, Ready, faultVars
<1> HIDE DEF r
<1>6. Lived(i, SetFsmState(r, i, p, work))
  BY <1>4, SetFsmStateSound, AdvanceLived
<1> QED BY <1>5, <1>6, CommitLives

\* The end of the jobs.
LEMMA JobsDoneLives ==
    ASSUME IInv, NEW i \in Instance, JobsDone(i)
    PROVE  Life!Next
<1>1. PICK job \in jobs[i] : Commit(i, outbox, answer, SetJobs(Held(i), i, jobs[i] \ {job}))
  BY DEF JobsDone
<1> DEFINE v == SetJobs(Held(i), i, jobs[i] \ {job})
<1>2. jobs[i] \ {job} \in SUBSET {"start", "stop"}
  BY DEF IInv, DeclaredOK
<1>3. v.modes = Held(i).modes
  BY <1>2, HeldOpened, SetJobsSound, UserSyncBoolean
<1> HIDE DEF v
<1>4. Lived(i, v)
  BY <1>3, SameModes, AdvanceLived
<1> QED BY <1>1, <1>4, CommitLives DEF v, JobsDone, faultVars

-----------------------------------------------------------------------------
(* The environment. *)

\* A new life starts with the local handshake.
LEMMA StartLives ==
    ASSUME IInv, NEW i \in Instance, Start(i)
    PROVE  Life!Next
<1> DEFINE S == [k \in Instance |-> modes[k][k].states]
<1>1. modes[i][i] = FreshModes
  BY DEF Start, IInv, DownIsFresh, FreshView
<1>2. modes' = [modes EXCEPT ![i] = [modes[i] EXCEPT ![i] = [FreshModes EXCEPT !.states[i] = "CHECKING"]]]
  BY <1>1 DEF Start, IInv, DeclaredOK
<1>3. /\ modes'[i][i] = [FreshModes EXCEPT !.states[i] = "CHECKING"]
      /\ \A k \in Instance \ {i} : modes'[k] = modes[k]
  BY <1>2 DEF IInv, DeclaredOK
<1>4. /\ modes'[i][i].states = [FreshModes.states EXCEPT ![i] = "CHECKING"]
      /\ \A j \in Instance : FreshModes.states[j] = "STOPPED"
      /\ FreshModes.states \in [Instance -> InstanceStates]
  BY <1>3 DEF FreshModes, InstanceStates
<1>5. /\ \A k \in Instance \ {i} : up'[k] = up[k]
      /\ ~up[i] /\ up'[i]
  BY DEF Start, IInv, DeclaredOK
<1>6. /\ S[i][i] = "STOPPED" /\ S'[i][i] = "CHECKING"
      /\ \A j \in Instance \ {i} : S'[i][j] = S[i][j]
      /\ \A k \in Instance \ {i} : S'[k] = S[k]
  BY <1>1, <1>3, <1>4
<1>7. Life!Discovers(i, i)
  BY <1>6 DEF Life!Discovers
<1>8. Life!Begins(i)
  BY <1>5, <1>6, <1>7 DEF Life!Begins
<1> QED BY <1>5, <1>6, <1>8 DEF Life!Next

\* An instance that stops knows nothing anymore.
LEMMA StopLives ==
    ASSUME IInv, NEW i \in Instance, up[i], Stop(i)
    PROVE  Life!Next
<1> DEFINE S == [k \in Instance |-> modes[k][k].states]
<1>1. /\ modes'[i] = FreshView.modes /\ ~up'[i]
      /\ \A k \in Instance \ {i} : modes'[k] = modes[k] /\ up'[k] = up[k]
  BY DEF Stop, IInv, DeclaredOK
<1>2. /\ \A j \in Instance : S'[i][j] = "STOPPED"
      /\ \A k \in Instance \ {i} : S'[k] = S[k]
  BY <1>1 DEF FreshView, FreshModes
<1>3. Life!Ends(i)
  BY <1>1, <1>2 DEF Life!Ends, Life!Unknown
<1> QED BY <1>1, <1>2, <1>3 DEF Life!Next

-----------------------------------------------------------------------------
(* The specification. *)

\* The steps that change neither the views nor who runs.
LEMMA SameLives ==
    ASSUME UNCHANGED <<modes, up>>
    PROVE  UNCHANGED <<up, [i \in Instance |-> modes[i][i].states]>>
OBVIOUS

\* The events of the main thread and the proxies of i, one by one.
LEMMA HandleLives ==
    ASSUME IInv, NEW i \in Instance, Handle(i)
    PROVE  Life!Next \/ UNCHANGED <<modes, up>>
<1>1. ASSUME NEW p \in Preferred, NEW work \in Works
      PROVE  Parameters(p, work)
  BY BoundsAssumption DEF Parameters
<1>2. ASSUME NEW p \in Preferred, NEW work \in Works,
             \/ \E S \in SUBSET Instance : OnTick(i, S, p, work)
             \/ \E j \in Instance : OnHandshakeState(i, j, p, work) \/ OnAuthorization(i, j, p, work)
             \/ \E m \in Instance \cup {NoMaster} : EndSync(i, m, p, work)
             \/ \E s \in EndRequests : OnEndRequest(i, s, p, work)
             \/ \E j \in Instance : Publish(i, j, p, work)
      PROVE  Life!Next
  BY <1>1, <1>2, OnTickLives, OnHandshakeStateLives, OnAuthorizationLives, EndSyncLives,
     OnEndRequestLives, PublishLives
<1>3. ASSUME NEW j \in Instance, OnRemoteTick(i, j) \/ OnInstanceFailure(i, j)
      PROVE  Life!Next
  BY <1>3, OnRemoteTickLives, OnInstanceFailureLives
<1>4. ASSUME NEW j \in Instance, SendFailure(i, j) \/ \E code \in Codes : CheckInstance(i, j, code)
      PROVE  UNCHANGED <<modes, up>>
  BY <1>4 DEF SendFailure, CheckInstance, viewVars, faultVars
<1>5. JobsDone(i) => Life!Next
  BY JobsDoneLives
<1>6. Elapse(i) => UNCHANGED <<modes, up>>
  BY DEF Elapse, faultVars
<1> QED BY <1>2, <1>3, <1>4, <1>5, <1>6 DEF Handle

\* Every step is one of InstanceLife, or changes nothing of it.
LEMMA NextLives ==
    IInv /\ [Next]_vars => [Life!Next]_<<up, [i \in Instance |-> modes[i][i].states]>>
<1> SUFFICES ASSUME IInv, [Next]_vars
             PROVE  [Life!Next]_<<up, [i \in Instance |-> modes[i][i].states]>>
  OBVIOUS
<1>1. ASSUME NEW i \in Instance, Start(i) \/ Crash(i) \/ End(i)
      PROVE  Life!Next
  BY <1>1, StartLives, StopLives DEF Crash, End
<1>2. ASSUME \/ \E i, j \in Instance : Cut(i, j) \/ Heal(i, j)
             \/ ConflictAppears \/ ConflictEnds
      PROVE  UNCHANGED <<modes, up>>
  BY <1>2 DEF Cut, Heal, ConflictAppears, ConflictEnds, viewVars, faultVars
<1>3. UNCHANGED vars => UNCHANGED <<modes, up>>
  BY DEF vars, viewVars, faultVars
<1>4. Life!Next \/ UNCHANGED <<modes, up>>
  BY <1>1, <1>2, <1>3, HandleLives DEF Next, Environment
<1> QED BY <1>4, SameLives

\* The state machine implements the life cycle of the instances: for any number of
\* instances, any options, faults and user requests, and any order of the TICKs, the
\* answers, the publications and the failures, every state of an instance is left by a
\* transition that instancestatus.py allows, and for the reason it is meant for.  An
\* instance only gets RUNNING by a handshake it has granted, and without auto_fence
\* none is isolated that has not isolated the local instance before.
THEOREM LifeCycleImplemented == Spec => LifeCycle
<1>1. Init => Life!Init
  <2> SUFFICES ASSUME Init PROVE Life!Init
    OBVIOUS
  <2>1. \A i, j \in Instance : [k \in Instance |-> modes[k][k].states][i][j] = "STOPPED"
    BY DEF Init, FreshView, FreshModes
  <2> QED BY <2>1 DEF Life!Init, Life!Unknown
<1>2. IInv /\ [Next]_vars => [Life!Next]_<<up, [i \in Instance |-> modes[i][i].states]>>
  BY NextLives
<1> QED BY <1>1, <1>2, Invariant, PTL DEF Spec, LifeCycle, Life!Spec
=============================================================================
