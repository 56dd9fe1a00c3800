---------------------------- MODULE ProcessProofs ----------------------------
(***************************************************************************)
(* Facts about the operations of a process status (module Process): they   *)
(* keep its type and the consistence of its synthesis, in whatever order   *)
(* the declarations of the Supervisors are received.                       *)
(***************************************************************************)
EXTENDS Process, TLAPS

(* The instances that declare the process running.                         *)
Declaring(p) == {i \in DOMAIN p.info : p.info[i].state \in RunningStates}

(* What each operation keeps. A process held as running where its program  *)
(* has been removed is left aside by the last part only.                   *)
Consistent(p) ==
  /\ Declaring(p) \subseteq p.running
  /\ \A i \in p.running \cap DOMAIN p.info :
       p.info[i].state \in RunningStates \cup {"STOPPING"}
  /\ Stopped(p) => p.running = {}
  /\ p.running \subseteq DOMAIN p.info => (IsRunning(p) <=> Declaring(p) # {})

(* The four families of states are disjoint.                               *)
LEMMA StatesSplit ==
  /\ StoppedStates \cap RunningStates = {}
  /\ "STOPPING" \notin StoppedStates \cup RunningStates
  /\ ProcessStates = StoppedStates \cup RunningStates \cup {"STOPPING"}
BY DEF StoppedStates, RunningStates, ProcessStates

(* What a Supervisor declares.                                             *)
LEMMA DeclarationFacts ==
  ASSUME NEW s \in ProcessStates, NEW e \in BOOLEAN, NEW d \in BOOLEAN, NEW t \in Nat
  PROVE  Declaration(s, e, d, t) \in Info
BY DEF Declaration, Info

(* A process of which nothing is known.                                    *)
LEMMA NewProcessFacts == IsProcessStatus(NewProcess) /\ Consistent(NewProcess)
BY NoStateAssumption DEF NewProcess, IsProcessStatus, Consistent, Declaring, Info, Stopped,
   IsRunning, StoppedStates, RunningStates, ProcessStates

(* Several running states give a running state.                            *)
LEMMA RunningStateFacts ==
  ASSUME NEW S \in SUBSET (RunningStates \cup {"STOPPING"}), S # {}
  PROVE  /\ RunningState(S) \in ProcessStates
         /\ RunningState(S) \notin StoppedStates
         /\ RunningState(S) \in RunningStates <=> S \cap RunningStates # {}
BY DEF RunningState, RunningStates, ProcessStates, StoppedStates

(* A declaration is recorded at its place.                                 *)
LEMMA SetInfoFacts ==
  ASSUME NEW p, IsProcessStatus(p), NEW i \in Supervisors, NEW d \in Info
  PROVE  LET q == SetInfo(p, i, d)
         IN  /\ IsProcessStatus(q)
             /\ DOMAIN q.info = DOMAIN p.info \cup {i}
             /\ q.info[i] = d
             /\ \A j \in DOMAIN p.info \ {i} : q.info[j] = p.info[j]
             /\ q.running = p.running /\ q.state = p.state
             /\ q.forced = p.forced /\ q.expected = p.expected
<1> DEFINE f == [j \in DOMAIN p.info \cup {i} |-> IF j = i THEN d ELSE p.info[j]]
<1>1. SetInfo(p, i, d) = [info |-> f, running |-> p.running, state |-> p.state,
                          expected |-> p.expected, forced |-> p.forced]
  BY DEF SetInfo, IsProcessStatus
<1>2. /\ f \in [DOMAIN p.info \cup {i} -> Info] /\ DOMAIN f = DOMAIN p.info \cup {i}
      /\ f[i] = d /\ \A j \in DOMAIN p.info \ {i} : f[j] = p.info[j]
  BY DEF IsProcessStatus
<1> HIDE DEF f
<1> QED  BY <1>1, <1>2 DEF IsProcessStatus

(* The instances where the process runs once a declaration is known.       *)
LEMMA UpdatedRunningFacts ==
  ASSUME NEW p, IsProcessStatus(p), NEW i \in DOMAIN p.info,
         Declaring(p) \ {i} \subseteq p.running,
         \A j \in (p.running \cap DOMAIN p.info) \ {i} :
           p.info[j].state \in RunningStates \cup {"STOPPING"},
         Stopped(p) => p.running = {}
  PROVE  LET R == UpdatedRunning(p, i, p.info[i].state)
         IN  /\ R \subseteq Supervisors
             /\ Declaring(p) \subseteq R
             /\ \A j \in R \cap DOMAIN p.info :
                  p.info[j].state \in RunningStates \cup {"STOPPING"}
             /\ ~(R \subseteq DOMAIN p.info) => ~Stopped(p)
<1> DEFINE s == p.info[i].state
<1>1. s \in ProcessStates /\ i \in Supervisors /\ p.running \subseteq Supervisors
  BY DEF IsProcessStatus, Info
<1>2. CASE s \in StoppedStates
  BY <1>1, <1>2, StatesSplit DEF UpdatedRunning, Declaring
<1>3. CASE s \in RunningStates
  <2>1. UpdatedRunning(p, i, s) = IF Stopped(p) THEN {i} ELSE p.running \cup {i}
    BY <1>3, StatesSplit DEF UpdatedRunning
  <2> QED  BY <1>1, <1>3, <2>1, StatesSplit DEF Declaring
<1>4. CASE s = "STOPPING"
  <2>1. UpdatedRunning(p, i, s) = p.running
    BY <1>4, StatesSplit DEF UpdatedRunning
  <2> QED  BY <1>1, <1>4, <2>1, StatesSplit DEF Declaring
<1> QED  BY <1>1, <1>2, <1>3, <1>4, StatesSplit

(* A declaration just recorded gives a consistent synthesis, provided the  *)
(* rest was consistent.                                                    *)
LEMMA UpdateStatusFacts ==
  ASSUME NEW p, IsProcessStatus(p), NEW i \in DOMAIN p.info,
         Declaring(p) \ {i} \subseteq p.running,
         \A j \in (p.running \cap DOMAIN p.info) \ {i} :
           p.info[j].state \in RunningStates \cup {"STOPPING"},
         Stopped(p) => p.running = {}
  PROVE  LET q == UpdateStatus(p, i)
         IN  IsProcessStatus(q) /\ Consistent(q) /\ q.info = p.info /\ q.forced = p.forced
<1> DEFINE R == UpdatedRunning(p, i, p.info[i].state)
           q == [p EXCEPT !.running = R]
           With(s, e) == [info |-> p.info, running |-> R, state |-> s,
                          expected |-> e, forced |-> p.forced]
<1>1. /\ R \subseteq Supervisors
      /\ Declaring(p) \subseteq R
      /\ \A j \in R \cap DOMAIN p.info :
           p.info[j].state \in RunningStates \cup {"STOPPING"}
      /\ ~(R \subseteq DOMAIN p.info) => ~Stopped(p)
  BY UpdatedRunningFacts
<1> HIDE DEF R
<1>2. q = With(p.state, p.expected)
  BY DEF IsProcessStatus
<1>3. /\ p.state \in ProcessStates /\ p.expected \in BOOLEAN
      /\ \A j \in DOMAIN p.info : p.info[j] \in Info
      /\ \A j \in DOMAIN p.info : p.info[j].state \in ProcessStates
                                    /\ p.info[j].expected \in BOOLEAN
  BY DEF IsProcessStatus, Info
<1>4. ASSUME NEW s \in ProcessStates, NEW e \in BOOLEAN
      PROVE  IsProcessStatus(With(s, e))
  BY <1>1 DEF IsProcessStatus
<1>5. ASSUME NEW s \in ProcessStates, NEW e \in BOOLEAN,
             s \in StoppedStates => R = {},
             R \subseteq DOMAIN p.info => (s \in RunningStates <=> Declaring(p) # {})
      PROVE  Consistent(With(s, e))
  BY <1>1, <1>5 DEF Consistent, Declaring, Stopped, IsRunning
<1>6. CASE ~(R \subseteq DOMAIN p.info)
  <2>1. UpdateStatus(p, i) = With(p.state, p.expected)
    BY <1>2, <1>6 DEF UpdateStatus, R
  <2> QED  BY <1>1, <1>3, <1>4, <1>5, <1>6, <2>1 DEF Stopped
<1>7. CASE R \subseteq DOMAIN p.info /\ IsConflicting(q)
  <2> DEFINE S == {p.info[j].state : j \in R}
  <2>1. PICK j, k \in R : j # k
    BY <1>7, <1>2 DEF IsConflicting
  <2>2. S # {} /\ S \subseteq RunningStates \cup {"STOPPING"}
    BY <1>1, <1>7, <2>1
  <2>3. S \cap RunningStates # {} <=> Declaring(p) # {}
    BY <1>1, <1>7 DEF Declaring
  <2>4. UpdateStatus(p, i) = [q EXCEPT !.state = RunningState(S)]
    BY <1>7 DEF UpdateStatus, R
  <2> HIDE DEF S
  <2>5. UpdateStatus(p, i) = With(RunningState(S), p.expected)
    BY <2>4, <1>2
  <2>6. /\ RunningState(S) \in ProcessStates /\ RunningState(S) \notin StoppedStates
        /\ RunningState(S) \in RunningStates <=> S \cap RunningStates # {}
    BY <2>2, RunningStateFacts
  <2> QED  BY <1>3, <1>4, <1>5, <2>3, <2>5, <2>6
<1>8. CASE R \subseteq DOMAIN p.info /\ ~IsConflicting(q) /\ R # {}
  <2> DEFINE j == CHOOSE k \in R : TRUE
  <2>1. j \in R
    BY <1>8
  <2>2. R = {j}
    BY <1>8, <2>1, <1>2 DEF IsConflicting
  <2>3. UpdateStatus(p, i) = [q EXCEPT !.state = p.info[j].state, !.expected = TRUE]
    BY <1>8 DEF UpdateStatus, R
  <2> HIDE DEF j
  <2>4. UpdateStatus(p, i) = With(p.info[j].state, TRUE)
    BY <2>3, <1>2
  <2>5. p.info[j].state \in RunningStates \cup {"STOPPING"} /\ p.info[j].state \in ProcessStates
    BY <1>1, <1>3, <1>8, <2>1
  <2>6. p.info[j].state \in RunningStates <=> Declaring(p) # {}
    BY <1>1, <1>8, <2>1, <2>2 DEF Declaring
  <2>7. p.info[j].state \notin StoppedStates
    BY <2>5, StatesSplit
  <2>8. IsProcessStatus(With(p.info[j].state, TRUE))
    BY <1>4, <2>5
  <2>9. Consistent(With(p.info[j].state, TRUE))
    BY <1>5, <2>5, <2>6, <2>7
  <2> QED  BY <2>4, <2>8, <2>9
<1>9. CASE R = {}
  <2>1. Declaring(p) = {} /\ ~IsConflicting(q)
    BY <1>1, <1>9, <1>2 DEF IsConflicting
  <2>2. CASE \E j \in DOMAIN p.info : p.info[j].state = "STOPPING"
    <3>1. UpdateStatus(p, i) = [q EXCEPT !.state = "STOPPING", !.expected = TRUE]
      BY <1>9, <2>1, <2>2 DEF UpdateStatus, R
    <3>2. UpdateStatus(p, i) = With("STOPPING", TRUE)
      BY <3>1, <1>2
    <3>3. IsProcessStatus(With("STOPPING", TRUE))
      BY <1>4, StatesSplit
    <3>4. Consistent(With("STOPPING", TRUE))
      BY <1>5, <1>9, <2>1, StatesSplit
    <3> QED  BY <3>2, <3>3, <3>4
  <2>3. CASE ~\E j \in DOMAIN p.info : p.info[j].state = "STOPPING"
    <3>1. UpdateStatus(p, i) = [q EXCEPT !.state = p.info[i].state,
                                         !.expected = p.info[i].expected]
      BY <1>9, <2>1, <2>3 DEF UpdateStatus, R
    <3>2. UpdateStatus(p, i) = With(p.info[i].state, p.info[i].expected)
      BY <3>1, <1>2
    <3>3. p.info[i].state \notin RunningStates
      BY <2>1 DEF Declaring
    <3> QED  BY <1>3, <1>4, <1>5, <1>9, <2>1, <3>2, <3>3
  <2> QED  BY <2>2, <2>3
<1> QED  BY <1>6, <1>7, <1>8, <1>9

-----------------------------------------------------------------------------
(* The operations.                                                         *)

Sound(p) == IsProcessStatus(p) /\ Consistent(p)

LEMMA UpdateInfoSound ==
  ASSUME NEW p, Sound(p), NEW i \in Supervisors, NEW d \in Info
  PROVE  /\ Sound(UpdateInfo(p, i, d))
         /\ UpdateInfo(p, i, d).info = SetInfo(p, i, d).info
<1> DEFINE q == SetInfo(p, i, d)
           r == [q EXCEPT !.forced = NoState]
<1>1. /\ IsProcessStatus(q)
      /\ DOMAIN q.info = DOMAIN p.info \cup {i}
      /\ \A j \in DOMAIN p.info \ {i} : q.info[j] = p.info[j]
      /\ q.running = p.running /\ q.state = p.state
  BY SetInfoFacts DEF Sound
<1> HIDE DEF q
<1>2. r = [info |-> q.info, running |-> p.running, state |-> p.state,
           expected |-> q.expected, forced |-> NoState]
  BY <1>1 DEF IsProcessStatus
<1> HIDE DEF r
<1>3. IsProcessStatus(r) /\ i \in DOMAIN r.info
  BY <1>1, <1>2 DEF IsProcessStatus
<1>4. /\ Declaring(r) \ {i} \subseteq r.running
      /\ \A j \in (r.running \cap DOMAIN r.info) \ {i} :
           r.info[j].state \in RunningStates \cup {"STOPPING"}
      /\ Stopped(r) => r.running = {}
  BY <1>1, <1>2 DEF Sound, Consistent, Declaring, Stopped
<1>5. UpdateInfo(p, i, d) = UpdateStatus(r, i)
  BY DEF UpdateInfo, q, r
<1>6. r.info = SetInfo(p, i, d).info
  BY <1>2 DEF q
<1> QED  BY <1>3, <1>4, <1>5, <1>6, UpdateStatusFacts DEF Sound

LEMMA AddInfoSound ==
  ASSUME NEW p, Sound(p), NEW i \in Supervisors, NEW d \in Info
  PROVE  /\ Sound(AddInfo(p, i, d))
         /\ AddInfo(p, i, d).info = SetInfo(p, i, d).info
<1> DEFINE q == SetInfo(p, i, d)
           k == IF d.state = "STOPPED" THEN p.forced ELSE NoState
           r == [q EXCEPT !.forced = k]
<1>1. /\ IsProcessStatus(q)
      /\ DOMAIN q.info = DOMAIN p.info \cup {i}
      /\ \A j \in DOMAIN p.info \ {i} : q.info[j] = p.info[j]
      /\ q.running = p.running /\ q.state = p.state
  BY SetInfoFacts DEF Sound
<1>2. k \in ProcessStates \cup {NoState}
  BY DEF Sound, IsProcessStatus
<1> HIDE DEF q, k
<1>3. r = [info |-> q.info, running |-> p.running, state |-> p.state,
           expected |-> q.expected, forced |-> k]
  BY <1>1 DEF IsProcessStatus
<1> HIDE DEF r
<1>4. IsProcessStatus(r) /\ i \in DOMAIN r.info
  BY <1>1, <1>2, <1>3 DEF IsProcessStatus
<1>5. /\ Declaring(r) \ {i} \subseteq r.running
      /\ \A j \in (r.running \cap DOMAIN r.info) \ {i} :
           r.info[j].state \in RunningStates \cup {"STOPPING"}
      /\ Stopped(r) => r.running = {}
  BY <1>1, <1>3 DEF Sound, Consistent, Declaring, Stopped
<1>6. AddInfo(p, i, d) = UpdateStatus(r, i)
  BY DEF AddInfo, q, k, r
<1>7. r.info = SetInfo(p, i, d).info
  BY <1>3 DEF q
<1> QED  BY <1>4, <1>5, <1>6, <1>7, UpdateStatusFacts DEF Sound

LEMMA ForceStateSound ==
  ASSUME NEW p, Sound(p), NEW i, NEW time, NEW s \in ProcessStates
  PROVE  Sound(ForceState(p, i, time, s))
<1> DEFINE q == [p EXCEPT !.forced = s]
<1>1. q = [info |-> p.info, running |-> p.running, state |-> p.state,
           expected |-> p.expected, forced |-> s]
  BY DEF Sound, IsProcessStatus
<1>2. IsProcessStatus(q)
  BY <1>1 DEF Sound, IsProcessStatus
<1>3. Consistent(q)
  BY <1>1 DEF Sound, Consistent, Declaring, Stopped, IsRunning
<1> QED  BY <1>2, <1>3 DEF ForceState, Sound

LEMMA InvalidateSound ==
  ASSUME NEW p, Sound(p), NEW i \in Supervisors, Knows(p, i), NEW time \in Nat
  PROVE  Sound(InvalidateIdentifier(p, i, time))
<1> DEFINE d == Declaration("FATAL", FALSE, p.info[i].disabled, time)
<1>1. d \in Info
  <2>1. p.info[i].disabled \in BOOLEAN /\ "FATAL" \in ProcessStates
    BY DEF Sound, IsProcessStatus, Info, Knows, ProcessStates, StoppedStates
  <2> QED  BY <2>1, DeclarationFacts
<1>2. Sound(UpdateInfo(p, i, d))
  BY <1>1, UpdateInfoSound
<1> QED  BY <1>2 DEF InvalidateIdentifier

LEMMA UpdateDisabilitySound ==
  ASSUME NEW p, Sound(p), NEW i \in Supervisors, NEW b \in BOOLEAN
  PROVE  Sound(UpdateDisability(p, i, b))
<1> SUFFICES ASSUME Knows(p, i)
             PROVE  Sound(UpdateDisability(p, i, b))
  BY DEF UpdateDisability
<1> DEFINE f == [p.info EXCEPT ![i].disabled = b]
<1>1. UpdateDisability(p, i, b) =
        [info |-> f, running |-> p.running, state |-> p.state,
         expected |-> p.expected, forced |-> p.forced]
  BY DEF UpdateDisability, Sound, IsProcessStatus
<1>2. /\ f \in [DOMAIN p.info -> Info] /\ DOMAIN f = DOMAIN p.info
      /\ \A j \in DOMAIN p.info : f[j].state = p.info[j].state
  BY DEF Sound, IsProcessStatus, Info, Knows
<1> HIDE DEF f
<1> QED
  BY <1>1, <1>2
  DEF Sound, IsProcessStatus, Consistent, Declaring, Stopped, IsRunning

LEMMA RemoveIdentifierSound ==
  ASSUME NEW p, Sound(p), NEW i \in Supervisors
  PROVE  Sound(RemoveIdentifier(p, i))
<1> DEFINE f == [j \in DOMAIN p.info \ {i} |-> p.info[j]]
<1>1. RemoveIdentifier(p, i) =
        [info |-> f, running |-> p.running, state |-> p.state,
         expected |-> p.expected, forced |-> p.forced]
  BY DEF RemoveIdentifier, Sound, IsProcessStatus
<1>2. /\ f \in [DOMAIN p.info \ {i} -> Info] /\ DOMAIN f = DOMAIN p.info \ {i}
      /\ \A j \in DOMAIN p.info \ {i} : f[j] = p.info[j]
  BY DEF Sound, IsProcessStatus
<1> HIDE DEF f
<1> QED
  BY <1>1, <1>2
  DEF Sound, IsProcessStatus, Consistent, Declaring, Stopped, IsRunning
=============================================================================
