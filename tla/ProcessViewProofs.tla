-------------------------- MODULE ProcessViewProofs --------------------------
(***************************************************************************)
(* Every view of a process is well typed, and its synthesis is the one of  *)
(* the declarations it is made from, for any number of Supervisors and of  *)
(* observers, any clock, and whatever happens (module ProcessView). Once   *)
(* its events are consumed, it tells what the Supervisor knows: nothing is *)
(* lost between the answer to the handshake and the events, provided that  *)
(* the proxy thread transfers the answer as soon as it gets it ("slow" is  *)
(* not a feature).                                                         *)
(***************************************************************************)
EXTENDS ProcessView, ProcessProofs, SequenceTheorems, TLAPS

Views == \A o \in Observers : Consistent(view[o])
Inv == TypeOK /\ Views

(* What a step does to one view.                                           *)
LEMMA UpdatedView ==
  ASSUME Inv, NEW o \in Observers, NEW q, Sound(q),
         view' = [view EXCEPT ![o] = q]
  PROVE  /\ DOMAIN view' = Observers /\ \A n \in Observers : IsProcessStatus(view'[n])
         /\ Views'
BY DEF Inv, TypeOK, Views, Sound

LEMMA SameView ==
  ASSUME Inv, view' = view
  PROVE  /\ DOMAIN view' = Observers /\ \A n \in Observers : IsProcessStatus(view'[n])
         /\ Views'
BY DEF Inv, TypeOK, Views

LEMMA SoundView ==
  ASSUME Inv, NEW o \in Observers
  PROVE  Sound(view[o])
BY DEF Inv, TypeOK, Views, Sound

(* An event only goes to the end of the channels.                          *)
LEMMA PublishFacts ==
  ASSUME TypeOK, NEW i \in Supervisors, NEW e \in Event, Publish(i, e)
  PROVE  /\ channel' \in [Observers -> [Supervisors -> Seq(Event)]]
         /\ missed' \in [Observers -> SUBSET Supervisors]
<1>1. \A o \in Observers : Append(channel[o][i], e) \in Seq(Event)
  BY DEF TypeOK
<1> QED  BY <1>1 DEF Publish, TypeOK

(* The operations are applied to the view of the observer.                 *)
LEMMA AppliedSound ==
  ASSUME NEW p, Sound(p), NEW i \in Supervisors, NEW e \in Event
  PROVE  Sound(Applied(p, i, e))
<1>1. e.declared \in Info /\ e.declared.disabled \in BOOLEAN
      /\ e.type \in {"state", "disability", "added", "removed"}
  BY DEF Event, Info
<1>2. CASE e.type = "added"
  BY <1>1, <1>2, AddInfoSound DEF Applied
<1>3. CASE e.type # "added" /\ ~Knows(p, i)
  BY <1>3 DEF Applied
<1>4. CASE Knows(p, i) /\ e.type = "state"
  BY <1>1, <1>4, UpdateInfoSound DEF Applied
<1>5. CASE Knows(p, i) /\ e.type = "disability"
  BY <1>1, <1>5, UpdateDisabilitySound DEF Applied
<1>6. CASE Knows(p, i) /\ e.type = "removed"
  BY <1>1, <1>6, RemoveIdentifierSound DEF Applied
<1> QED  BY <1>1, <1>2, <1>3, <1>4, <1>5, <1>6

(* A declaration is made of parts of the ones before it.                   *)
LEMMA RealFacts ==
  ASSUME TypeOK, NEW i \in Supervisors
  PROVE  /\ real[i] \in Info /\ real[i].state \in ProcessStates
         /\ real[i].expected \in BOOLEAN /\ real[i].disabled \in BOOLEAN
         /\ real[i].time + 1 \in Nat
BY DEF TypeOK, Info

LEMMA ShakeFacts ==
  ASSUME NEW ph \in Phases, NEW k \in BOOLEAN, NEW d \in Info
  PROVE  Shake(ph, k, d) \in Shakes
BY DEF Shake, Shakes

LEMMA AbsentFacts == Absent \in Shakes /\ Shake("asked", FALSE, Absent.declared) \in Shakes
<1>1. Declaration("UNKNOWN", TRUE, FALSE, 0) \in Info
  BY DeclarationFacts DEF ProcessStates, StoppedStates
<1>2. Absent.declared \in Info /\ "asked" \in Phases /\ "none" \in Phases
  BY <1>1 DEF Absent, Shake, Phases
<1> QED  BY <1>1, <1>2, ShakeFacts DEF Absent

LEMMA InitInv == Init => Inv
<1> SUFFICES ASSUME Init PROVE Inv
  OBVIOUS
<1>1. \A o \in Observers : IsProcessStatus(view[o]) /\ Consistent(view[o])
  BY NewProcessFacts DEF Init
<1>2. real \in [Supervisors -> Info]
  <2>1. [state: {"STOPPED", "STARTING", "RUNNING", "STOPPING"}, expected: {TRUE},
         disabled: {FALSE}, time: {0}] \subseteq Info
    <3>1. /\ {"STOPPED", "STARTING", "RUNNING", "STOPPING"} \subseteq ProcessStates
          /\ {TRUE} \subseteq BOOLEAN /\ {FALSE} \subseteq BOOLEAN /\ {0} \subseteq Nat
      BY DEF ProcessStates, StoppedStates, RunningStates
    <3> QED  BY <3>1 DEF Info
  <2> QED  BY <2>1 DEF Init
<1>4. shake \in [Observers -> [Supervisors -> Shakes]]
  BY AbsentFacts DEF Init
<1>5. sees \in [Supervisors -> SUBSET Observers]
  BY DEF Init
<1>6. /\ installed \subseteq Supervisors
      /\ link \in [Observers -> [Supervisors -> LinkStates]]
      /\ channel \in [Observers -> [Supervisors -> Seq(Event)]]
      /\ ignored \in [Observers -> SUBSET Supervisors]
      /\ DOMAIN view = Observers
      /\ orders \in [Observers -> Seq(Order)]
      /\ missed \in [Observers -> SUBSET Supervisors]
  BY DEF Init, LinkStates
<1>7. forces \in 0..MaxForced
  BY ViewAssumption DEF Init
<1> QED  BY <1>1, <1>2, <1>4, <1>5, <1>6, <1>7 DEF Inv, TypeOK, Views

-----------------------------------------------------------------------------
(* The life of the process.                                                *)

LEMMA DeclareInv ==
  ASSUME Inv, NEW i \in Supervisors, NEW d \in Info,
         NEW t \in {"state", "disability", "added", "removed"}, Declare(i, d, t)
  PROVE  Inv'
<1>1. [type |-> t, declared |-> d] \in Event
  BY DEF Event
<1>2. /\ channel' \in [Observers -> [Supervisors -> Seq(Event)]]
      /\ missed' \in [Observers -> SUBSET Supervisors]
  BY <1>1, PublishFacts DEF Inv, Declare
<1>3. real' \in [Supervisors -> Info]
  BY DEF Inv, TypeOK, Declare
<1>4. /\ DOMAIN view' = Observers /\ \A n \in Observers : IsProcessStatus(view'[n])
      /\ Views'
  BY SameView DEF Declare
<1> QED  BY <1>2, <1>3, <1>4 DEF Inv, TypeOK, Declare

LEMMA SuccessorsFacts ==
  ASSUME NEW s \in ProcessStates
  PROVE  Successors(s) \subseteq ProcessStates
<1>1. CASE s \in {"STOPPED", "EXITED", "FATAL"}
  BY <1>1 DEF Successors, ProcessStates, StoppedStates, RunningStates
<1>2. CASE s \in {"STARTING", "BACKOFF", "RUNNING", "STOPPING"}
  BY <1>2 DEF Successors, ProcessStates, StoppedStates, RunningStates
<1>3. CASE s = "UNKNOWN"
  BY <1>3 DEF Successors
<1> QED  BY <1>1, <1>2, <1>3 DEF ProcessStates, StoppedStates, RunningStates

LEMMA EvolveInv ==
  ASSUME Inv, NEW i \in Supervisors, Evolve(i)
  PROVE  Inv'
<1>1. PICK s \in Successors(real[i].state), e \in BOOLEAN :
        Declare(i, Declaration(s, e, real[i].disabled, real[i].time + 1), "state")
  BY DEF Evolve
<1>2. Declaration(s, e, real[i].disabled, real[i].time + 1) \in Info
  BY RealFacts, SuccessorsFacts, DeclarationFacts DEF Inv
<1> QED  BY <1>1, <1>2, DeclareInv

LEMMA ToggleInv ==
  ASSUME Inv, NEW i \in Supervisors, Toggle(i)
  PROVE  Inv'
<1>1. PICK d \in BOOLEAN :
        Declare(i, Declaration(real[i].state, real[i].expected, d, real[i].time + 1),
                "disability")
  BY DEF Toggle
<1>2. Declaration(real[i].state, real[i].expected, d, real[i].time + 1) \in Info
  BY RealFacts, DeclarationFacts DEF Inv
<1> QED  BY <1>1, <1>2, DeclareInv

LEMMA InstallationInv ==
  ASSUME Inv, NEW i \in Supervisors, Uninstall(i) \/ Install(i)
  PROVE  Inv'
<1>1. real[i] \in Info
  BY DEF Inv, TypeOK
<1>2. /\ DOMAIN view' = Observers /\ \A n \in Observers : IsProcessStatus(view'[n])
      /\ Views'
  BY SameView DEF Uninstall, Install
<1>3. CASE Uninstall(i)
  <2>1. [type |-> "removed", declared |-> real[i]] \in Event
    BY <1>1 DEF Event
  <2>2. /\ channel' \in [Observers -> [Supervisors -> Seq(Event)]]
        /\ missed' \in [Observers -> SUBSET Supervisors]
    BY <1>3, <2>1, PublishFacts DEF Inv, Uninstall
  <2>3. installed' \subseteq Supervisors
    BY <1>3 DEF Uninstall, Inv, TypeOK
  <2> QED  BY <1>2, <1>3, <2>2, <2>3 DEF Inv, TypeOK, Uninstall
<1>4. CASE Install(i)
  <2> DEFINE d == Declaration("STOPPED", TRUE, FALSE, real[i].time + 1)
  <2>1. d \in Info
    BY RealFacts, DeclarationFacts DEF Inv, ProcessStates, StoppedStates
  <2>2. [type |-> "added", declared |-> d] \in Event
    BY <2>1 DEF Event
  <2>3. /\ channel' \in [Observers -> [Supervisors -> Seq(Event)]]
        /\ missed' \in [Observers -> SUBSET Supervisors]
    BY <1>4, <2>2, PublishFacts DEF Inv, Install
  <2>4. real' = [real EXCEPT ![i] = d]
    BY <1>4 DEF Install
  <2> HIDE DEF d
  <2>5. real' \in [Supervisors -> Info] /\ installed' \subseteq Supervisors
    BY <1>4, <2>1, <2>4 DEF Install, Inv, TypeOK
  <2> QED  BY <1>2, <1>4, <2>3, <2>5 DEF Inv, TypeOK, Install
<1> QED  BY <1>3, <1>4

LEMMA RestartInv ==
  ASSUME Inv, NEW i \in Supervisors, Restart(i)
  PROVE  Inv'
<1>1. Declaration("STOPPED", TRUE, real[i].disabled, real[i].time + 1) \in Info
  BY RealFacts, DeclarationFacts DEF Inv, ProcessStates, StoppedStates
<1>4. real' \in [Supervisors -> Info]
  BY <1>1 DEF Restart, Inv, TypeOK
<1>5. /\ DOMAIN view' = Observers /\ \A n \in Observers : IsProcessStatus(view'[n])
      /\ Views'
  BY SameView DEF Restart
<1> QED  BY <1>4, <1>5 DEF Inv, TypeOK, Restart

LEMMA SeeInv ==
  ASSUME Inv, NEW i \in Supervisors, See(i)
  PROVE  Inv'
<1>1. /\ DOMAIN view' = Observers /\ \A n \in Observers : IsProcessStatus(view'[n])
      /\ Views'
  BY SameView DEF See
<1>2. sees' \in [Supervisors -> SUBSET Observers]
  BY DEF See, Inv, TypeOK
<1> QED  BY <1>1, <1>2 DEF Inv, TypeOK, See

-----------------------------------------------------------------------------
(* The handshake.                                                          *)

LEMMA CheckInv ==
  ASSUME Inv, NEW o \in Observers, NEW i \in Supervisors, Check(o, i)
  PROVE  Inv'
<1>1. /\ DOMAIN view' = Observers /\ \A n \in Observers : IsProcessStatus(view'[n])
      /\ Views'
  BY SameView DEF Check
<1>2. shake' \in [Observers -> [Supervisors -> Shakes]]
  BY AbsentFacts DEF Check, Inv, TypeOK
<1>3. link' \in [Observers -> [Supervisors -> LinkStates]]
  BY DEF Check, Inv, TypeOK, LinkStates
<1>4. ignored' \in [Observers -> SUBSET Supervisors]
  BY DEF Check, Inv, TypeOK
<1> QED  BY <1>1, <1>2, <1>3, <1>4 DEF Inv, TypeOK, Check

LEMMA AnswerInv ==
  ASSUME Inv, NEW o \in Observers, NEW i \in Supervisors, Answer(o, i)
  PROVE  Inv'
<1> DEFINE d == Declaration(real[i].state, real[i].expected, real[i].disabled, real[i].time + 1)
           ph == IF "slow" \in Features THEN "taken" ELSE "answered"
           s == Shake(ph, i \in installed, d)
<1>1. d \in Info
  BY RealFacts, DeclarationFacts DEF Inv
<1>2. real' = [real EXCEPT ![i] = d] /\ shake' = [shake EXCEPT ![o][i] = s]
  BY DEF Answer
<1>3. s \in Shakes
  <2>1. ph \in Phases
    BY DEF Phases
  <2>2. (i \in installed) \in BOOLEAN
    OBVIOUS
  <2> HIDE DEF d, ph
  <2> QED  BY <1>1, <2>1, <2>2, ShakeFacts
<1> HIDE DEF d, s
<1>4. /\ real' \in [Supervisors -> Info]
      /\ shake' \in [Observers -> [Supervisors -> Shakes]]
  BY <1>1, <1>2, <1>3 DEF Inv, TypeOK
<1>5. /\ DOMAIN view' = Observers /\ \A n \in Observers : IsProcessStatus(view'[n])
      /\ Views'
  BY SameView DEF Answer
<1>6. missed' \in [Observers -> SUBSET Supervisors]
  BY DEF Answer, Inv, TypeOK
<1> QED  BY <1>4, <1>5, <1>6 DEF Inv, TypeOK, Answer

LEMMA PhaseFacts ==
  ASSUME TypeOK, NEW o \in Observers, NEW i \in Supervisors, NEW ph \in Phases,
         shake' = [shake EXCEPT ![o][i] = Shake(ph, @.known, @.declared)]
  PROVE  shake' \in [Observers -> [Supervisors -> Shakes]]
<1>1. shake[o][i].known \in BOOLEAN /\ shake[o][i].declared \in Info
  BY DEF TypeOK, Shakes
<1>2. Shake(ph, shake[o][i].known, shake[o][i].declared) \in Shakes
  BY <1>1, ShakeFacts
<1> QED  BY <1>2 DEF TypeOK

LEMMA TransferInv ==
  ASSUME Inv, NEW o \in Observers, NEW i \in Supervisors, TransferProcessInfo(o, i)
  PROVE  Inv'
<1>1. shake' \in [Observers -> [Supervisors -> Shakes]]
  BY PhaseFacts DEF TransferProcessInfo, Inv, Phases
<1>2. /\ DOMAIN view' = Observers /\ \A n \in Observers : IsProcessStatus(view'[n])
      /\ Views'
  BY SameView DEF TransferProcessInfo
<1>3. ignored' \in [Observers -> SUBSET Supervisors]
  BY DEF TransferProcessInfo, Inv, TypeOK
<1> QED  BY <1>1, <1>2, <1>3 DEF Inv, TypeOK, TransferProcessInfo

LEMMA LoadInv ==
  ASSUME Inv, NEW o \in Observers, NEW i \in Supervisors, LoadProcesses(o, i)
  PROVE  Inv'
<1>1. shake' \in [Observers -> [Supervisors -> Shakes]]
  BY PhaseFacts DEF LoadProcesses, Inv, Phases
<1>2. shake[o][i].declared \in Info
  BY DEF Inv, TypeOK, Shakes
<1>3. Sound(AddInfo(view[o], i, shake[o][i].declared))
  BY <1>2, SoundView, AddInfoSound
<1>4. /\ DOMAIN view' = Observers /\ \A n \in Observers : IsProcessStatus(view'[n])
      /\ Views'
  BY <1>3, SameView, UpdatedView DEF LoadProcesses
<1> QED  BY <1>1, <1>4 DEF Inv, TypeOK, LoadProcesses

LEMMA AuthorizationInv ==
  ASSUME Inv, NEW o \in Observers, NEW i \in Supervisors, OnAuthorization(o, i)
  PROVE  Inv'
<1>1. /\ DOMAIN view' = Observers /\ \A n \in Observers : IsProcessStatus(view'[n])
      /\ Views'
  BY SameView DEF OnAuthorization
<1>2. shake' \in [Observers -> [Supervisors -> Shakes]]
  BY AbsentFacts DEF OnAuthorization, Inv, TypeOK
<1>3. link' \in [Observers -> [Supervisors -> LinkStates]]
  BY DEF OnAuthorization, Inv, TypeOK, LinkStates
<1>4. ignored' \in [Observers -> SUBSET Supervisors]
  BY DEF OnAuthorization, Inv, TypeOK
<1> QED  BY <1>1, <1>2, <1>3, <1>4 DEF Inv, TypeOK, OnAuthorization

-----------------------------------------------------------------------------
(* The events, the losses and the forced states.                           *)

LEMMA EventInv ==
  ASSUME Inv, NEW o \in Observers, NEW i \in Supervisors, OnProcessEvent(o, i)
  PROVE  Inv'
<1>1. /\ channel[o][i] \in Seq(Event) /\ channel[o][i] # <<>>
  BY DEF OnProcessEvent, Inv, TypeOK
<1>2. Head(channel[o][i]) \in Event /\ Tail(channel[o][i]) \in Seq(Event)
  BY <1>1
<1>3. Sound(Applied(view[o], i, Head(channel[o][i])))
  BY <1>2, SoundView, AppliedSound
<1>4. /\ DOMAIN view' = Observers /\ \A n \in Observers : IsProcessStatus(view'[n])
      /\ Views'
  BY <1>3, SameView, UpdatedView DEF OnProcessEvent
<1>5. channel' \in [Observers -> [Supervisors -> Seq(Event)]]
  BY <1>2 DEF OnProcessEvent, Inv, TypeOK
<1>6. ignored' \in [Observers -> SUBSET Supervisors]
  BY DEF OnProcessEvent, Inv, TypeOK
<1> QED  BY <1>4, <1>5, <1>6 DEF Inv, TypeOK, OnProcessEvent

LEMMA LoseInv ==
  ASSUME Inv, NEW o \in Observers, NEW i \in Supervisors, Lose(o, i)
  PROVE  Inv'
<1>1. /\ DOMAIN view' = Observers /\ \A n \in Observers : IsProcessStatus(view'[n])
      /\ Views'
  BY SameView DEF Lose
<1>2. shake' \in [Observers -> [Supervisors -> Shakes]]
  BY AbsentFacts DEF Lose, Inv, TypeOK
<1>3. link' \in [Observers -> [Supervisors -> LinkStates]]
  BY DEF Lose, Inv, TypeOK, LinkStates
<1>4. channel' \in [Observers -> [Supervisors -> Seq(Event)]]
  BY DEF Lose, Inv, TypeOK
<1> QED  BY <1>1, <1>2, <1>3, <1>4 DEF Inv, TypeOK, Lose

LEMMA InvalidateFailedInv ==
  ASSUME Inv, NEW o \in Observers, NEW i \in Supervisors, InvalidateFailed(o, i)
  PROVE  Inv'
<1>1. /\ DOMAIN view' = Observers /\ \A n \in Observers : IsProcessStatus(view'[n])
      /\ Views'
  <2>1. CASE RunningOn(view[o], i) /\ Knows(view[o], i)
    <3>1. PICK time \in view[o].info[i].time..real[i].time :
            view' = [view EXCEPT ![o] = InvalidateIdentifier(@, i, time)]
      BY <2>1 DEF InvalidateFailed
    <3>2. view[o].info[i].time \in Nat /\ real[i].time \in Nat
      BY <2>1 DEF Inv, TypeOK, IsProcessStatus, Knows, Info
    <3>3. time \in Nat
      BY <3>1, <3>2
    <3>4. Sound(InvalidateIdentifier(view[o], i, time))
      BY <2>1, <3>3, SoundView, InvalidateSound
    <3> QED  BY <3>1, <3>4, UpdatedView
  <2>2. CASE ~(RunningOn(view[o], i) /\ Knows(view[o], i))
    BY <2>2, SameView DEF InvalidateFailed
  <2> QED  BY <2>1, <2>2
<1>2. link' \in [Observers -> [Supervisors -> LinkStates]]
  BY DEF InvalidateFailed, Inv, TypeOK, LinkStates
<1>3. ignored' \in [Observers -> SUBSET Supervisors]
  BY DEF InvalidateFailed, Inv, TypeOK
<1> QED  BY <1>1, <1>2, <1>3 DEF Inv, TypeOK, InvalidateFailed

LEMMA ForceInv ==
  ASSUME Inv, NEW i \in Supervisors, ForceProcessState(i)
  PROVE  Inv'
<1>1. Master \in Observers /\ Knows(view[Master], i)
  BY ViewAssumption DEF ForceProcessState
<1>2. view[Master].info[i].time \in Nat
  BY <1>1 DEF Inv, TypeOK, IsProcessStatus, Knows, Info
<1> DEFINE time == view[Master].info[i].time
<1>3. PICK s \in {"FATAL", "STOPPED"} :
        /\ view' = [view EXCEPT ![Master] = ForceState(@, i, time, s)]
        /\ orders' = [o \in Observers |->
             IF o = Master THEN orders[o]
             ELSE Append(orders[o], [target |-> i, time |-> time, state |-> s])]
  BY DEF ForceProcessState
<1>4. s \in ProcessStates
  BY DEF ProcessStates, StoppedStates
<1>5. [target |-> i, time |-> time, state |-> s] \in Order
  BY <1>2 DEF Order
<1>6. /\ DOMAIN view' = Observers /\ \A n \in Observers : IsProcessStatus(view'[n])
      /\ Views'
  BY <1>1, <1>3, <1>4, SoundView, ForceStateSound, UpdatedView
<1>7. orders' \in [Observers -> Seq(Order)]
  BY <1>3, <1>5 DEF Inv, TypeOK
<1>8. forces' \in 0..MaxForced
  BY ViewAssumption DEF ForceProcessState, Inv, TypeOK
<1> QED  BY <1>6, <1>7, <1>8 DEF Inv, TypeOK, ForceProcessState

LEMMA ForcedEventInv ==
  ASSUME Inv, NEW o \in Observers, OnForcedEvent(o)
  PROVE  Inv'
<1>1. orders[o] \in Seq(Order) /\ orders[o] # <<>>
  BY DEF OnForcedEvent, Inv, TypeOK
<1>2. Head(orders[o]) \in Order /\ Tail(orders[o]) \in Seq(Order)
  BY <1>1
<1> DEFINE e == Head(orders[o])
<1>3. e.state \in ProcessStates
  BY <1>2 DEF Order, ProcessStates, StoppedStates
<1>4. view' = [view EXCEPT ![o] = ForceState(view[o], e.target, e.time, e.state)]
  BY DEF OnForcedEvent
<1>5. /\ DOMAIN view' = Observers /\ \A n \in Observers : IsProcessStatus(view'[n])
      /\ Views'
  BY <1>3, <1>4, SoundView, ForceStateSound, UpdatedView
<1>6. orders' \in [Observers -> Seq(Order)]
  BY <1>2 DEF OnForcedEvent, Inv, TypeOK
<1> QED  BY <1>5, <1>6 DEF Inv, TypeOK, OnForcedEvent

-----------------------------------------------------------------------------
LEMMA StepInv == Inv /\ [Next]_vars => Inv'
<1> SUFFICES ASSUME Inv, [Next]_vars PROVE Inv'
  OBVIOUS
<1>1. ASSUME NEW i \in Supervisors,
             Evolve(i) \/ Toggle(i) \/ Uninstall(i) \/ Install(i) \/ Restart(i)
               \/ See(i) \/ ForceProcessState(i)
      PROVE  Inv'
  BY <1>1, EvolveInv, ToggleInv, InstallationInv, RestartInv, SeeInv, ForceInv
<1>2. ASSUME NEW o \in Observers, NEW i \in Supervisors,
             Check(o, i) \/ Answer(o, i) \/ TransferProcessInfo(o, i)
               \/ LoadProcesses(o, i) \/ OnAuthorization(o, i)
      PROVE  Inv'
  BY <1>2, CheckInv, AnswerInv, TransferInv, LoadInv, AuthorizationInv
<1>3. ASSUME NEW o \in Observers, NEW i \in Supervisors,
             OnProcessEvent(o, i) \/ Lose(o, i) \/ InvalidateFailed(o, i)
      PROVE  Inv'
  BY <1>3, EventInv, LoseInv, InvalidateFailedInv
<1>4. ASSUME NEW o \in Observers, OnForcedEvent(o)
      PROVE  Inv'
  BY <1>4, ForcedEventInv
<1>5. CASE UNCHANGED vars
  <2>1. Views' /\ DOMAIN view' = Observers /\ \A n \in Observers : IsProcessStatus(view'[n])
    BY <1>5, SameView DEF vars
  <2> QED  BY <1>5, <2>1 DEF vars, Inv, TypeOK
<1> QED  BY <1>1, <1>2, <1>3, <1>4, <1>5 DEF Next

(* Every reachable view is well typed, whatever the declarations, their    *)
(* order, the losses, the restarts and the forced states.                  *)
THEOREM ViewTypeCorrect == Spec => []TypeOK
<1>1. Inv => TypeOK
  BY DEF Inv
<1> QED  BY InitInv, StepInv, <1>1, PTL DEF Spec

(* The synthetic state is always the one of the declarations it is made    *)
(* from: no instance where the process runs is ever left out, and none is  *)
(* held that did not declare it.                                           *)
THEOREM SynthesisAlways == Spec => []Synthesis
<1>1. Inv => Synthesis
  BY StatesSplit DEF Inv, Views, Synthesis, Consistent, Declaring
<1> QED  BY InitInv, StepInv, <1>1, PTL DEF Spec

-----------------------------------------------------------------------------
(* What the channel and the view of one observer owe to one Supervisor,    *)
(* i: p is the view, r is what the Supervisor knows, and H is the set of   *)
(* the Supervisors where the program is installed.                         *)

Marked(q, types) == \E n \in DOMAIN q : q[n].type \in types
Agrees(info, r) == info.state = r.state /\ info.expected = r.expected

(* The last events tell the truth: the very last one for the disability,   *)
(* the last one that declares a state for the state, and a removal is      *)
(* followed by the addition that cancelled it.                             *)
Latest(q, r) ==
  \A n \in DOMAIN q : q[n].type \in {"state", "added"} =>
    \/ Agrees(q[n].declared, r)
    \/ \E m \in DOMAIN q : m > n /\ q[m].type \in {"state", "added"}
Restored(q, i, H) ==
  \A n \in DOMAIN q : q[n].type = "removed" /\ i \in H =>
    \E m \in DOMAIN q : m > n /\ q[m].type = "added"
Healthy(q, r, i, H) ==
  /\ q # <<>> => q[Len(q)].declared.disabled = r.disabled
  /\ Latest(q, r)
  /\ Restored(q, i, H)

(* What the view holds is the truth, or an event to come replaces it.      *)
Settled(q, r, i, H, p) ==
  i \in H =>
    /\ Marked(q, {"added"}) \/ Knows(p, i)
    /\ Marked(q, {"state", "added"}) \/ (Knows(p, i) /\ Agrees(p.info[i], r))
    /\ q = <<>> => p.info[i].disabled = r.disabled

(* What the handshake got is the truth, or an event to come has the        *)
(* handshake refused.                                                      *)
Answered(q, r, i, H, info) ==
  /\ Marked(q, {"removed"}) \/ i \in H
  /\ Marked(q, {"state", "removed"}) \/ Agrees(info, r)
  /\ Marked(q, {"disability", "removed"}) \/ info.disabled = r.disabled

(* An event tells what the Supervisor has just become, from r to s.        *)
Tells(e, r, i, H, s, K) ==
  /\ e.declared.disabled = s.disabled
  /\ Agrees(e.declared, s)
  /\ e.type \in {"disability", "removed"} => Agrees(s, r)
  /\ e.type \in {"state", "removed"} => s.disabled = r.disabled
  /\ e.type = "added" => i \in K /\ i \notin H
  /\ e.type = "removed" => i \in H /\ i \notin K
  /\ e.type \in {"state", "disability"} => i \in H /\ i \in K

-----------------------------------------------------------------------------
(* Sequences of events.                                                    *)

LEMMA AppendFacts ==
  ASSUME NEW q \in Seq(Event), NEW e \in Event
  PROVE  /\ Append(q, e) \in Seq(Event) /\ Append(q, e) # <<>>
         /\ Len(Append(q, e)) = Len(q) + 1 /\ Len(q) \in Nat
         /\ DOMAIN q = 1..Len(q) /\ DOMAIN Append(q, e) = 1..(Len(q) + 1)
         /\ \A n \in DOMAIN q : Append(q, e)[n] = q[n]
         /\ Append(q, e)[Len(q) + 1] = e
OBVIOUS

LEMMA TailFacts ==
  ASSUME NEW q \in Seq(Event), q # <<>>
  PROVE  /\ Tail(q) \in Seq(Event) /\ Head(q) \in Event /\ Head(q) = q[1]
         /\ Len(q) \in Nat /\ Len(q) >= 1 /\ Len(Tail(q)) = Len(q) - 1
         /\ DOMAIN q = 1..Len(q) /\ DOMAIN Tail(q) = 1..(Len(q) - 1)
         /\ \A n \in DOMAIN Tail(q) : Tail(q)[n] = q[n + 1]
         /\ Tail(q) = <<>> <=> Len(q) = 1
<1>1. Tail(q) \in Seq(Event) /\ Head(q) \in Event /\ Len(Tail(q)) = Len(q) - 1
      /\ \A n \in 1..Len(Tail(q)) : Tail(q)[n] = q[n + 1]
  BY HeadTailProperties
<1>2. Len(q) \in Nat /\ Len(q) >= 1 /\ DOMAIN q = 1..Len(q)
      /\ DOMAIN Tail(q) = 1..Len(Tail(q))
  BY <1>1, EmptySeq, LenProperties
<1>3. Tail(q) = <<>> => Len(q) = 1
  <2>1. Tail(q) = <<>> => Len(Tail(q)) = 0
    BY EmptySeq
  <2> QED  BY <1>1, <1>2, <2>1
<1>4. Len(q) = 1 => Tail(q) = <<>>
  <2>1. Tail(q) # <<>> => Len(Tail(q)) \in Nat \ {0}
    BY <1>1, EmptySeq
  <2> QED  BY <1>1, <1>2, <2>1
<1>5. Head(q) = q[1]
  OBVIOUS
<1> QED  BY <1>1, <1>2, <1>3, <1>4, <1>5

(* A mark stays when an event comes, and only the head may take one away.  *)
LEMMA MarkedAppend ==
  ASSUME NEW q \in Seq(Event), NEW e \in Event, NEW T
  PROVE  /\ Marked(q, T) => Marked(Append(q, e), T)
         /\ e.type \in T => Marked(Append(q, e), T)
<1>1. Marked(q, T) => Marked(Append(q, e), T)
  BY AppendFacts DEF Marked
<1>2. Len(q) + 1 \in DOMAIN Append(q, e) /\ Append(q, e)[Len(q) + 1] = e
  BY AppendFacts
<1> QED  BY <1>1, <1>2 DEF Marked

LEMMA MarkedTail ==
  ASSUME NEW q \in Seq(Event), q # <<>>, NEW T
  PROVE  Marked(q, T) <=> Head(q).type \in T \/ Marked(Tail(q), T)
<1>1. ASSUME NEW n \in DOMAIN q, q[n].type \in T, n # 1
      PROVE  Marked(Tail(q), T)
  <2>1. n - 1 \in DOMAIN Tail(q) /\ Tail(q)[n - 1] = q[n]
    BY <1>1, TailFacts
  <2> QED  BY <1>1, <2>1 DEF Marked
<1>2. ASSUME NEW n \in DOMAIN Tail(q), Tail(q)[n].type \in T
      PROVE  Marked(q, T)
  <2>1. n + 1 \in DOMAIN q /\ q[n + 1].type \in T
    BY <1>2, TailFacts
  <2> QED  BY <2>1 DEF Marked
<1>3. 1 \in DOMAIN q /\ q[1] = Head(q)
  BY TailFacts
<1> QED  BY <1>1, <1>2, <1>3 DEF Marked

LEMMA NoMark == \A T : ~Marked(<<>>, T)
BY DEF Marked

-----------------------------------------------------------------------------
(* An event is published.                                                  *)

LEMMA AppendHealthy ==
  ASSUME NEW q \in Seq(Event), NEW e \in Event, NEW r, NEW s,
         NEW i, NEW H, NEW K, Healthy(q, r, i, H), Tells(e, r, i, H, s, K)
  PROVE  Healthy(Append(q, e), s, i, K)
<1> DEFINE p == Append(q, e)
<1>1. /\ p # <<>> /\ Len(p) = Len(q) + 1 /\ Len(q) \in Nat
      /\ DOMAIN q = 1..Len(q) /\ DOMAIN p = 1..(Len(q) + 1)
      /\ \A n \in DOMAIN q : p[n] = q[n]
      /\ p[Len(q) + 1] = e
  BY AppendFacts
<1>2. e.type \in {"state", "disability", "added", "removed"}
  BY DEF Event
<1> HIDE DEF p
<1>3. p # <<>> => p[Len(p)].declared.disabled = s.disabled
  BY <1>1 DEF Tells
<1>4. ASSUME NEW n \in DOMAIN p, p[n].type \in {"state", "added"}
      PROVE  \/ Agrees(p[n].declared, s)
             \/ \E m \in DOMAIN p : m > n /\ p[m].type \in {"state", "added"}
  <2>1. CASE n = Len(q) + 1
    BY <1>1, <2>1 DEF Tells
  <2>2. CASE n # Len(q) + 1 /\ e.type \in {"state", "added"}
    BY <1>1, <2>2
  <2>3. CASE n # Len(q) + 1 /\ e.type \in {"disability", "removed"}
    <3>1. n \in DOMAIN q /\ q[n] = p[n] /\ Agrees(s, r)
      BY <1>1, <2>3 DEF Tells
    <3>2. CASE Agrees(q[n].declared, r)
      BY <3>1, <3>2 DEF Agrees
    <3>3. CASE \E m \in DOMAIN q : m > n /\ q[m].type \in {"state", "added"}
      BY <1>1, <3>3
    <3> QED  BY <1>4, <3>1, <3>2, <3>3 DEF Healthy, Latest
  <2> QED  BY <1>2, <2>1, <2>2, <2>3
<1>5. ASSUME NEW n \in DOMAIN p, p[n].type = "removed", i \in K
      PROVE  \E m \in DOMAIN p : m > n /\ p[m].type = "added"
  <2>1. e.type # "removed"
    BY <1>5 DEF Tells
  <2>2. n \in DOMAIN q /\ q[n] = p[n]
    BY <1>1, <1>5, <2>1
  <2>3. CASE e.type = "added"
    BY <1>1, <2>2, <2>3
  <2>4. CASE e.type # "added"
    <3>1. i \in H
      BY <1>2, <2>1, <2>4 DEF Tells
    <3>2. PICK m \in DOMAIN q : m > n /\ q[m].type = "added"
      BY <1>5, <2>2, <3>1 DEF Healthy, Restored
    <3> QED  BY <1>1, <3>2
  <2> QED  BY <2>3, <2>4
<1>6. Latest(p, s) /\ Restored(p, i, K)
  BY <1>4, <1>5 DEF Latest, Restored
<1> QED  BY <1>3, <1>6 DEF Healthy, p

LEMMA AppendSettled ==
  ASSUME NEW q \in Seq(Event), NEW e \in Event, NEW r, NEW s,
         NEW i, NEW H, NEW K, NEW p, Settled(q, r, i, H, p), Tells(e, r, i, H, s, K)
  PROVE  Settled(Append(q, e), s, i, K, p)
<1>1. e.type \in {"state", "disability", "added", "removed"} /\ Append(q, e) # <<>>
  BY AppendFacts DEF Event
<1>2. CASE e.type = "added"
  BY <1>1, <1>2, MarkedAppend DEF Settled
<1>3. CASE e.type = "removed"
  BY <1>3 DEF Settled, Tells
<1>4. CASE e.type = "state"
  BY <1>1, <1>4, MarkedAppend DEF Settled, Tells
<1>5. CASE e.type = "disability"
  BY <1>1, <1>5, MarkedAppend DEF Settled, Tells, Agrees
<1> QED  BY <1>1, <1>2, <1>3, <1>4, <1>5

LEMMA AppendAnswered ==
  ASSUME NEW q \in Seq(Event), NEW e \in Event, NEW r, NEW s,
         NEW i, NEW H, NEW K, NEW info,
         Answered(q, r, i, H, info), Tells(e, r, i, H, s, K)
  PROVE  Answered(Append(q, e), s, i, K, info)
<1>1. e.type \in {"state", "disability", "added", "removed"}
  BY DEF Event
<1>2. CASE e.type = "added"
  <2>1. Marked(q, {"removed"})
    BY <1>2 DEF Answered, Tells
  <2>2. \A T : "removed" \in T => Marked(q, T)
    BY <2>1 DEF Marked
  <2> QED  BY <2>2, MarkedAppend DEF Answered
<1>3. CASE e.type = "removed"
  BY <1>3, MarkedAppend DEF Answered
<1>4. CASE e.type = "state"
  BY <1>4, MarkedAppend DEF Answered, Tells
<1>5. CASE e.type = "disability"
  BY <1>5, MarkedAppend DEF Answered, Tells, Agrees
<1> QED  BY <1>1, <1>2, <1>3, <1>4, <1>5

-----------------------------------------------------------------------------
(* An event is handled.                                                    *)

LEMMA TailHealthy ==
  ASSUME NEW q \in Seq(Event), q # <<>>, NEW r, NEW i, NEW H, Healthy(q, r, i, H)
  PROVE  Healthy(Tail(q), r, i, H)
<1> DEFINE p == Tail(q)
<1>1. /\ Len(q) \in Nat /\ Len(q) >= 1 /\ Len(p) = Len(q) - 1
      /\ DOMAIN q = 1..Len(q) /\ DOMAIN p = 1..(Len(q) - 1)
      /\ \A n \in DOMAIN p : p[n] = q[n + 1]
      /\ p = <<>> <=> Len(q) = 1
  BY TailFacts
<1> HIDE DEF p
<1>2. p # <<>> => p[Len(p)].declared.disabled = r.disabled
  <2>1. p # <<>> => p[Len(p)] = q[Len(q)]
    BY <1>1
  <2> QED  BY <2>1 DEF Healthy
<1>3. ASSUME NEW n \in DOMAIN p, NEW T,
             \E m \in DOMAIN q : m > n + 1 /\ q[m].type \in T
      PROVE  \E m \in DOMAIN p : m > n /\ p[m].type \in T
  <2>1. PICK m \in DOMAIN q : m > n + 1 /\ q[m].type \in T
    BY <1>3
  <2>2. m - 1 \in DOMAIN p /\ m - 1 > n /\ p[m - 1] = q[m]
    BY <1>1, <2>1
  <2> QED  BY <2>1, <2>2
<1>4. \A n \in DOMAIN p : n + 1 \in DOMAIN q /\ p[n] = q[n + 1]
  BY <1>1
<1>5. Latest(p, r)
  <2> SUFFICES ASSUME NEW n \in DOMAIN p, p[n].type \in {"state", "added"}
               PROVE  \/ Agrees(p[n].declared, r)
                      \/ \E m \in DOMAIN p : m > n /\ p[m].type \in {"state", "added"}
    BY DEF Latest
  <2>1. \/ Agrees(q[n + 1].declared, r)
        \/ \E m \in DOMAIN q : m > n + 1 /\ q[m].type \in {"state", "added"}
    BY <1>4 DEF Healthy, Latest
  <2> QED  BY <1>3, <1>4, <2>1
<1>6. Restored(p, i, H)
  <2> SUFFICES ASSUME NEW n \in DOMAIN p, p[n].type = "removed", i \in H
               PROVE  \E m \in DOMAIN p : m > n /\ p[m].type \in {"added"}
    BY DEF Restored
  <2>1. \E m \in DOMAIN q : m > n + 1 /\ q[m].type \in {"added"}
    BY <1>4 DEF Healthy, Restored
  <2> QED  BY <1>3, <2>1
<1> QED  BY <1>2, <1>5, <1>6 DEF Healthy, p

(* What the head says is the truth, or an event behind it replaces it.     *)
LEMMA HeadFacts ==
  ASSUME NEW q \in Seq(Event), q # <<>>, NEW r, NEW i, NEW H, Healthy(q, r, i, H)
  PROVE  /\ Tail(q) = <<>> => Head(q).declared.disabled = r.disabled
         /\ Head(q).type \in {"state", "added"} =>
              Agrees(Head(q).declared, r) \/ Marked(Tail(q), {"state", "added"})
         /\ Head(q).type = "removed" /\ i \in H => Marked(Tail(q), {"added"})
<1>1. Tail(q) = <<>> => Head(q).declared.disabled = r.disabled
  BY TailFacts DEF Healthy
<1>2. 1 \in DOMAIN q /\ Head(q) = q[1]
  BY TailFacts
<1>3. ASSUME NEW T, \E m \in DOMAIN q : m > 1 /\ q[m].type \in T
      PROVE  Marked(Tail(q), T)
  <2>1. PICK m \in DOMAIN q : m > 1 /\ q[m].type \in T
    BY <1>3
  <2>2. m - 1 \in DOMAIN Tail(q) /\ Tail(q)[m - 1] = q[m]
    BY <2>1, TailFacts
  <2> QED  BY <2>1, <2>2 DEF Marked
<1>4. Head(q).type \in {"state", "added"} =>
        Agrees(Head(q).declared, r) \/ Marked(Tail(q), {"state", "added"})
  BY <1>2, <1>3 DEF Healthy, Latest
<1>5. Head(q).type = "removed" /\ i \in H => \E m \in DOMAIN q : m > 1 /\ q[m].type \in {"added"}
  BY <1>2 DEF Healthy, Restored
<1> QED  BY <1>1, <1>3, <1>4, <1>5

(* The operations change what one Supervisor declared, and nothing else.   *)
Keeps(p, q, i) ==
  \A j \in Supervisors \ {i} :
    /\ Knows(q, j) <=> Knows(p, j)
    /\ Knows(p, j) => q.info[j] = p.info[j]

LEMMA DeclaredInfo ==
  ASSUME NEW p, Sound(p), NEW i \in Supervisors, NEW d \in Info,
         NEW q, q = AddInfo(p, i, d) \/ q = UpdateInfo(p, i, d)
  PROVE  Knows(q, i) /\ q.info[i] = d /\ Keeps(p, q, i)
<1>1. q.info = SetInfo(p, i, d).info
  BY AddInfoSound, UpdateInfoSound
<1> DEFINE f == SetInfo(p, i, d).info
<1>2. /\ DOMAIN f = DOMAIN p.info \cup {i}
      /\ f[i] = d /\ \A j \in DOMAIN p.info \ {i} : f[j] = p.info[j]
  BY SetInfoFacts DEF Sound
<1> HIDE DEF f
<1> QED  BY <1>1, <1>2 DEF Knows, Keeps, f

LEMMA DisabledInfo ==
  ASSUME NEW p, Sound(p), NEW i \in Supervisors, Knows(p, i), NEW b
  PROVE  LET q == UpdateDisability(p, i, b)
         IN  /\ Knows(q, i) /\ Keeps(p, q, i)
             /\ q.info[i].state = p.info[i].state
             /\ q.info[i].expected = p.info[i].expected
             /\ q.info[i].disabled = b
<1> DEFINE f == [p.info EXCEPT ![i].disabled = b]
<1>1. UpdateDisability(p, i, b) =
        [info |-> f, running |-> p.running, state |-> p.state,
         expected |-> p.expected, forced |-> p.forced]
  BY DEF UpdateDisability, Sound, IsProcessStatus
<1>2. UpdateDisability(p, i, b).info = f
  BY <1>1
<1>3. p.info \in [DOMAIN p.info -> Info] /\ i \in DOMAIN p.info
  BY DEF Sound, IsProcessStatus, Knows
<1>4. /\ DOMAIN f = DOMAIN p.info /\ \A j \in DOMAIN p.info \ {i} : f[j] = p.info[j]
      /\ f[i] = [p.info[i] EXCEPT !.disabled = b]
  BY <1>3
<1>5. p.info[i] \in Info
  BY <1>3
<1> QED  BY <1>2, <1>3, <1>4, <1>5 DEF Knows, Keeps, Info

LEMMA RemovedInfo ==
  ASSUME NEW p, Sound(p), NEW i
  PROVE  Keeps(p, RemoveIdentifier(p, i), i)
<1> DEFINE f == [j \in DOMAIN p.info \ {i} |-> p.info[j]]
<1>1. RemoveIdentifier(p, i) =
        [info |-> f, running |-> p.running, state |-> p.state,
         expected |-> p.expected, forced |-> p.forced]
  BY DEF RemoveIdentifier, Sound, IsProcessStatus
<1>2. RemoveIdentifier(p, i).info = f
  BY <1>1
<1> QED  BY <1>2 DEF Knows, Keeps

LEMMA ForcedInfo ==
  ASSUME NEW p, Sound(p), NEW i, NEW time, NEW s
  PROVE  ForceState(p, i, time, s).info = p.info
<1>1. [p EXCEPT !.forced = s] = [info |-> p.info, running |-> p.running, state |-> p.state,
          expected |-> p.expected, forced |-> s]
  BY DEF Sound, IsProcessStatus
<1>2. [p EXCEPT !.forced = s].info = p.info
  BY <1>1
<1> QED  BY <1>2 DEF ForceState

LEMMA InvalidatedInfo ==
  ASSUME NEW p, Sound(p), NEW i \in Supervisors, Knows(p, i), NEW time \in Nat
  PROVE  Keeps(p, InvalidateIdentifier(p, i, time), i)
<1>1. Declaration("FATAL", FALSE, p.info[i].disabled, time) \in Info
  BY DeclarationFacts DEF Sound, IsProcessStatus, Info, Knows, ProcessStates, StoppedStates
<1>2. CASE i \in p.running
  BY <1>1, <1>2, DeclaredInfo DEF InvalidateIdentifier
<1>3. CASE i \notin p.running
  BY <1>3 DEF InvalidateIdentifier, Keeps
<1> QED  BY <1>2, <1>3

LEMMA AppliedInfo ==
  ASSUME NEW p, Sound(p), NEW i \in Supervisors, NEW e \in Event
  PROVE  LET q == Applied(p, i, e)
         IN  /\ Keeps(p, q, i)
             /\ e.type = "added" => Knows(q, i) /\ q.info[i] = e.declared
             /\ e.type # "added" /\ ~Knows(p, i) => q = p
             /\ e.type = "state" /\ Knows(p, i) => Knows(q, i) /\ q.info[i] = e.declared
             /\ e.type = "disability" /\ Knows(p, i) =>
                  /\ Knows(q, i)
                  /\ q.info[i].state = p.info[i].state
                  /\ q.info[i].expected = p.info[i].expected
                  /\ q.info[i].disabled = e.declared.disabled
<1>1. e.declared \in Info /\ e.type \in {"state", "disability", "added", "removed"}
  BY DEF Event
<1>2. CASE e.type = "added"
  <2>1. Applied(p, i, e) = AddInfo(p, i, e.declared)
    BY <1>2 DEF Applied
  <2> QED  BY <1>1, <1>2, <2>1, DeclaredInfo
<1>3. CASE e.type # "added" /\ ~Knows(p, i)
  BY <1>3 DEF Applied, Keeps
<1>4. CASE Knows(p, i) /\ e.type = "state"
  <2>1. Applied(p, i, e) = UpdateInfo(p, i, e.declared)
    BY <1>4 DEF Applied
  <2> QED  BY <1>1, <1>4, <2>1, DeclaredInfo
<1>5. CASE Knows(p, i) /\ e.type = "disability"
  <2>1. Applied(p, i, e) = UpdateDisability(p, i, e.declared.disabled)
    BY <1>5 DEF Applied
  <2> QED  BY <1>5, <2>1, DisabledInfo
<1>6. CASE Knows(p, i) /\ e.type = "removed"
  <2>1. Applied(p, i, e) = RemoveIdentifier(p, i)
    BY <1>6 DEF Applied
  <2> QED  BY <1>6, <2>1, RemovedInfo
<1> QED  BY <1>1, <1>2, <1>3, <1>4, <1>5, <1>6

(* A view that handles an event still owes nothing more to the Supervisor. *)
LEMMA HandledSettled ==
  ASSUME NEW q \in Seq(Event), q # <<>>, NEW r, NEW i \in Supervisors, NEW H,
         Healthy(q, r, i, H), NEW p, Sound(p), Settled(q, r, i, H, p),
         NEW z, z = Applied(p, i, Head(q))
  PROVE  Settled(Tail(q), r, i, H, z)
<1> DEFINE e == Head(q)
           t == Tail(q)
<1>1. e \in Event /\ e.type \in {"state", "disability", "added", "removed"}
  BY TailFacts DEF Event
<1>2. /\ t = <<>> => e.declared.disabled = r.disabled
      /\ e.type \in {"state", "added"} =>
           Agrees(e.declared, r) \/ Marked(t, {"state", "added"})
      /\ e.type = "removed" /\ i \in H => Marked(t, {"added"})
  BY HeadFacts
<1>3. \A T : Marked(q, T) <=> e.type \in T \/ Marked(t, T)
  BY MarkedTail
<1>4. Marked(t, {"added"}) => Marked(t, {"state", "added"}) /\ t # <<>>
  BY NoMark DEF Marked
<1>5. /\ e.type = "added" => Knows(z, i) /\ z.info[i] = e.declared
      /\ e.type # "added" /\ ~Knows(p, i) => z = p
      /\ e.type = "state" /\ Knows(p, i) => Knows(z, i) /\ z.info[i] = e.declared
      /\ e.type = "disability" /\ Knows(p, i) =>
           /\ Knows(z, i)
           /\ z.info[i].state = p.info[i].state
           /\ z.info[i].expected = p.info[i].expected
           /\ z.info[i].disabled = e.declared.disabled
  BY <1>1, AppliedInfo
<1>6. z = Applied(p, i, e)
  OBVIOUS
<1> HIDE DEF e, t
<1> SUFFICES ASSUME i \in H PROVE Settled(t, r, i, H, z)
  BY DEF Settled, t
<1>7. CASE e.type = "added"
  BY <1>2, <1>5, <1>7 DEF Settled
<1>8. CASE e.type # "added" /\ Marked(t, {"added"})
  BY <1>4, <1>8 DEF Settled
<1>9. CASE e.type # "added" /\ ~Marked(t, {"added"})
  <2>1. Knows(p, i) /\ e.type \in {"state", "disability"}
    BY <1>1, <1>2, <1>3, <1>9 DEF Settled
  <2>2. CASE e.type = "state"
    BY <1>2, <1>5, <2>1, <2>2 DEF Settled
  <2>3. CASE e.type = "disability"
    <3>1. Marked(t, {"state", "added"}) \/ Agrees(p.info[i], r)
      BY <1>3, <2>3 DEF Settled
    <3> QED  BY <1>2, <1>5, <2>1, <2>3, <3>1 DEF Settled, Agrees
  <2> QED  BY <2>1, <2>2, <2>3
<1> QED  BY <1>7, <1>8, <1>9

(* What was answered is loaded.                                            *)
LEMMA LoadedSettled ==
  ASSUME NEW q \in Seq(Event), NEW r, NEW i, NEW H, NEW info,
         Healthy(q, r, i, H), Answered(q, r, i, H, info),
         NEW p, Knows(p, i), p.info[i] = info
  PROVE  Settled(q, r, i, H, p)
<1> SUFFICES ASSUME i \in H PROVE Settled(q, r, i, H, p)
  BY DEF Settled
<1>1. Marked(q, {"removed"}) => Marked(q, {"state", "added"})
  BY DEF Healthy, Restored, Marked
<1>2. Marked(q, {"state", "removed"}) => Marked(q, {"state"}) \/ Marked(q, {"removed"})
  BY DEF Marked
<1>3. Marked(q, {"state"}) => Marked(q, {"state", "added"})
  BY DEF Marked
<1>4. q = <<>> => info.disabled = r.disabled
  BY NoMark DEF Answered
<1> QED  BY <1>1, <1>2, <1>3, <1>4 DEF Settled, Answered

-----------------------------------------------------------------------------
(* The inductive invariant, for one observer and one Supervisor.           *)

(* The view is relied on, or will be if no event is ignored; or it will be *)
(* replaced by what the handshake got.                                     *)
Trusts(o, i) ==
  \/ link[o][i] = "CHECKED"
  \/ /\ i \notin ignored[o]
     /\ \/ shake[o][i].phase = "loaded"
        \/ shake[o][i].phase = "answered" /\ ~shake[o][i].known
Awaits(o, i) ==
  /\ i \notin ignored[o]
  /\ shake[o][i].phase = "answered" /\ shake[o][i].known

Fits(o, i) ==
  /\ shake[o][i].phase # "taken"
  /\ shake[o][i].phase # "none" => link[o][i] = "CHECKING"
  /\ o \notin sees[i] => channel[o][i] = <<>>
  /\ Healthy(channel[o][i], real[i], i, installed)
  /\ i \notin missed[o] /\ Trusts(o, i) =>
       Settled(channel[o][i], real[i], i, installed, view[o])
  /\ i \notin missed[o] /\ Awaits(o, i) =>
       Answered(channel[o][i], real[i], i, installed, shake[o][i].declared)

AllFit == \A o \in Observers, i \in Supervisors : Fits(o, i)

(* What a step leaves alone for an observer and a Supervisor. The date of  *)
(* what the Supervisor knows is of no matter.                              *)
Same(r, s) == Agrees(s, r) /\ s.disabled = r.disabled
Untouched(o, i) ==
  /\ link'[o][i] = link[o][i] /\ shake'[o][i] = shake[o][i]
  /\ channel'[o][i] = channel[o][i]
  /\ o \in sees[i] => o \in sees'[i]
  /\ i \in ignored'[o] <=> i \in ignored[o]
  /\ i \in missed'[o] <=> i \in missed[o]
  /\ Knows(view'[o], i) <=> Knows(view[o], i)
  /\ Knows(view[o], i) => view'[o].info[i] = view[o].info[i]
  /\ Same(real[i], real'[i])
  /\ i \in installed' <=> i \in installed

LEMMA SameHealthy ==
  ASSUME NEW q, NEW r, NEW s, Same(r, s), NEW i, NEW H, NEW K, i \in H <=> i \in K,
         Healthy(q, r, i, H)
  PROVE  Healthy(q, s, i, K)
<1>1. \A info : Agrees(info, r) <=> Agrees(info, s)
  BY DEF Same, Agrees
<1> QED  BY <1>1 DEF Healthy, Latest, Restored, Same

LEMMA SameSettled ==
  ASSUME NEW q, NEW r, NEW s, Same(r, s), NEW i, NEW H, NEW K, i \in H <=> i \in K,
         NEW p, NEW z, Knows(z, i) <=> Knows(p, i), Knows(p, i) => z.info[i] = p.info[i],
         Settled(q, r, i, H, p)
  PROVE  Settled(q, s, i, K, z)
<1>1. q = <<>> => ~Marked(q, {"added"})
  BY NoMark
<1> QED  BY <1>1 DEF Settled, Same, Agrees

LEMMA SameAnswered ==
  ASSUME NEW q, NEW r, NEW s, Same(r, s), NEW i, NEW H, NEW K, i \in H <=> i \in K,
         NEW info, Answered(q, r, i, H, info)
  PROVE  Answered(q, s, i, K, info)
BY DEF Answered, Same, Agrees

LEMMA UntouchedFits ==
  ASSUME NEW o \in Observers, NEW i \in Supervisors, Fits(o, i), Untouched(o, i)
  PROVE  Fits(o, i)'
<1>1. /\ (shake[o][i].phase # "taken")'
      /\ (shake[o][i].phase # "none" => link[o][i] = "CHECKING")'
      /\ (o \notin sees[i] => channel[o][i] = <<>>)'
  BY DEF Fits, Untouched
<1>2. Healthy(channel'[o][i], real'[i], i, installed')
  BY SameHealthy DEF Fits, Untouched
<1>3. ASSUME i \notin missed'[o], Trusts(o, i)'
      PROVE  Settled(channel'[o][i], real'[i], i, installed', view'[o])
  <2>1. Settled(channel[o][i], real[i], i, installed, view[o])
    BY <1>3 DEF Fits, Untouched, Trusts
  <2> QED  BY <2>1, SameSettled DEF Untouched
<1>4. ASSUME i \notin missed'[o], Awaits(o, i)'
      PROVE  Answered(channel'[o][i], real'[i], i, installed', shake'[o][i].declared)
  <2>1. Answered(channel[o][i], real[i], i, installed, shake[o][i].declared)
    BY <1>4 DEF Fits, Untouched, Awaits
  <2> QED  BY <2>1, SameAnswered DEF Untouched
<1> QED  BY <1>1, <1>2, <1>3, <1>4 DEF Fits

(* An observer that relies on nothing is owed nothing.                     *)
LEMMA EmptyHealthy ==
  ASSUME NEW r, NEW i, NEW H
  PROVE  Healthy(<<>>, r, i, H)
BY DEF Healthy, Latest, Restored

(* An event is published: the view of an observer that gets it owes        *)
(* nothing more, and another one has missed it.                            *)
LEMMA PublishFits ==
  ASSUME Inv, AllFit, NEW i \in Supervisors, NEW e \in Event, Publish(i, e),
         UNCHANGED <<link, sees, shake, ignored, view>>,
         \A j \in Supervisors \ {i} :
           real'[j] = real[j] /\ (j \in installed' <=> j \in installed),
         Tells(e, real[i], i, installed, real'[i], installed')
  PROVE  AllFit'
<1> SUFFICES ASSUME NEW o \in Observers, NEW j \in Supervisors PROVE Fits(o, j)'
  BY DEF AllFit
<1>1. Fits(o, j) /\ channel[o] \in [Supervisors -> Seq(Event)] /\ missed[o] \subseteq Supervisors
  BY DEF AllFit, Inv, TypeOK
<1>2. /\ channel'[o] = [channel[o] EXCEPT ![i] = IF o \in sees[i] THEN Append(@, e) ELSE @]
      /\ missed'[o] = IF o \notin sees[i] /\ Relies(o, i) THEN missed[o] \cup {i}
                                                         ELSE missed[o]
  BY DEF Publish
<1>3. CASE j # i
  <2>1. channel'[o][j] = channel[o][j] /\ (j \in missed'[o] <=> j \in missed[o])
    BY <1>1, <1>2, <1>3
  <2>2. Untouched(o, j)
    BY <1>3, <2>1 DEF Untouched, Same, Agrees
  <2> QED  BY <1>1, <2>2, UntouchedFits
<1>4. CASE j = i /\ o \in sees[i]
  <2>1. channel'[o][i] = Append(channel[o][i], e) /\ missed'[o] = missed[o]
    BY <1>1, <1>2, <1>4
  <2>2. channel[o][i] \in Seq(Event)
    BY <1>1
  <2>3. Healthy(channel'[o][i], real'[i], i, installed')
    BY <1>1, <1>4, <2>1, <2>2, AppendHealthy DEF Fits
  <2>4. ASSUME i \notin missed'[o], Trusts(o, i)'
        PROVE  Settled(channel'[o][i], real'[i], i, installed', view'[o])
    <3>1. Settled(channel[o][i], real[i], i, installed, view[o])
      BY <1>1, <1>4, <2>1, <2>4 DEF Fits, Trusts
    <3> QED  BY <2>1, <2>2, <3>1, AppendSettled
  <2>5. ASSUME i \notin missed'[o], Awaits(o, i)'
        PROVE  Answered(channel'[o][i], real'[i], i, installed', shake'[o][i].declared)
    <3>1. Answered(channel[o][i], real[i], i, installed, shake[o][i].declared)
      BY <1>1, <1>4, <2>1, <2>5 DEF Fits, Awaits
    <3> QED  BY <2>1, <2>2, <3>1, AppendAnswered
  <2> QED  BY <1>1, <1>4, <2>3, <2>4, <2>5 DEF Fits
<1>5. CASE j = i /\ o \notin sees[i]
  <2>1. channel'[o][i] = <<>>
    BY <1>1, <1>2, <1>5 DEF Fits
  <2>2. i \notin missed'[o] => ~Relies(o, i)
    BY <1>2, <1>5
  <2>3. i \notin missed'[o] => ~Trusts(o, i)' /\ ~Awaits(o, i)'
    BY <2>2 DEF Relies, Trusts, Awaits
  <2> QED  BY <1>1, <1>5, <2>1, <2>3, EmptyHealthy DEF Fits
<1> QED  BY <1>3, <1>4, <1>5

-----------------------------------------------------------------------------
(* The life of the process.                                                *)

LEMMA DeclareFits ==
  ASSUME Inv, AllFit, NEW i \in installed, NEW s \in ProcessStates, NEW x \in BOOLEAN,
         NEW b \in BOOLEAN, NEW t \in {"state", "disability"},
         Declare(i, Declaration(s, x, b, real[i].time + 1), t),
         t = "disability" => s = real[i].state /\ x = real[i].expected,
         t = "state" => b = real[i].disabled
  PROVE  AllFit'
<1> DEFINE d == Declaration(s, x, b, real[i].time + 1)
           e == [type |-> t, declared |-> d]
<1>1. i \in Supervisors
  BY DEF Inv, TypeOK
<1>2. d \in Info
  BY <1>1, RealFacts, DeclarationFacts DEF Inv
<1>3. d.state = s /\ d.expected = x /\ d.disabled = b
  BY DEF Declaration
<1>4. /\ real' = [real EXCEPT ![i] = d] /\ Publish(i, e) /\ installed' = installed
      /\ UNCHANGED <<link, sees, shake, ignored, view>>
  BY DEF Declare
<1> HIDE DEF d
<1>5. e \in Event /\ e.type = t /\ e.declared = d
  BY <1>2 DEF Event
<1>6. /\ real'[i] = d
      /\ \A j \in Supervisors \ {i} :
           real'[j] = real[j] /\ (j \in installed' <=> j \in installed)
  BY <1>1, <1>4 DEF Inv, TypeOK
<1> HIDE DEF e
<1>7. Tells(e, real[i], i, installed, real'[i], installed')
  BY <1>3, <1>4, <1>5, <1>6 DEF Tells, Agrees
<1> QED  BY <1>1, <1>4, <1>5, <1>6, <1>7, PublishFits

LEMMA EvolveFits ==
  ASSUME Inv, AllFit, NEW i \in Supervisors, Evolve(i)
  PROVE  AllFit'
<1>1. PICK s \in Successors(real[i].state), e \in BOOLEAN :
        Declare(i, Declaration(s, e, real[i].disabled, real[i].time + 1), "state")
  BY DEF Evolve
<1>2. s \in ProcessStates /\ real[i].disabled \in BOOLEAN /\ i \in installed
  BY RealFacts, SuccessorsFacts DEF Inv, Evolve
<1> QED  BY <1>1, <1>2, DeclareFits

LEMMA ToggleFits ==
  ASSUME Inv, AllFit, NEW i \in Supervisors, Toggle(i)
  PROVE  AllFit'
<1>1. PICK b \in BOOLEAN :
        Declare(i, Declaration(real[i].state, real[i].expected, b, real[i].time + 1),
                "disability")
  BY DEF Toggle
<1>2. real[i].state \in ProcessStates /\ real[i].expected \in BOOLEAN /\ i \in installed
  BY RealFacts DEF Inv, Toggle
<1> QED  BY <1>1, <1>2, DeclareFits

LEMMA UninstallFits ==
  ASSUME Inv, AllFit, NEW i \in Supervisors, Uninstall(i)
  PROVE  AllFit'
<1> DEFINE e == [type |-> "removed", declared |-> real[i]]
<1>1. /\ i \in installed /\ installed' = installed \ {i} /\ Publish(i, e)
      /\ UNCHANGED <<real, link, sees, shake, ignored, view>>
  BY DEF Uninstall
<1>2. e \in Event /\ e.type = "removed" /\ e.declared = real[i]
  BY DEF Event, Inv, TypeOK
<1> HIDE DEF e
<1>3. Tells(e, real[i], i, installed, real'[i], installed')
  BY <1>1, <1>2 DEF Tells, Agrees
<1>4. \A j \in Supervisors \ {i} : real'[j] = real[j] /\ (j \in installed' <=> j \in installed)
  BY <1>1
<1> QED  BY <1>1, <1>2, <1>3, <1>4, PublishFits

LEMMA InstallFits ==
  ASSUME Inv, AllFit, NEW i \in Supervisors, Install(i)
  PROVE  AllFit'
<1> DEFINE d == Declaration("STOPPED", TRUE, FALSE, real[i].time + 1)
           e == [type |-> "added", declared |-> d]
<1>1. /\ i \notin installed /\ installed' = installed \cup {i} /\ Publish(i, e)
      /\ real' = [real EXCEPT ![i] = d]
      /\ UNCHANGED <<link, sees, shake, ignored, view>>
  BY DEF Install
<1>2. d \in Info
  BY RealFacts, DeclarationFacts DEF Inv, ProcessStates, StoppedStates
<1> HIDE DEF d
<1>3. e \in Event /\ e.type = "added" /\ e.declared = d
  BY <1>2 DEF Event
<1> HIDE DEF e
<1>4. /\ real'[i] = d
      /\ \A j \in Supervisors \ {i} :
           real'[j] = real[j] /\ (j \in installed' <=> j \in installed)
  BY <1>1 DEF Inv, TypeOK
<1>5. Tells(e, real[i], i, installed, real'[i], installed')
  BY <1>1, <1>3, <1>4 DEF Tells, Agrees
<1> QED  BY <1>1, <1>3, <1>4, <1>5, PublishFits

LEMMA RestartFits ==
  ASSUME Inv, AllFit, NEW i \in Supervisors, Restart(i)
  PROVE  AllFit'
<1> SUFFICES ASSUME NEW o \in Observers, NEW j \in Supervisors PROVE Fits(o, j)'
  BY DEF AllFit
<1>1. UNCHANGED <<installed, link, sees, channel, shake, ignored, view, missed>>
  BY DEF Restart
<1>2. CASE j # i
  <2>1. Untouched(o, j)
    BY <1>1, <1>2 DEF Restart, Untouched, Same, Agrees, Inv, TypeOK
  <2> QED  BY <2>1, UntouchedFits DEF AllFit
<1>3. CASE j = i
  <2>1. link[o][i] = "STOPPED" /\ channel[o][i] = <<>>
    BY DEF Restart
  <2>2. shake[o][i].phase = "none"
    BY <2>1 DEF AllFit, Fits
  <2>3. ~Trusts(o, i)' /\ ~Awaits(o, i)'
    BY <1>1, <2>1, <2>2 DEF Trusts, Awaits
  <2> QED  BY <1>1, <1>3, <2>1, <2>2, <2>3, EmptyHealthy DEF Fits
<1> QED  BY <1>2, <1>3

LEMMA SeeFits ==
  ASSUME Inv, AllFit, NEW i \in Supervisors, See(i)
  PROVE  AllFit'
<1> SUFFICES ASSUME NEW o \in Observers, NEW j \in Supervisors PROVE Fits(o, j)'
  BY DEF AllFit
<1>1. Untouched(o, j)
  BY DEF See, Untouched, Same, Agrees, Inv, TypeOK
<1> QED  BY <1>1, UntouchedFits DEF AllFit

-----------------------------------------------------------------------------
(* A step of one observer about one Supervisor.                            *)

LEMMA OthersFit ==
  ASSUME AllFit, NEW o \in Observers, NEW i \in Supervisors, Fits(o, i)',
         \A n \in Observers, j \in Supervisors : <<n, j>> # <<o, i>> => Untouched(n, j)
  PROVE  AllFit'
<1> SUFFICES ASSUME NEW n \in Observers, NEW j \in Supervisors PROVE Fits(n, j)'
  BY DEF AllFit
<1>1. CASE <<n, j>> # <<o, i>>
  BY <1>1, UntouchedFits DEF AllFit
<1>2. CASE <<n, j>> = <<o, i>>
  <2>1. n = o /\ j = i
    BY <1>2
  <2> QED  BY <2>1
<1> QED  BY <1>1, <1>2

LEMMA CheckFits ==
  ASSUME Inv, AllFit, NEW o \in Observers, NEW i \in Supervisors, Check(o, i)
  PROVE  AllFit'
<1>1. \A n \in Observers, j \in Supervisors : <<n, j>> # <<o, i>> => Untouched(n, j)
  BY DEF Check, Untouched, Same, Agrees, Inv, TypeOK
<1>2. UNCHANGED <<real, installed, sees, channel, view, missed>>
  BY DEF Check
<1>3. link'[o][i] = "CHECKING" /\ shake'[o][i].phase = "asked"
  BY DEF Check, Shake, Inv, TypeOK
<1>4. ~Trusts(o, i)' /\ ~Awaits(o, i)'
  BY <1>3 DEF Trusts, Awaits
<1>5. Fits(o, i)'
  BY <1>2, <1>3, <1>4 DEF AllFit, Fits
<1> QED  BY <1>1, <1>5, OthersFit

(* What is answered is the truth.                                          *)
LEMMA AnswerFits ==
  ASSUME Inv, AllFit, "slow" \notin Features,
         NEW o \in Observers, NEW i \in Supervisors, Answer(o, i)
  PROVE  AllFit'
<1> DEFINE d == Declaration(real[i].state, real[i].expected, real[i].disabled, real[i].time + 1)
<1>1. /\ real' = [real EXCEPT ![i] = d]
      /\ shake' = [shake EXCEPT ![o][i] = Shake("answered", i \in installed, d)]
      /\ missed' = [missed EXCEPT ![o] = @ \ {i}]
      /\ shake[o][i].phase = "asked"
      /\ UNCHANGED <<installed, link, sees, channel, ignored, view>>
  BY DEF Answer
<1>2. d.state = real[i].state /\ d.expected = real[i].expected /\ d.disabled = real[i].disabled
  BY DEF Declaration
<1> HIDE DEF d
<1>3. real'[i] = d /\ \A j \in Supervisors \ {i} : real'[j] = real[j]
  BY <1>1 DEF Inv, TypeOK
<1>4. \A j \in Supervisors : Same(real[j], real'[j])
  BY <1>2, <1>3 DEF Same, Agrees
<1>5. ASSUME NEW n \in Observers, NEW j \in Supervisors, <<n, j>> # <<o, i>>
      PROVE  Untouched(n, j)
  <2>1. shake'[n][j] = shake[n][j]
    BY <1>1, <1>5 DEF Inv, TypeOK
  <2>2. j \in missed'[n] <=> j \in missed[n]
    BY <1>1, <1>5 DEF Inv, TypeOK
  <2> QED  BY <1>1, <1>4, <2>1, <2>2 DEF Untouched
<1>6. shake'[o][i] = Shake("answered", i \in installed, d)
  BY <1>1 DEF Inv, TypeOK
<1>7. /\ shake'[o][i].phase = "answered" /\ shake'[o][i].declared = d
      /\ shake'[o][i].known <=> i \in installed
  <2>1. CASE i \in installed
    <3>1. shake'[o][i] = Shake("answered", TRUE, d)
      BY <1>6, <2>1, Zenon
    <3> QED  BY <2>1, <3>1 DEF Shake
  <2>2. CASE i \notin installed
    <3>1. (i \in installed) = FALSE
      BY <2>2
    <3>2. shake'[o][i] = Shake("answered", FALSE, d)
      BY <1>6, <3>1, Zenon
    <3> QED  BY <2>2, <3>2 DEF Shake
  <2> QED  BY <2>1, <2>2
<1>8. link[o][i] = "CHECKING"
  BY <1>1 DEF AllFit, Fits
<1>9. Healthy(channel'[o][i], real'[i], i, installed')
  BY <1>1, <1>4, SameHealthy DEF AllFit, Fits
<1>10. Trusts(o, i)' => Settled(channel'[o][i], real'[i], i, installed', view'[o])
  BY <1>1, <1>7, <1>8 DEF Trusts, Settled
<1>11. Awaits(o, i)' => Answered(channel'[o][i], real'[i], i, installed', shake'[o][i].declared)
  BY <1>1, <1>3, <1>7 DEF Awaits, Answered, Agrees
<1>12. Fits(o, i)'
  BY <1>1, <1>7, <1>8, <1>9, <1>10, <1>11 DEF AllFit, Fits
<1> QED  BY <1>5, <1>12, OthersFit

LEMMA LoadFits ==
  ASSUME Inv, AllFit, NEW o \in Observers, NEW i \in Supervisors, LoadProcesses(o, i)
  PROVE  AllFit'
<1> DEFINE h == shake[o][i]
<1>1. /\ h.phase = "answered" /\ link[o][i] = "CHECKING"
      /\ shake' = [shake EXCEPT ![o][i] = Shake("loaded", h.known, h.declared)]
      /\ view' = IF h.known THEN [view EXCEPT ![o] = AddInfo(view[o], i, h.declared)] ELSE view
      /\ UNCHANGED <<real, installed, link, sees, channel, ignored, missed>>
  BY DEF LoadProcesses
<1>2. h.declared \in Info /\ h.known \in BOOLEAN /\ Sound(view[o])
  BY SoundView DEF Inv, TypeOK, Shakes
<1>3. h.known => /\ Knows(view'[o], i) /\ view'[o].info[i] = h.declared
                 /\ Keeps(view[o], view'[o], i)
  <2>1. h.known => view'[o] = AddInfo(view[o], i, h.declared)
    BY <1>1 DEF Inv, TypeOK
  <2> QED  BY <1>2, <2>1, DeclaredInfo
<1>4. ASSUME NEW n \in Observers, NEW j \in Supervisors, <<n, j>> # <<o, i>>
      PROVE  Untouched(n, j)
  <2>1. shake'[n][j] = shake[n][j]
    BY <1>1, <1>4 DEF Inv, TypeOK
  <2>2. n # o => view'[n] = view[n]
    BY <1>1 DEF Inv, TypeOK
  <2>3. n = o => (Knows(view'[n], j) <=> Knows(view[n], j))
                 /\ (Knows(view[n], j) => view'[n].info[j] = view[n].info[j])
    BY <1>1, <1>3, <1>4 DEF Keeps
  <2> QED  BY <1>1, <2>1, <2>2, <2>3 DEF Untouched, Same, Agrees
<1>5. shake'[o][i].phase = "loaded" /\ channel[o][i] \in Seq(Event)
  BY <1>1 DEF Shake, Inv, TypeOK
<1>6. Fits(o, i)
  BY DEF AllFit
<1>7. ASSUME i \notin missed'[o], Trusts(o, i)'
      PROVE  Settled(channel'[o][i], real'[i], i, installed', view'[o])
  <2>1. i \notin ignored[o] /\ i \notin missed[o]
    BY <1>1, <1>7 DEF Trusts
  <2>2. CASE h.known
    <3>1. Answered(channel[o][i], real[i], i, installed, h.declared)
      BY <1>1, <1>6, <2>1, <2>2 DEF Fits, Awaits
    <3> QED  BY <1>1, <1>3, <1>5, <1>6, <2>2, <3>1, LoadedSettled DEF Fits
  <2>3. CASE ~h.known
    BY <1>1, <1>6, <2>1, <2>3 DEF Fits, Trusts
  <2> QED  BY <2>2, <2>3
<1>8. Fits(o, i)'
  BY <1>1, <1>5, <1>6, <1>7 DEF Fits, Awaits
<1> QED  BY <1>4, <1>8, OthersFit

(* The instance is accepted, and the view relied on, only if no event has  *)
(* been ignored.                                                           *)
LEMMA AuthorizationFits ==
  ASSUME Inv, AllFit, NEW o \in Observers, NEW i \in Supervisors, OnAuthorization(o, i)
  PROVE  AllFit'
<1>1. \A n \in Observers, j \in Supervisors : <<n, j>> # <<o, i>> => Untouched(n, j)
  BY DEF OnAuthorization, Untouched, Same, Agrees, Inv, TypeOK
<1>2. /\ shake[o][i].phase = "loaded"
      /\ UNCHANGED <<real, installed, sees, channel, view, missed>>
  BY DEF OnAuthorization
<1>3. /\ link'[o][i] = IF i \in ignored[o] THEN "STOPPED" ELSE "CHECKED"
      /\ shake'[o][i].phase = "none"
  BY DEF OnAuthorization, Absent, Shake, Inv, TypeOK
<1>4. Trusts(o, i)' => Trusts(o, i)
  BY <1>2, <1>3 DEF Trusts
<1>5. Fits(o, i)'
  BY <1>2, <1>3, <1>4 DEF AllFit, Fits, Awaits
<1> QED  BY <1>1, <1>5, OthersFit

(* An event is applied to the view, or has the handshake refused.          *)
LEMMA EventFits ==
  ASSUME Inv, AllFit, NEW o \in Observers, NEW i \in Supervisors, OnProcessEvent(o, i)
  PROVE  AllFit'
<1> DEFINE q == channel[o][i]
           e == Head(q)
           used == link[o][i] = "CHECKED" \/ e.type = "added"
<1>1. /\ q \in Seq(Event) /\ q # <<>> /\ Sound(view[o])
      /\ channel' = [channel EXCEPT ![o][i] = Tail(q)]
      /\ ignored' = [ignored EXCEPT ![o] = IF link[o][i] = "CHECKING" /\ e.type # "added"
                                           THEN ignored[o] \cup {i} ELSE ignored[o]]
      /\ view' = IF used THEN [view EXCEPT ![o] = Applied(view[o], i, e)] ELSE view
      /\ UNCHANGED <<real, installed, link, sees, shake, missed>>
  BY SoundView DEF OnProcessEvent, Inv, TypeOK
<1>2. e \in Event
  BY <1>1, TailFacts
<1>3. used => view'[o] = Applied(view[o], i, e)
  BY <1>1 DEF Inv, TypeOK
<1>4. used => Keeps(view[o], view'[o], i)
  BY <1>1, <1>2, <1>3, AppliedInfo
<1>5. channel'[o][i] = Tail(q)
  BY <1>1 DEF Inv, TypeOK
<1>6. ignored[o] \subseteq ignored'[o]
      /\ (i \notin ignored'[o] => ~(link[o][i] = "CHECKING" /\ e.type # "added"))
  BY <1>1 DEF Inv, TypeOK
<1> HIDE DEF e
<1>7. ASSUME NEW n \in Observers, NEW j \in Supervisors, <<n, j>> # <<o, i>>
      PROVE  Untouched(n, j)
  <2>1. channel'[n][j] = channel[n][j]
    BY <1>1, <1>7 DEF Inv, TypeOK
  <2>2. j \in ignored'[n] <=> j \in ignored[n]
    BY <1>1, <1>7 DEF Inv, TypeOK
  <2>3. n # o \/ ~used => view'[n] = view[n]
    BY <1>1 DEF Inv, TypeOK
  <2>4. n = o /\ used => (Knows(view'[n], j) <=> Knows(view[n], j))
                         /\ (Knows(view[n], j) => view'[n].info[j] = view[n].info[j])
    BY <1>4, <1>7 DEF Keeps
  <2> QED  BY <1>1, <2>1, <2>2, <2>3, <2>4 DEF Untouched, Same, Agrees
<1>8. Fits(o, i)
  BY DEF AllFit
<1> HIDE DEF used
<1>9. Healthy(Tail(q), real[i], i, installed)
  BY <1>1, <1>8, TailHealthy DEF Fits
<1>10. ASSUME i \notin missed'[o], Trusts(o, i)'
       PROVE  Settled(Tail(q), real[i], i, installed, view'[o])
  <2>1. Trusts(o, i) /\ i \notin missed[o] /\ (link[o][i] = "CHECKED" \/ link[o][i] = "CHECKING")
    BY <1>1, <1>6, <1>8, <1>10 DEF Trusts, Fits
  <2>2. used
    BY <1>1, <1>6, <1>10, <2>1 DEF Trusts, used
  <2>3. Settled(q, real[i], i, installed, view[o])
    BY <1>8, <2>1 DEF Fits
  <2>4. view'[o] = Applied(view[o], i, Head(q))
    BY <1>3, <2>2 DEF e
  <2> QED  BY <1>1, <1>8, <2>3, <2>4, HandledSettled DEF Fits
<1>11. ASSUME i \notin missed'[o], Awaits(o, i)'
       PROVE  Answered(Tail(q), real[i], i, installed, shake[o][i].declared)
  <2>1. Awaits(o, i) /\ i \notin missed[o] /\ link[o][i] = "CHECKING"
    BY <1>1, <1>6, <1>8, <1>11 DEF Awaits, Fits
  <2>2. e.type = "added"
    BY <1>6, <1>11, <2>1 DEF Awaits
  <2>3. Answered(q, real[i], i, installed, shake[o][i].declared)
    BY <1>8, <2>1 DEF Fits
  <2>4. \A T : "added" \notin T => (Marked(q, T) <=> Marked(Tail(q), T))
    BY <1>1, <2>2, MarkedTail DEF e
  <2> QED  BY <2>3, <2>4 DEF Answered
<1>12. Fits(o, i)'
  <2>1. o \notin sees'[i] => channel'[o][i] = <<>>
    BY <1>1, <1>8 DEF Fits
  <2> QED  BY <1>1, <1>5, <1>8, <1>9, <1>10, <1>11, <2>1 DEF Fits
<1> QED  BY <1>7, <1>12, OthersFit

LEMMA LoseFits ==
  ASSUME Inv, AllFit, NEW o \in Observers, NEW i \in Supervisors, Lose(o, i)
  PROVE  AllFit'
<1>1. \A n \in Observers, j \in Supervisors : <<n, j>> # <<o, i>> => Untouched(n, j)
  BY DEF Lose, Untouched, Same, Agrees, Inv, TypeOK
<1>2. link'[o][i] = "FAILED" /\ shake'[o][i].phase = "none" /\ channel'[o][i] = <<>>
  BY DEF Lose, Absent, Shake, Inv, TypeOK
<1>3. ~Trusts(o, i)' /\ ~Awaits(o, i)'
  BY <1>2 DEF Trusts, Awaits
<1>4. Fits(o, i)'
  BY <1>2, <1>3, EmptyHealthy DEF Fits
<1> QED  BY <1>1, <1>4, OthersFit

LEMMA InvalidateFailedFits ==
  ASSUME Inv, AllFit, NEW o \in Observers, NEW i \in Supervisors, InvalidateFailed(o, i)
  PROVE  AllFit'
<1>1. /\ link[o][i] = "FAILED"
      /\ link' = [link EXCEPT ![o][i] = "STOPPED"]
      /\ ignored' = [ignored EXCEPT ![o] = @ \ {i}]
      /\ UNCHANGED <<real, installed, sees, channel, shake, missed>>
  BY DEF InvalidateFailed
<1>2. Keeps(view[o], view'[o], i) /\ \A n \in Observers \ {o} : view'[n] = view[n]
  <2>1. CASE RunningOn(view[o], i) /\ Knows(view[o], i)
    <3>1. PICK time \in view[o].info[i].time..real[i].time :
            view' = [view EXCEPT ![o] = InvalidateIdentifier(@, i, time)]
      BY <2>1 DEF InvalidateFailed
    <3>2. view[o].info[i].time \in Nat /\ real[i].time \in Nat
      BY <2>1 DEF Inv, TypeOK, IsProcessStatus, Knows, Info
    <3>3. time \in Nat
      BY <3>1, <3>2
    <3>4. Keeps(view[o], InvalidateIdentifier(view[o], i, time), i)
      BY <2>1, <3>3, SoundView, InvalidatedInfo
    <3> QED  BY <3>1, <3>4 DEF Inv, TypeOK
  <2>2. CASE ~(RunningOn(view[o], i) /\ Knows(view[o], i))
    BY <2>2 DEF InvalidateFailed, Keeps
  <2> QED  BY <2>1, <2>2
<1>3. ASSUME NEW n \in Observers, NEW j \in Supervisors, <<n, j>> # <<o, i>>
      PROVE  Untouched(n, j)
  <2>1. link'[n][j] = link[n][j] /\ (j \in ignored'[n] <=> j \in ignored[n])
    BY <1>1, <1>3 DEF Inv, TypeOK
  <2>2. (Knows(view'[n], j) <=> Knows(view[n], j))
        /\ (Knows(view[n], j) => view'[n].info[j] = view[n].info[j])
    BY <1>2, <1>3 DEF Keeps
  <2> QED  BY <1>1, <2>1, <2>2 DEF Untouched, Same, Agrees
<1>4. link'[o][i] = "STOPPED" /\ shake'[o][i].phase = "none"
  BY <1>1 DEF AllFit, Fits, Inv, TypeOK
<1>5. ~Trusts(o, i)' /\ ~Awaits(o, i)'
  BY <1>4 DEF Trusts, Awaits
<1>6. Fits(o, i)'
  BY <1>1, <1>4, <1>5 DEF AllFit, Fits
<1> QED  BY <1>3, <1>6, OthersFit

(* A forced state is no declaration.                                       *)
LEMMA ForcedFits ==
  ASSUME Inv, AllFit, NEW o \in Observers, NEW i, NEW time, NEW s,
         view' = [view EXCEPT ![o] = ForceState(@, i, time, s)],
         UNCHANGED <<real, installed, link, sees, channel, shake, ignored, missed>>
  PROVE  AllFit'
<1>1. \A n \in Observers : view'[n].info = view[n].info
  BY SoundView, ForcedInfo DEF Inv, TypeOK
<1>2. \A n \in Observers, j \in Supervisors : Untouched(n, j)
  BY <1>1 DEF Untouched, Same, Agrees, Knows
<1> QED  BY <1>2, UntouchedFits DEF AllFit

LEMMA ForceFits ==
  ASSUME Inv, AllFit, NEW i \in Supervisors, ForceProcessState(i)
  PROVE  AllFit'
<1>1. PICK s \in {"FATAL", "STOPPED"} :
        view' = [view EXCEPT ![Master] = ForceState(@, i, view[Master].info[i].time, s)]
  BY DEF ForceProcessState
<1>2. UNCHANGED <<real, installed, link, sees, channel, shake, ignored, missed>>
  BY DEF ForceProcessState
<1> QED  BY <1>1, <1>2, ForcedFits, ViewAssumption

LEMMA ForcedEventFits ==
  ASSUME Inv, AllFit, NEW o \in Observers, OnForcedEvent(o)
  PROVE  AllFit'
<1> DEFINE a == Head(orders[o])
<1>1. /\ view' = [view EXCEPT ![o] = ForceState(@, a.target, a.time, a.state)]
      /\ UNCHANGED <<real, installed, link, sees, channel, shake, ignored, missed>>
  BY DEF OnForcedEvent
<1> HIDE DEF a
<1> QED  BY <1>1, ForcedFits

-----------------------------------------------------------------------------
LEMMA InitFits == Init => AllFit
<1> SUFFICES ASSUME Init, NEW o \in Observers, NEW i \in Supervisors PROVE Fits(o, i)
  BY DEF AllFit
<1>1. /\ link[o][i] = "STOPPED" /\ channel[o][i] = <<>> /\ shake[o][i] = Absent
  BY DEF Init
<1>2. shake[o][i].phase = "none"
  BY <1>1 DEF Absent, Shake
<1>3. ~Trusts(o, i) /\ ~Awaits(o, i)
  BY <1>1, <1>2 DEF Trusts, Awaits
<1> QED  BY <1>1, <1>2, <1>3, EmptyHealthy DEF Fits

LEMMA StepFits ==
  ASSUME "slow" \notin Features
  PROVE  Inv /\ AllFit /\ [Next]_vars => AllFit'
<1> SUFFICES ASSUME Inv, AllFit, [Next]_vars PROVE AllFit'
  OBVIOUS
<1>1. ASSUME NEW i \in Supervisors,
             Evolve(i) \/ Toggle(i) \/ Uninstall(i) \/ Install(i) \/ Restart(i)
               \/ See(i) \/ ForceProcessState(i)
      PROVE  AllFit'
  BY <1>1, EvolveFits, ToggleFits, UninstallFits, InstallFits, RestartFits, SeeFits, ForceFits
<1>2. ASSUME NEW o \in Observers, NEW i \in Supervisors,
             Check(o, i) \/ Answer(o, i) \/ LoadProcesses(o, i) \/ OnAuthorization(o, i)
               \/ OnProcessEvent(o, i) \/ Lose(o, i) \/ InvalidateFailed(o, i)
      PROVE  AllFit'
  BY <1>2, CheckFits, AnswerFits, LoadFits, AuthorizationFits, EventFits, LoseFits,
     InvalidateFailedFits
<1>3. ASSUME NEW o \in Observers, NEW i \in Supervisors, TransferProcessInfo(o, i)
      PROVE  AllFit'
  BY <1>3 DEF TransferProcessInfo, AllFit, Fits
<1>4. ASSUME NEW o \in Observers, OnForcedEvent(o)
      PROVE  AllFit'
  BY <1>4, ForcedEventFits
<1>5. CASE UNCHANGED vars
  <2>1. \A o \in Observers, i \in Supervisors : Untouched(o, i)
    BY <1>5 DEF vars, Untouched, Same, Agrees
  <2> QED  BY <2>1, UntouchedFits DEF AllFit
<1> QED  BY <1>1, <1>2, <1>3, <1>4, <1>5 DEF Next

LEMMA FitsFaithful == Inv /\ AllFit => Faithful
<1> SUFFICES ASSUME Inv, AllFit, NEW o \in Observers, NEW i \in installed,
                    link[o][i] = "CHECKED", channel[o][i] = <<>>, i \notin missed[o]
             PROVE  /\ Knows(view[o], i)
                    /\ view[o].info[i].state = real[i].state
                    /\ view[o].info[i].disabled = real[i].disabled
                    /\ view[o].info[i].expected = real[i].expected
  BY DEF Faithful
<1>1. Settled(<<>>, real[i], i, installed, view[o])
  BY DEF Inv, TypeOK, AllFit, Fits, Trusts
<1> QED  BY <1>1, NoMark DEF Settled, Agrees

(* Once the events of an accepted instance are consumed, the view tells    *)
(* what its Supervisor knows, whatever was published, lost, restarted,     *)
(* disabled, removed or forced meanwhile, and even if events published     *)
(* before the answer of the handshake come after it: provided that the     *)
(* proxy thread transfers the answer as soon as it gets it.                *)
THEOREM FaithfulAlways ==
  ASSUME "slow" \notin Features
  PROVE  Spec => []Faithful
<1>1. Inv /\ AllFit /\ [Next]_vars => Inv' /\ AllFit'
  BY StepInv, StepFits
<1>2. Init => Inv /\ AllFit
  BY InitInv, InitFits
<1>3. Inv /\ AllFit => Faithful
  BY FitsFaithful
<1> QED  BY <1>1, <1>2, <1>3, PTL DEF Spec
=============================================================================
