--------------------------- MODULE ProgramsProofs ---------------------------
(***************************************************************************)
(* Proofs about Programs: its types, and Counted, for any groups, any      *)
(* numbers of processes and any number of users.                           *)
(***************************************************************************)
EXTENDS Programs, TLAPS

(* The processes of Supervisor, and what is left when it does not run.     *)
Processes ==
  /\ DOMAIN procs \subseteq Names /\ procs \in [DOMAIN procs -> States]
  /\ obsolete \subseteq DOMAIN procs
Nothing == up # "up" => DOMAIN procs = {}
Inv == TypeOK /\ Counted /\ Nothing

(* The variables that the processes do not depend on.                      *)
Others ==
  /\ up \in {"up", "down", "broken"}
  /\ numprocs \in 1..MaxNumprocs
  /\ disabled \in BOOLEAN
  /\ file \in {"enabled", "disabled", "truncated"}
  /\ wished \in BOOLEAN
  /\ asked \subseteq Orders /\ commands \subseteq Orders
  /\ waiting \subseteq Requests
  /\ uses \in 0..MaxUses

LEMMA TypeParts == TypeOK <=> Others /\ Processes
  BY DEF TypeOK, Others, Processes

LEMMA PartsNext == Others' /\ Processes' /\ Counted' /\ Nothing' => Inv'
  BY DEF Inv, TypeOK, Others, Processes

(* Deleting a process that is obsolete, or telling its state, leaves the   *)
(* processes that are not obsolete as they were.                           *)
LEMMA StateKeeps ==
  ASSUME Processes, commands \subseteq Orders,
         NEW p \in Known, NEW s \in States, OnProcessState(p, s)
  PROVE  /\ Processes' /\ (commands \subseteq Orders)'
         /\ (Known \ obsolete)' = Known \ obsolete
<1>1. commands' \subseteq Orders
  BY DEF OnProcessState, Remaining
<1>2. CASE p \in obsolete /\ s \in {"STOPPED", "BACKOFF"}
  <2>1. procs' = Without({p}) /\ obsolete' = obsolete \ {p}
    BY <1>2 DEF OnProcessState, UpdateStop
  <2>2. DOMAIN procs' = Known \ {p} /\ \A q \in DOMAIN procs' : procs'[q] = procs[q]
    BY <2>1 DEF Without
  <2>3. Processes'
    BY <2>1, <2>2 DEF Processes, Known, Without
  <2> QED  BY <1>1, <1>2, <2>1, <2>2, <2>3 DEF Known
<1>3. CASE ~(p \in obsolete /\ s \in {"STOPPED", "BACKOFF"})
  <2>1. procs' = [procs EXCEPT ![p] = s] /\ obsolete' = obsolete
    BY <1>3 DEF OnProcessState, UpdateStop
  <2> QED  BY <1>1, <2>1 DEF Processes, Known
<1> QED  BY <1>2, <1>3

LEMMA InitInv == Init => Inv
<1> SUFFICES ASSUME Init PROVE Inv
  OBVIOUS
<1>1. Configured \in 1..MaxNumprocs /\ MaxNumprocs \in Nat /\ MaxUses \in Nat
  BY ProgramsAssumption
<1>2. Upto(0, Configured) \subseteq Names
  BY <1>1 DEF Upto, Names
<1>3. DOMAIN procs = Upto(0, Configured) /\ procs \in [DOMAIN procs -> States]
  BY DEF Init, States, StoppedStates
<1>4. Processes
  BY <1>2, <1>3 DEF Init, Processes
<1>5. Others
  <2>1. disabled \in BOOLEAN /\ wished \in BOOLEAN
    BY Zenon DEF Init
  <2> QED  BY <1>1, <2>1 DEF Init, Others
<1>6. Counted /\ Nothing
  BY <1>3 DEF Init, Counted, Nothing, Current, Known
<1> QED  BY <1>4, <1>5, <1>6, TypeParts DEF Inv

(* The steps of Supervisor: it runs, and its processes declare their state.*)
LEMMA LifeKeeps ==
  ASSUME Inv, up = "up", Quiet, asked' \subseteq asked,
         NEW p \in Names, NEW s \in States,
         \/ p \in Known /\ OnProcessState(p, s)
         \/ UNCHANGED <<procs, obsolete>> /\ commands' \subseteq commands
  PROVE  Inv'
<1>1. Others /\ Processes
  BY TypeParts DEF Inv
<1>2. Processes' /\ commands' \subseteq Orders /\ (Known \ obsolete)' = Known \ obsolete
  <2>1. CASE p \in Known /\ OnProcessState(p, s)
    BY <1>1, <2>1, StateKeeps DEF Others
  <2>2. CASE UNCHANGED <<procs, obsolete>> /\ commands' \subseteq commands
    BY <1>1, <2>2 DEF Others, Processes, Known
  <2> QED  BY <2>1, <2>2
<1>3. Others'
  BY <1>1, <1>2 DEF Others, Quiet
<1>4. up' = "up" /\ numprocs' = numprocs
  BY DEF Quiet
<1>5. Counted' /\ Nothing'
  BY <1>2, <1>4 DEF Inv, Counted, Nothing, Current
<1> QED  BY <1>2, <1>3, <1>5, PartsNext
LEMMA LifeInv == Inv /\ Life => Inv'
<1> SUFFICES ASSUME Inv, NEW p \in Names,
                    Spawn(p) \/ Evolve(p) \/ Stopped(p) \/ StartProcess(p) \/ StopProcess(p)
             PROVE  Inv'
  BY DEF Life
<1>1. {"STOPPED", "STARTING", "RUNNING", "BACKOFF", "STOPPING", "FATAL"} \subseteq States
  BY DEF States, StoppedStates, RunningStates
<1>2. CASE Spawn(p)
  BY <1>1, <1>2, LifeKeeps DEF Spawn
<1>3. CASE Evolve(p)
  <2>1. PICK s \in {"RUNNING", "BACKOFF", "STOPPED", "FATAL"} : OnProcessState(p, s)
    BY <1>3 DEF Evolve
  <2> QED  BY <1>1, <1>3, <2>1, LifeKeeps DEF Evolve
<1>4. CASE Stopped(p)
  BY <1>1, <1>4, LifeKeeps DEF Stopped
<1>5. CASE StartProcess(p)
  BY <1>1, <1>5, LifeKeeps DEF StartProcess
<1>6. CASE StopProcess(p)
  BY <1>1, <1>6, LifeKeeps DEF StopProcess
<1> QED  BY <1>2, <1>3, <1>4, <1>5, <1>6

-----------------------------------------------------------------------------
(* The requests of the users.                                              *)

LEMMA UseKeeps == Inv /\ Use => up = "up" /\ uses' \in 0..MaxUses
  BY ProgramsAssumption DEF Use, Inv, TypeOK

LEMMA StopAllKeeps ==
  ASSUME Others, NEW names \in SUBSET Names, StopAll(names)
  PROVE  commands' \subseteq Orders /\ asked' \subseteq Orders
  BY DEF Others, StopAll, ToStop, Orders

LEMMA UserStartInv == ASSUME Inv, NEW p \in Names, UserStart(p) PROVE Inv'
<1>1. Others /\ up = "up" /\ uses' \in 0..MaxUses
  BY TypeParts, UseKeeps DEF Inv, UserStart
<1>2. <<"start", p>> \in Orders
  BY DEF Orders
<1>3. commands' \subseteq Orders /\ asked' \subseteq Orders
  BY <1>1, <1>2 DEF UserStart, Others
<1>4. Others'
  BY <1>1, <1>3 DEF UserStart, Others
<1>5. Processes' /\ Counted' /\ Nothing'
  BY TypeParts DEF UserStart, Inv, Processes, Counted, Nothing, Known, Current
<1> QED  BY <1>4, <1>5, PartsNext

(* The new processes, and those that are not obsolete any more, complete   *)
(* the current ones.                                                       *)
LEMMA IncreaseInv == ASSUME Inv, NEW n \in 1..MaxNumprocs, Increase(n) PROVE Inv'
<1> DEFINE names == NewProcesses(n)
<1>1. Others /\ Processes /\ up = "up" /\ uses' \in 0..MaxUses
  BY TypeParts, UseKeeps DEF Inv, Increase
<1>2. numprocs \in 1..MaxNumprocs /\ n > numprocs /\ MaxNumprocs \in Nat
  BY <1>1, ProgramsAssumption DEF Others, Increase
<1>3. names \subseteq Names /\ Upto(0, n) = Current \cup names
  BY <1>2 DEF Upto, Names, NewProcesses, Current
<1>4. /\ DOMAIN procs' = Known \cup names
      /\ procs' \in [DOMAIN procs' -> States]
      /\ obsolete' = obsolete \ names
  BY <1>1 DEF Increase, AddProcesses, Processes, Known, States, StoppedStates
<1>5. Processes'
  BY <1>1, <1>3, <1>4 DEF Processes, Known
<1>6. Others'
  BY <1>1 DEF Increase, Others
<1>7. Known \ obsolete = Current
  BY <1>1 DEF Inv, Counted
<1>8. Known' \ obsolete' = Upto(0, n)
  BY <1>3, <1>4, <1>7 DEF Known
<1>9. up' = "up" /\ numprocs' = n
  BY <1>1 DEF Increase
<1>10. Counted' /\ Nothing'
  BY <1>8, <1>9 DEF Counted, Nothing, Current
<1> QED  BY <1>5, <1>6, <1>10, PartsNext

(* The processes in excess are deleted or obsolete.                        *)
LEMMA DecreaseInv == ASSUME Inv, NEW n \in 1..MaxNumprocs, Decrease(n) PROVE Inv'
<1> DEFINE names == Excess(n) \ Deleted(n)
<1>1. Others /\ Processes /\ up = "up" /\ uses' \in 0..MaxUses
  BY TypeParts, UseKeeps DEF Inv, Decrease
<1>2. numprocs \in 1..MaxNumprocs /\ n < numprocs /\ MaxNumprocs \in Nat
  BY <1>1, ProgramsAssumption DEF Others, Decrease
<1>3. Known \ obsolete = Current
  BY <1>1 DEF Inv, Counted
<1>4. Excess(n) \subseteq Current /\ Upto(0, n) = Current \ Excess(n)
  BY <1>2 DEF Upto, Excess, Current
<1>5. Excess(n) \subseteq Known /\ Deleted(n) \subseteq Excess(n) /\ names \subseteq Names
  BY <1>1, <1>3, <1>4 DEF Deleted, Processes, Known
<1>6. /\ DOMAIN procs' = Known \ Deleted(n)
      /\ \A q \in DOMAIN procs' : procs'[q] = procs[q]
      /\ obsolete' = obsolete \cup names
  BY DEF Decrease, ObsoleteProcesses, Without
<1>7. Processes'
  <2>1. procs' = [q \in DOMAIN procs' |-> procs[q]]
    BY <1>6 DEF Decrease, ObsoleteProcesses, Without
  <2>2. procs' \in [DOMAIN procs' -> States]
    BY <1>1, <1>6, <2>1 DEF Processes, Known
  <2>3. obsolete \cap Deleted(n) = {}
    BY <1>3, <1>4, <1>5
  <2> QED  BY <1>1, <1>5, <1>6, <2>2, <2>3 DEF Processes, Known
<1>8. Known' \ obsolete' = Upto(0, n)
  BY <1>3, <1>4, <1>5, <1>6 DEF Known
<1>9. Others'
  <2>1. commands' \subseteq Orders /\ asked' \subseteq Orders
    BY <1>1, <1>5, StopAllKeeps DEF Decrease, Others
  <2>2. waiting' \subseteq Requests
    <3>1. [kind |-> "decrease", names |-> names, stops |-> ToStop(names),
           stopping |-> TRUE] \in Requests
      BY <1>5 DEF Requests, ToStop
    <3> QED  BY <1>1, <3>1 DEF Decrease, Defer, Others
  <2> QED  BY <1>1, <2>1, <2>2 DEF Decrease, Others
<1>10. up' = "up" /\ numprocs' = n
  BY <1>1 DEF Decrease
<1>11. Counted' /\ Nothing'
  BY <1>8, <1>10 DEF Counted, Nothing, Current
<1> QED  BY <1>7, <1>9, <1>11, PartsNext

LEMMA DisableInv == ASSUME Inv, Disable PROVE Inv'
<1>1. Others /\ Processes /\ up = "up" /\ uses' \in 0..MaxUses
  BY TypeParts, UseKeeps DEF Inv, Disable
<1>2. Current \subseteq Names
  BY <1>1, ProgramsAssumption DEF Others, Current, Upto, Names
<1>3. commands' \subseteq Orders /\ asked' \subseteq Orders
  BY <1>1, <1>2, StopAllKeeps DEF Disable
<1>4. waiting' \subseteq Requests
  <2>1. [kind |-> "disable", names |-> Current, stops |-> ToStop(Current),
         stopping |-> TRUE] \in Requests
    BY <1>2 DEF Requests, ToStop
  <2> QED  BY <1>1, <2>1 DEF Disable, Defer, Others
<1>5. file' \in {"enabled", "disabled", "truncated"} /\ disabled' \in BOOLEAN /\ wished' \in BOOLEAN
  BY DEF Disable, Persist, Content
<1>6. Others'
  BY <1>1, <1>3, <1>4, <1>5 DEF Disable, Others
<1>7. Processes' /\ Counted' /\ Nothing'
  BY <1>1 DEF Disable, Inv, Processes, Counted, Nothing, Known, Current
<1> QED  BY <1>6, <1>7, PartsNext

LEMMA EnableInv == ASSUME Inv, Enable PROVE Inv'
<1>1. Others /\ Processes /\ up = "up" /\ uses' \in 0..MaxUses
  BY TypeParts, UseKeeps DEF Inv, Enable
<1>2. Current \subseteq Names
  BY <1>1, ProgramsAssumption DEF Others, Current, Upto, Names
<1>3. waiting' \subseteq Requests
  <2>1. [kind |-> "enable", names |-> Current, stops |-> {}, stopping |-> FALSE] \in Requests
    BY <1>2 DEF Requests
  <2> QED  BY <1>1, <2>1 DEF Enable, Defer, Others
<1>4. file' \in {"enabled", "disabled", "truncated"} /\ disabled' \in BOOLEAN /\ wished' \in BOOLEAN
  BY DEF Enable, Persist, Content
<1>5. Others'
  BY <1>1, <1>3, <1>4 DEF Enable, Others
<1>6. DOMAIN procs' = Known /\ procs' \in [Known -> States]
  BY <1>1 DEF Enable, Processes, Known, States, RunningStates
<1>7. Processes' /\ Counted' /\ Nothing'
  BY <1>1, <1>6 DEF Enable, Inv, Processes, Counted, Nothing, Known, Current
<1> QED  BY <1>5, <1>7, PartsNext

LEMMA UsersInv == Inv /\ Users => Inv'
  BY UserStartInv, IncreaseInv, DecreaseInv, DisableInv, EnableInv DEF Users

-----------------------------------------------------------------------------
(* The time-outs, the polling, and the crashes.                            *)

LEMMA TimeOutInv == ASSUME Inv, NEW c \in commands, TimeOut(c) PROVE Inv'
<1>1. Others'
  BY TypeParts DEF TimeOut, Quiet, Inv, Others
<1>2. Processes' /\ Counted' /\ Nothing'
  BY TypeParts DEF TimeOut, Quiet, Inv, Processes, Counted, Nothing, Known, Current
<1> QED  BY <1>1, <1>2, PartsNext

LEMMA PollInv == ASSUME Inv, NEW r \in waiting, Poll(r) PROVE Inv'
<1>1. Others /\ r \in Requests
  BY TypeParts DEF Inv, Others
<1>2. [r EXCEPT !.stopping = FALSE] \in Requests
  BY <1>1 DEF Requests
<1>3. waiting' \subseteq Requests
  BY <1>1, <1>2 DEF Poll, Others
<1>4. Others'
  BY <1>1, <1>3 DEF Poll, Others
<1>5. Processes' /\ Counted' /\ Nothing'
  BY TypeParts DEF Poll, Inv, Processes, Counted, Nothing, Known, Current
<1> QED  BY <1>4, <1>5, PartsNext

LEMMA CrashInv == Inv /\ (Crash \/ Restart \/ RemoveFile) => Inv'
<1> SUFFICES ASSUME Inv, Crash \/ Restart \/ RemoveFile PROVE Inv'
  OBVIOUS
<1>1. Others /\ Processes
  BY TypeParts DEF Inv
<1>2. CASE Crash
  <2>1. DOMAIN procs' = {} /\ procs' \in [{} -> States] /\ obsolete' = {} /\ up' = "down"
    BY <1>2 DEF Crash, Without
  <2>2. file' \in {"enabled", "disabled", "truncated"} /\ uses' \in 0..MaxUses
    BY <1>1, <1>2, ProgramsAssumption DEF Crash, Others
  <2>3. Others'
    BY <1>1, <1>2, <2>2 DEF Crash, Others
  <2> QED  BY <2>1, <2>3, PartsNext DEF Processes, Counted, Nothing
<1>3. CASE Restart
  <2>1. Configured \in 1..MaxNumprocs /\ MaxNumprocs \in Nat
    BY ProgramsAssumption
  <2>2. Upto(0, Configured) \subseteq Names
    BY <2>1 DEF Upto, Names
  <2>3. disabled' \in BOOLEAN
    BY <1>3, Zenon DEF Restart
  <2>4. Others'
    BY <1>1, <1>3, <2>1, <2>3 DEF Restart, Others
  <2>5. DOMAIN procs = {} /\ obsolete = {} /\ obsolete' = {}
    BY <1>1, <1>3 DEF Restart, Inv, Nothing, Processes
  <2>6. CASE file = "truncated"
    BY <1>1, <1>3, <2>4, <2>5, <2>6, PartsNext DEF Restart, Processes, Counted, Nothing
  <2>7. CASE file # "truncated"
    <3>1. /\ DOMAIN procs' = Upto(0, Configured) /\ procs' \in [DOMAIN procs' -> States]
          /\ up' = "up" /\ numprocs' = Configured
      BY <1>3, <2>7 DEF Restart, States, StoppedStates
    <3> QED  BY <2>2, <2>4, <2>5, <3>1, PartsNext
             DEF Processes, Counted, Nothing, Known, Current
  <2> QED  BY <2>6, <2>7
<1>4. CASE RemoveFile
  <2>1. Others'
    BY <1>1, <1>4 DEF RemoveFile, Others
  <2>2. Processes' /\ Counted' /\ Nothing'
    BY <1>1, <1>4 DEF RemoveFile, Inv, Processes, Counted, Nothing
  <2> QED  BY <2>1, <2>2, PartsNext
<1> QED  BY <1>2, <1>3, <1>4

LEMMA StutterInv == Inv /\ UNCHANGED vars => Inv'
  BY DEF vars, Inv, TypeOK, Counted, Nothing, Known, Current

LEMMA InvAlways == Spec => []Inv
<1>1. Inv /\ [Next]_vars => Inv'
  BY LifeInv, UsersInv, TimeOutInv, PollInv, CrashInv, StutterInv DEF Next
<1> QED  BY InitInv, <1>1, PTL DEF Spec

-----------------------------------------------------------------------------
(* The state of the program, of its processes, and of the requests about   *)
(* it keep their types, for any groups and numbers of processes: the       *)
(* listener and the updater only mark and delete processes that Supervisor *)
(* has.                                                                    *)
THEOREM ProgramsTypeCorrect == Spec => []TypeOK
<1>1. Inv => TypeOK
  BY DEF Inv
<1> QED  BY InvAlways, <1>1, PTL

(* Whatever the increases and decreases of numprocs, the processes that    *)
(* are slow to stop and those that are deleted when they do, and the       *)
(* restarts of Supervisor, it has exactly the processes that numprocs      *)
(* tells, except those that are marked to be deleted.                      *)
THEOREM CountedAlways == Spec => []Counted
<1>1. Inv => Counted
  BY DEF Inv
<1> QED  BY InvAlways, <1>1, PTL

-----------------------------------------------------------------------------
(* The disability: the file says what was last asked for, unless the crash *)
(* of Supervisor has truncated it.                                         *)
Persisted ==
  /\ wished \in BOOLEAN
  /\ up = "up" => disabled = wished /\ file = Content(wished)
  /\ up = "down" => file \in {Content(wished), "truncated"}

DurableStep == up = "down" /\ up' = "up" => disabled' = wished

(* Only the users who enable and disable change the disability: the other  *)
(* steps of Supervisor, while it runs, leave it alone.                     *)
LEMMA OthersPersist ==
  ASSUME UNCHANGED <<up, disabled, file, wished>>, Persisted
  PROVE  Persisted' /\ DurableStep
<1>1. Persisted'
  BY DEF Persisted
<1>2. up = "down" => up' # "up"
  OBVIOUS
<1> QED  BY <1>1, <1>2 DEF DurableStep

LEMMA WritePersists ==
  ASSUME NEW value \in BOOLEAN, Persist(value), up = "up", up' = "up"
  PROVE  Persisted' /\ DurableStep
<1>1. wished' = value /\ disabled' = value /\ file' = Content(value)
  BY DEF Persist
<1>2. wished' \in BOOLEAN /\ disabled' = wished' /\ file' = Content(wished')
  BY <1>1
<1> QED  BY <1>2 DEF Persisted, DurableStep, Content

LEMMA UsersPersist == Persisted /\ Users => Persisted' /\ DurableStep
<1> SUFFICES ASSUME Persisted, Users PROVE Persisted' /\ DurableStep
  OBVIOUS
<1>1. CASE Disable
  BY <1>1, WritePersists DEF Disable, Use
<1>2. CASE Enable
  BY <1>2, WritePersists DEF Enable, Use
<1>3. CASE \E p \in Names : UserStart(p)
  BY <1>3, OthersPersist DEF UserStart
<1>4. CASE \E n \in 1..MaxNumprocs : Increase(n) \/ Decrease(n)
  <2>1. UNCHANGED <<up, disabled, file, wished>>
    BY <1>4 DEF Increase, Decrease
  <2> QED  BY <2>1, OthersPersist
<1> QED  BY <1>1, <1>2, <1>3, <1>4 DEF Users

(* A crash may truncate the file, a restart reads what is left.            *)
LEMMA CrashPersists ==
  Persisted /\ (Crash \/ Restart \/ RemoveFile) => Persisted' /\ DurableStep
<1> SUFFICES ASSUME Persisted, Crash \/ Restart \/ RemoveFile
             PROVE  Persisted' /\ DurableStep
  OBVIOUS
<1>1. CASE Crash
  <2>1. up' = "down" /\ wished' = wished /\ file' \in {Content(wished), "truncated"}
    BY <1>1 DEF Crash, Persisted
  <2> QED  BY <2>1 DEF Persisted, DurableStep, Content
<1>2. CASE Restart
  <2>1. /\ up = "down" /\ file' = file /\ wished' = wished
        /\ up' = IF file = "truncated" THEN "broken" ELSE "up"
        /\ disabled' = (file = "disabled")
    BY <1>2 DEF Restart
  <2>2. CASE file = "truncated"
    BY <2>1, <2>2 DEF Persisted, DurableStep
  <2>3. CASE file # "truncated"
    <3>1. file = Content(wished) /\ wished \in BOOLEAN /\ up' = "up"
      BY <2>1, <2>3 DEF Persisted
    <3>2. disabled' = wished
      <4>1. CASE wished
        BY <2>1, <3>1, <4>1, Zenon DEF Content
      <4>2. CASE ~wished
        <5>1. file = "enabled"
          BY <3>1, <4>2 DEF Content
        <5>2. file # "disabled"
          BY <5>1
        <5> QED  BY <2>1, <3>1, <4>2, <5>2, Zenon
      <4> QED  BY <4>1, <4>2
    <3>3. file' = Content(wished)' /\ wished' \in BOOLEAN /\ disabled' = wished'
      BY <2>1, <3>1, <3>2 DEF Content
    <3> QED  BY <3>1, <3>2, <3>3 DEF Persisted, DurableStep
  <2> QED  BY <2>2, <2>3
<1>3. CASE RemoveFile
  <2>1. up = "broken" /\ up' = "down" /\ file' = "enabled" /\ wished' = FALSE
    BY <1>3 DEF RemoveFile
  <2>2. wished' \in BOOLEAN /\ file' = Content(wished)'
    BY <2>1 DEF Content
  <2> QED  BY <2>1, <2>2 DEF Persisted, DurableStep
<1> QED  BY <1>1, <1>2, <1>3

LEMMA NextPersists == Persisted /\ [Next]_vars => Persisted' /\ DurableStep
<1> SUFFICES ASSUME Persisted, [Next]_vars PROVE Persisted' /\ DurableStep
  OBVIOUS
<1>1. CASE Life
  BY <1>1, OthersPersist
     DEF Life, Spawn, Evolve, Stopped, StartProcess, StopProcess, Quiet
<1>2. CASE \E c \in commands : TimeOut(c)
  BY <1>2, OthersPersist DEF TimeOut, Quiet
<1>3. CASE \E r \in waiting : Poll(r)
  BY <1>3, OthersPersist DEF Poll
<1>4. CASE UNCHANGED vars
  BY <1>4, OthersPersist DEF vars
<1> QED  BY <1>1, <1>2, <1>3, <1>4, UsersPersist, CrashPersists DEF Next

(* When supervisord starts, it has the disability that was last asked for, *)
(* whatever it was doing when it crashed, and however many times it did:   *)
(* the file is written before the request is answered, and one that is     *)
(* truncated prevents the start.                                           *)
THEOREM DisabilityDurable == Spec => Durable
<1>1. Init => Persisted
  BY DEF Init, Persisted, Content
<1>2. Persisted /\ [Next]_vars => Persisted' /\ [DurableStep]_vars
  BY NextPersists
<1>3. [][DurableStep]_vars => Durable
  BY PTL DEF Durable, DurableStep
<1> QED  BY <1>1, <1>2, <1>3, PTL DEF Spec
=============================================================================
