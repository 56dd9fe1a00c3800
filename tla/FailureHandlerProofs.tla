------------------------ MODULE FailureHandlerProofs ------------------------
(***************************************************************************)
(* The jobs of the failure handler are never contradictory, whatever the   *)
(* failures and the moment when their jobs are triggered.                  *)
(***************************************************************************)
EXTENDS FailureHandler, TLAPS

Fine(h) == h \in Jobs /\ Precedence(h)

LEMMA StopKeeps ==
  ASSUME NEW h, Fine(h), NEW p \in Program
  PROVE  Fine(AddStopApplication(h, Owner[p]))
  BY DEF Fine, Jobs, Precedence, Covered, AddStopApplication

LEMMA RestartKeeps ==
  ASSUME NEW h, Fine(h), NEW p \in Program
  PROVE  Fine(AddRestartApplication(h, Owner[p]))
<1>1. CASE Owner[p] \in h.stop
  BY <1>1 DEF AddRestartApplication
<1>2. CASE Owner[p] \notin h.stop
  BY <1>2 DEF Fine, Jobs, Precedence, Covered, AddRestartApplication
<1> QED BY <1>1, <1>2

LEMMA AgainKeeps ==
  ASSUME NEW h, Fine(h), NEW p \in Program
  PROVE  Fine(AddRestartProcess(h, p))
<1>1. CASE Covered(h, p)
  BY <1>1 DEF AddRestartProcess
<1>2. CASE ~Covered(h, p)
  BY <1>2 DEF Fine, Jobs, Precedence, Covered, AddRestartProcess
<1> QED BY <1>1, <1>2

LEMMA ContinueKeeps ==
  ASSUME NEW h, Fine(h), NEW p \in Program
  PROVE  Fine(AddContinueProcess(h, p))
<1>1. CASE Covered(h, p) \/ p \in h.again
  BY <1>1 DEF AddContinueProcess
<1>2. CASE ~(Covered(h, p) \/ p \in h.again)
  BY <1>2 DEF Fine, Jobs, Precedence, Covered, AddContinueProcess
<1> QED BY <1>1, <1>2

LEMMA JobKeeps ==
  ASSUME NEW h, Fine(h), NEW p \in Program, NEW strategy
  PROVE  Fine(AddJob(h, strategy, p))
<1>1. CASE strategy = "STOP_APPLICATION"
  BY <1>1, StopKeeps DEF AddJob
<1>2. CASE strategy = "RESTART_APPLICATION"
  BY <1>2, RestartKeeps DEF AddJob
<1>3. CASE strategy = "RESTART_PROCESS"
  BY <1>3, AgainKeeps DEF AddJob
<1>4. CASE strategy \notin {"STOP_APPLICATION", "RESTART_APPLICATION", "RESTART_PROCESS"}
  BY <1>4, ContinueKeeps DEF AddJob
<1> QED BY <1>1, <1>2, <1>3, <1>4

(* The handler starts without any job, and a failure of a process, by its  *)
(* rules or by a given strategy, adds no contradiction to its jobs.        *)
THEOREM FailureKeepsPrecedence ==
  ASSUME NEW h \in Jobs, Precedence(h), NEW p \in Program, NEW strategy, NEW stopped \in BOOLEAN
  PROVE  /\ AddJob(h, strategy, p) \in Jobs /\ Precedence(AddJob(h, strategy, p))
         /\ AddDefaultJob(h, strategy, p, stopped) \in Jobs
         /\ Precedence(AddDefaultJob(h, strategy, p, stopped))
         /\ NoJob \in Jobs /\ Precedence(NoJob)
<1>1. Fine(h)
  BY DEF Fine
<1>2. Fine(AddJob(h, strategy, p))
  BY <1>1, JobKeeps
<1>3. Fine(AddDefaultJob(h, strategy, p, stopped))
  <2> DEFINE added == AddJob(h, strategy, p)
  <2>1. Fine(AddJob(added, "RESTART_APPLICATION", p))
    BY <1>2, JobKeeps
  <2> QED BY <1>2, <2>1 DEF AddDefaultJob
<1>4. NoJob \in Jobs /\ Precedence(NoJob)
  BY DEF NoJob, Jobs, Precedence
<1> QED BY <1>2, <1>3, <1>4 DEF Fine

(* A failure never withdraws what a failure of higher priority asked: the  *)
(* applications to stop remain so, and an application to restart is        *)
(* restarted, unless it is now to be stopped.                              *)
THEOREM NothingForgotten ==
  ASSUME NEW h \in Jobs, NEW p \in Program, NEW strategy
  PROVE  /\ h.stop \subseteq AddJob(h, strategy, p).stop
         /\ h.restart \subseteq AddJob(h, strategy, p).restart \cup AddJob(h, strategy, p).stop
         /\ \A q \in h.again : q \in AddJob(h, strategy, p).again \/ Covered(AddJob(h, strategy, p), q)
<1>1. CASE strategy = "STOP_APPLICATION"
  BY <1>1 DEF AddJob, AddStopApplication, Covered, Jobs
<1>2. CASE strategy = "RESTART_APPLICATION"
  BY <1>2 DEF AddJob, AddRestartApplication, Covered, Jobs
<1>3. CASE strategy = "RESTART_PROCESS"
  BY <1>3 DEF AddJob, AddRestartProcess, Covered, Jobs
<1>4. CASE strategy \notin {"STOP_APPLICATION", "RESTART_APPLICATION", "RESTART_PROCESS"}
  BY <1>4 DEF AddJob, AddContinueProcess, Covered, Jobs
<1> QED BY <1>1, <1>2, <1>3, <1>4

(* The jobs kept for later are still not contradictory, and concern only   *)
(* the applications in progress.                                           *)
THEOREM DeferralKeepsPrecedence ==
  ASSUME NEW h \in Jobs, Precedence(h), NEW busy
  PROVE  /\ Deferred(h, busy) \in Jobs /\ Precedence(Deferred(h, busy))
         /\ Deferred(h, busy).stop \cup Deferred(h, busy).restart \subseteq busy
         /\ \A p \in Deferred(h, busy).again : Owner[p] \in busy
  BY DEF Jobs, Precedence, Covered, Deferred
=============================================================================
