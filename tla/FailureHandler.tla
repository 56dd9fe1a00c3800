--------------------------- MODULE FailureHandler ---------------------------
(***************************************************************************)
(* The handler of the running failures (strategy.py, class                 *)
(* RunningFailureHandler). A failure of a process asks for a job: stop its *)
(* application, restart its application, restart the process or nothing.   *)
(* Several failures may concern the same application before the jobs are   *)
(* triggered: the jobs are given a priority, so that an application is     *)
(* never the subject of contradictory jobs.                                *)
(*                                                                         *)
(* The operators are on the record h of the jobs:                          *)
(*   stop, restart     the applications to stop and to restart             *)
(*   again, go_on      the processes to restart, and those left as is      *)
(***************************************************************************)
CONSTANTS Program,     \* the processes
          Owner,       \* the application of each process
          Sequenced    \* the processes that are started with their application

Jobs == [stop: SUBSET {Owner[p] : p \in Program}, restart: SUBSET {Owner[p] : p \in Program},
         again: SUBSET Program, go_on: SUBSET Program]
NoJob == [stop |-> {}, restart |-> {}, again |-> {}, go_on |-> {}]

-----------------------------------------------------------------------------
(* A job supersedes the jobs of a lower priority, and is superseded by     *)
(* those of a higher priority.                                             *)

AddStopApplication(h, a) ==
  [stop |-> h.stop \cup {a}, restart |-> h.restart \ {a},
   again |-> {p \in h.again : Owner[p] # a}, go_on |-> {p \in h.go_on : Owner[p] # a}]

\* (mutant) A restart of the application is added although it is to be stopped.
AddRestartAnyway(h, a) ==
  [h EXCEPT !.restart = @ \cup {a},
            !.again = {p \in @ : Owner[p] # a \/ p \notin Sequenced},
            !.go_on = {p \in @ : Owner[p] # a \/ p \notin Sequenced}]

AddRestartApplication(h, a) ==
  IF a \in h.stop THEN h
  ELSE [h EXCEPT !.restart = @ \cup {a},
                 !.again = {p \in @ : Owner[p] # a \/ p \notin Sequenced},
                 !.go_on = {p \in @ : Owner[p] # a \/ p \notin Sequenced}]

(* The restart of an application covers only the processes of its start    *)
(* sequence.                                                               *)
Covered(h, p) == Owner[p] \in h.stop \/ (Owner[p] \in h.restart /\ p \in Sequenced)

AddRestartProcess(h, p) ==
  IF Covered(h, p) THEN h
  ELSE [h EXCEPT !.again = @ \cup {p}, !.go_on = @ \ {p}]

AddContinueProcess(h, p) ==
  IF Covered(h, p) \/ p \in h.again THEN h ELSE [h EXCEPT !.go_on = @ \cup {p}]

AddJob(h, strategy, p) ==
  CASE strategy = "STOP_APPLICATION" -> AddStopApplication(h, Owner[p])
    [] strategy = "RESTART_APPLICATION" -> AddRestartApplication(h, Owner[p])
    [] strategy = "RESTART_PROCESS" -> AddRestartProcess(h, p)
    [] OTHER -> AddContinueProcess(h, p)

(* The job asked by the rules of a process. The restart of a process whose *)
(* application has been stopped by the failure becomes the restart of the  *)
(* application.                                                            *)
AddDefaultJob(h, strategy, p, stopped) ==
  LET added == AddJob(h, strategy, p)
  IN  IF strategy = "RESTART_PROCESS" /\ stopped /\ p \in Sequenced
      THEN AddJob(added, "RESTART_APPLICATION", p) ELSE added

\* (mutant) The jobs of the applications in progress are dropped.
DeferredNone(h, busy) == NoJob

(* The jobs of the applications that the Starter or the Stopper is working *)
(* on are deferred.                                                        *)
Deferred(h, busy) ==
  [stop |-> h.stop \cap busy, restart |-> h.restart \cap busy,
   again |-> {p \in h.again : Owner[p] \in busy}, go_on |-> {}]

-----------------------------------------------------------------------------
(* The jobs are never contradictory: an application is not to be stopped   *)
(* and restarted, and no job is kept for a process whose application is to *)
(* be stopped, or restarted with the process.                              *)
Precedence(h) ==
  /\ h.stop \cap h.restart = {}
  /\ h.again \cap h.go_on = {}
  /\ \A p \in h.again \cup h.go_on : ~Covered(h, p)
=============================================================================
