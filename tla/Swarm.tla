--------------------------------- MODULE Swarm ---------------------------------
(***************************************************************************)
(* swarm_runtime: a controller that launches worker processes, its         *)
(* supervisor, the status.json and findings.json through which a worker    *)
(* reports, and the summary that says how the swarm ended.                 *)
(*                                                                         *)
(* The controller is one thread: launch_all, revoke and then one wait.     *)
(* Each worker is a process of its own; SIGTERM ends it some time later.   *)
(* The controller never refreshes its own copy of a worker's progress, so  *)
(* the supervisor's provider check never applies, and its heartbeat and    *)
(* progress checks apply to every worker that is old enough.               *)
(***************************************************************************)
EXTENDS Naturals, FiniteSets

CONSTANTS
  Worker,
  Plain,          \* workers of launch() and launch_all(), which are in the
                  \* controller's process group
  Direct,         \* workers that launch() or launch_governed() launches for the
                  \* caller, and not for launch_all or launch_all_governed
  MaxConcurrent   \* max_concurrent

VARIABLES
  view,     \* WorkerState.status in the controller
  stored,   \* status.json
  finding,  \* findings.json is there and says completed
  process,  \* where the worker's process is
  rc,       \* its exit code
  phase,    \* where the controller is
  agenda,   \* the workers its present step has yet to look at
  summary   \* swarm_result

swarmVars == <<view, stored, finding, process, rc, phase, agenda, summary>>

ASSUME PlainAssumption == Plain \subseteq Worker
ASSUME DirectAssumption == Direct \subseteq Worker
ASSUME MaxConcurrentAssumption == MaxConcurrent \in Nat \ {0}

Terminal == {"completed", "failed", "timed_out", "cancelled"}
Status == {"none", "starting", "running"} \cup Terminal

SwarmTypeOK ==
  /\ view \in [Worker -> Status]
  /\ stored \in [Worker -> Status]
  /\ finding \in [Worker -> BOOLEAN]
  /\ process \in [Worker -> {"none", "born", "working", "reporting", "ending",
                             "exited"}]
  /\ rc \in [Worker -> {0, 1}]
  /\ phase \in {"launching", "storing", "waiting", "sweeping", "done", "dead"}
  /\ agenda \subseteq Worker
  /\ summary \in {"unknown", "SUCCESS", "PARTIAL", "FAILED"}

SwarmInit ==
  /\ view = [w \in Worker |-> "none"]
  /\ stored = [w \in Worker |-> "none"]
  /\ finding = [w \in Worker |-> FALSE]
  /\ process = [w \in Worker |-> "none"]
  /\ rc = [w \in Worker |-> 0]
  /\ phase = "launching"
  /\ agenda = {}
  /\ summary = "unknown"

Alive == {w \in Worker : process[w] \notin {"none", "exited"}}
Launched == {w \in Worker : view[w] # "none"}

-----------------------------------------------------------------------------
(* Mutant: a late RUNNING is written over a terminal status. *)
WriteStatusRaw(w, s) == stored' = [stored EXCEPT ![w] = s]

(* ArtifactStore.write_status, under the lock all processes share. *)
WriteStatus(w, s) ==
  stored' = IF stored[w] \in Terminal /\ s \notin Terminal
              THEN stored ELSE [stored EXCEPT ![w] = s]

SetView(w, s) == view' = [view EXCEPT ![w] = s]

(* launch_all and launch_all_governed wait in _wait_for_slot, which counts the
   processes that live; whoever calls launch or launch_governed does not. *)
SlotFree(w) == w \in Direct \/ Cardinality(Alive) < MaxConcurrent

(* launch or launch_governed up to Popen. *)
Launch(w) ==
  /\ phase = "launching"
  /\ view[w] = "none"
  /\ SlotFree(w)
  /\ WriteStatus(w, "starting")
  /\ SetView(w, "running")
  /\ process' = [process EXCEPT ![w] = "born"]
  /\ phase' = "storing"
  /\ agenda' = {w}
  /\ UNCHANGED <<finding, rc, summary>>

(* Popen raises. *)
LaunchFails(w) ==
  /\ phase = "launching"
  /\ view[w] = "none"
  /\ SlotFree(w)
  /\ WriteStatus(w, "failed")
  /\ SetView(w, "failed")
  /\ UNCHANGED <<finding, process, rc, phase, agenda, summary>>

(* The rest of _launch_worker; the worker may be ahead of it.  When the write
   raises the worker counts as failed, and its process lives. *)
StoreRunning ==
  /\ phase = "storing"
  /\ \E w \in agenda :
       \/ WriteStatus(w, "running") /\ UNCHANGED view
       \/ WriteStatus(w, "failed") /\ SetView(w, "failed")
  /\ phase' = "launching"
  /\ agenda' = {}
  /\ UNCHANGED <<finding, process, rc, summary>>

(* terminate_process_tree: SIGTERM to the worker's process group.  That of a
   plain worker is the controller's own, and the controller ends at once; the
   workers it reaches end at some step from now on (WorkerDies), or never if
   the signal fails. *)
SignalReachesController(w) == w \in Plain \cap Alive

(* revoke, between two launches: CANCELLED whatever the signal achieved. *)
Revoke(w) ==
  /\ phase = "launching"
  /\ process[w] # "none"
  /\ \/ /\ SignalReachesController(w)
        /\ phase' = "dead"
        /\ UNCHANGED <<view, stored>>
     \/ /\ ~SignalReachesController(w)
        /\ SetView(w, "cancelled")
        /\ WriteStatus(w, "cancelled")
        /\ UNCHANGED phase
  /\ UNCHANGED <<finding, process, rc, agenda, summary>>

-----------------------------------------------------------------------------
(* A worker process: BaseWorker.run.                                       *)

Proceed(w, pc) == process' = [process EXCEPT ![w] = pc]

WorkerStarts(w) ==
  /\ process[w] = "born"
  /\ WriteStatus(w, "running")
  /\ Proceed(w, "working")
  /\ UNCHANGED <<view, finding, rc, phase, agenda, summary>>

(* execute() returned 0: first the status, then the findings. *)
WorkerCompletes(w) ==
  /\ process[w] = "working"
  /\ WriteStatus(w, "completed")
  /\ Proceed(w, "reporting")
  /\ UNCHANGED <<view, finding, rc, phase, agenda, summary>>

WorkerReports(w) ==
  /\ process[w] = "reporting"
  /\ finding' = [finding EXCEPT ![w] = TRUE]
  /\ Proceed(w, "ending")
  /\ UNCHANGED <<view, stored, rc, phase, agenda, summary>>

(* execute() failed or something raised, a write or the last event included. *)
WorkerFails(w) ==
  /\ w \in Alive
  /\ WriteStatus(w, "failed")
  /\ Proceed(w, "exited")
  /\ rc' = [rc EXCEPT ![w] = 1]
  /\ UNCHANGED <<view, finding, phase, agenda, summary>>

WorkerExits(w) ==
  /\ process[w] = "ending"
  /\ Proceed(w, "exited")
  /\ UNCHANGED <<view, stored, finding, rc, phase, agenda, summary>>

(* The process crashes, or the signal reaches it. *)
WorkerDies(w) ==
  /\ w \in Alive
  /\ Proceed(w, "exited")
  /\ rc' = [rc EXCEPT ![w] = 1]
  /\ UNCHANGED <<view, stored, finding, phase, agenda, summary>>

-----------------------------------------------------------------------------
(* _poll_processes and the supervisor, both of the controller's thread.    *)

Open(w) == process[w] # "none" /\ view[w] \notin Terminal

Outcome(w) ==
  IF (stored[w] = "completed" \/ rc[w] = 0) /\ finding[w]
    THEN "completed" ELSE "failed"

(* Mutant: a worker that says it has completed need not have exited. *)
SettleByStatus(w) ==
  /\ Open(w)
  /\ process[w] = "exited" \/ (stored[w] = "completed" /\ finding[w])
  /\ SetView(w, Outcome(w))
  /\ WriteStatus(w, Outcome(w))
  /\ UNCHANGED <<finding, process, rc, phase, summary>>

Settle(w) ==
  /\ Open(w)
  /\ process[w] = "exited"
  /\ SetView(w, Outcome(w))
  /\ WriteStatus(w, Outcome(w))
  /\ UNCHANGED <<finding, process, rc, phase, summary>>

(* The hard timeout of a process that lives. *)
TimeOut(w) ==
  /\ Open(w)
  /\ w \in Alive
  /\ \/ /\ SignalReachesController(w)
        /\ phase' = "dead"
        /\ UNCHANGED <<view, stored>>
     \/ /\ ~SignalReachesController(w)
        /\ SetView(w, "timed_out")
        /\ WriteStatus(w, "timed_out")
        /\ UNCHANGED phase
  /\ UNCHANGED <<finding, process, rc, summary>>

(* wait() polls all the time, _wait_for_slot while a launch is held up. *)
Poll(w) ==
  /\ phase \in {"launching", "waiting"}
  /\ Settle(w) \/ TimeOut(w)
  /\ UNCHANGED agenda

BeginWait ==
  /\ phase = "launching"
  /\ Launched # {}
  /\ phase' = "waiting"
  /\ UNCHANGED <<view, stored, finding, process, rc, agenda, summary>>

(* _handle_dead_heartbeat: older than 30 s and the process is gone;
   _handle_worker_stall: older than 120 s, its process is left alone. *)
SupervisorFails(w) ==
  /\ phase = "waiting"
  /\ Open(w)
  /\ SetView(w, "failed")
  /\ WriteStatus(w, "failed")
  /\ UNCHANGED <<finding, process, rc, phase, agenda, summary>>

(* All are settled, or the deadline of wait() is over: one more sweep. *)
EndWait ==
  /\ phase = "waiting"
  /\ phase' = "sweeping"
  /\ agenda' = {w \in Worker : process[w] # "none"}
  /\ UNCHANGED <<view, stored, finding, process, rc, summary>>

Sweep(w) ==
  /\ phase = "sweeping"
  /\ w \in agenda
  /\ \/ Settle(w)
     \/ TimeOut(w)
     \/ /\ ~Open(w) \/ w \in Alive
        /\ UNCHANGED <<view, stored, finding, process, rc, phase, summary>>
  /\ agenda' = agenda \ {w}

(* compute_result *)
Result ==
  IF \A w \in Launched : view[w] = "completed" /\ finding[w] THEN "SUCCESS"
  ELSE IF \E w \in Launched : view[w] = "completed" THEN "PARTIAL"
  ELSE "FAILED"

Summarise ==
  /\ phase = "sweeping"
  /\ agenda = {}
  /\ summary' = Result
  /\ phase' = "done"
  /\ UNCHANGED <<view, stored, finding, process, rc, agenda>>

SwarmNext ==
  \/ StoreRunning \/ BeginWait \/ EndWait \/ Summarise
  \/ \E w \in Worker :
       \/ Launch(w) \/ LaunchFails(w) \/ Revoke(w)
       \/ WorkerStarts(w) \/ WorkerCompletes(w) \/ WorkerReports(w)
       \/ WorkerFails(w) \/ WorkerExits(w) \/ WorkerDies(w)
       \/ Poll(w) \/ SupervisorFails(w) \/ Sweep(w)

SwarmSpec == SwarmInit /\ [][SwarmNext]_swarmVars

(* The controller's loop goes round, and its wait has a deadline. *)
ControllerStep ==
  StoreRunning \/ BeginWait \/ EndWait \/ Summarise \/ \E w \in Worker : Sweep(w)

SwarmFairSpec == SwarmSpec /\ WF_swarmVars(ControllerStep)

-----------------------------------------------------------------------------
(* Properties                                                              *)

(* SUCCESS is said only of a swarm whose every worker has ended, left valid
   findings, and stands as COMPLETED in its own status file: nothing is still
   running or can still overturn it. *)
HonestSuccess ==
  summary = "SUCCESS" =>
    \A w \in Launched : process[w] = "exited" /\ finding[w] /\ stored[w] = "completed"

(* A worker that has reported how it ended is never again reported as under
   way, whichever of the two processes writes last. *)
TerminalSticks ==
  [][\A w \in Worker : stored[w] \in Terminal => stored'[w] \in Terminal]_swarmVars

(* "Reports honest SWARM_RESULT = FAILED/SUCCESS based on actual worker
   outcomes": a worker that has done its work, left valid findings and exited
   with 0 is not declared failed by the next look at it. *)
HonestOutcome ==
  [][\A w \in Worker :
       /\ Open(w) /\ process[w] = "exited" /\ rc[w] = 0 /\ finding[w]
       /\ phase = "waiting"
       => view'[w] # "failed"]_swarmVars
=============================================================================
