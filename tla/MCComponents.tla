----------------------------- MODULE MCComponents -----------------------------
(***************************************************************************)
(* Seven components that share no state - the missions, the task queue,    *)
(* the task timers, the swarm, the run control, the governance and the     *)
(* saga of a workflow body - in one instance for TLC.  A behaviour is a    *)
(* behaviour of one of them, the focus; the others stay as they are at the *)
(* start.  Each is explored as if it were alone: none of them reads a      *)
(* variable of another.                                                    *)
(***************************************************************************)
EXTENDS MissionLifecycle, TaskQueue, TaskTimers, Swarm, RunControl, Governance,
        ActivitySaga

VARIABLE focus

componentVars == <<focus, missionVars, queueVars, timerVars, swarmVars,
                   controlVars, governanceVars, sagaVars>>

ComponentsInit ==
  /\ focus \in {"mission", "queue", "timers", "swarm", "control", "governance",
               "saga"}
  /\ MissionInit
  /\ QueueInit
  /\ TimersInit
  /\ SwarmInit
  /\ ControlInit
  /\ GovernanceInit
  /\ SagaInit

Missions ==
  /\ focus = "mission"
  /\ MissionNext
  /\ UNCHANGED <<focus, queueVars, timerVars, swarmVars, controlVars, governanceVars, sagaVars>>

Queue ==
  /\ focus = "queue"
  /\ QueueNext
  /\ UNCHANGED <<focus, missionVars, timerVars, swarmVars, controlVars, governanceVars, sagaVars>>

(* Bound: one task is scheduled in a behaviour, be it one-time or recurring;
   tasks share nothing but the flag that stop() clears. *)
OneTask == \E t \in Timed : \A u \in Timed \ {t} : taskStatus[u] = "none"

Timers(NextStep) ==
  /\ focus = "timers"
  /\ NextStep
  /\ OneTask'
  /\ UNCHANGED <<focus, missionVars, queueVars, swarmVars, controlVars, governanceVars, sagaVars>>

SwarmMoves ==
  /\ focus = "swarm"
  /\ SwarmNext
  /\ UNCHANGED <<focus, missionVars, queueVars, timerVars, controlVars, governanceVars, sagaVars>>

Control ==
  /\ focus = "control"
  /\ ControlNext
  /\ UNCHANGED <<focus, missionVars, queueVars, timerVars, swarmVars, governanceVars, sagaVars>>

Governs ==
  /\ focus = "governance"
  /\ GovernanceNext
  /\ UNCHANGED <<focus, missionVars, queueVars, timerVars, swarmVars, controlVars, sagaVars>>

Saga ==
  /\ focus = "saga"
  /\ SagaNext
  /\ UNCHANGED <<focus, missionVars, queueVars, timerVars, swarmVars, controlVars, governanceVars>>

ComponentsNext ==
  Missions \/ Queue \/ Timers(TimersNext) \/ SwarmMoves \/ Control \/ Governs
  \/ Saga

(* The fairness is that of TimersFairSpec, for the behaviours in which the
   timers move. *)
ComponentsSpec ==
  /\ ComponentsInit
  /\ [][ComponentsNext]_componentVars
  /\ \A k \in Chain : WF_componentVars(Timers(ChainStep(k)))

(* Every variable has the type its module declares. *)
ComponentsTypeOK ==
  /\ MissionTypeOK /\ QueueTypeOK /\ TimersTypeOK
  /\ SwarmTypeOK /\ ControlTypeOK /\ GovernanceTypeOK /\ SagaTypeOK
===============================================================================
