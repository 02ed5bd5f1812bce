--------------------------- MODULE ComponentsProofs ---------------------------
(***************************************************************************)
(* The composition: a behaviour of the components in one instance is, for  *)
(* each of them, a behaviour of its own specification, so that what is     *)
(* proved of a component holds of the composition.                         *)
(***************************************************************************)
EXTENDS MCComponents, MissionLifecycleProofs, SchedulerProofs, SwarmProofs,
        ControlProofs

(* A step of one component is a stutter of the others. *)
LEMMA ComponentsStep ==
  ASSUME [ComponentsNext]_componentVars
  PROVE  /\ [MissionNext]_missionVars /\ [QueueNext]_queueVars
         /\ [TimersNext]_timerVars /\ [SwarmNext]_swarmVars
         /\ [ControlNext]_controlVars /\ [GovernanceNext]_governanceVars
         /\ [SagaNext]_sagaVars
<1>1. CASE Missions
  BY <1>1 DEF Missions
<1>2. CASE Queue
  BY <1>2 DEF Queue
<1>3. CASE Timers(TimersNext)
  BY <1>3 DEF Timers
<1>4. CASE SwarmMoves
  BY <1>4 DEF SwarmMoves
<1>5. CASE Control
  BY <1>5 DEF Control
<1>6. CASE Governs
  BY <1>6 DEF Governs
<1>7. CASE Saga
  BY <1>7 DEF Saga
<1>8. CASE UNCHANGED componentVars
  BY <1>8 DEF componentVars
<1> QED BY <1>1, <1>2, <1>3, <1>4, <1>5, <1>6, <1>7, <1>8 DEF ComponentsNext

(* Nothing the components do in one process is more than each of them does
   alone: they share no state. *)
THEOREM ComponentsRunAlone ==
  ComponentsSpec =>
    /\ MissionSpec /\ QueueSpec /\ TimersSpec /\ SwarmSpec /\ ControlSpec
    /\ GovernanceSpec /\ SagaSpec
<1>1. ComponentsInit => /\ MissionInit /\ QueueInit /\ TimersInit /\ SwarmInit
                        /\ ControlInit /\ GovernanceInit /\ SagaInit
  BY DEF ComponentsInit
<1>2. [ComponentsNext]_componentVars =>
        /\ [MissionNext]_missionVars /\ [QueueNext]_queueVars
        /\ [TimersNext]_timerVars /\ [SwarmNext]_swarmVars
        /\ [ControlNext]_controlVars /\ [GovernanceNext]_governanceVars
        /\ [SagaNext]_sagaVars
  BY ComponentsStep
<1>3. ComponentsSpec => ComponentsInit /\ [][ComponentsNext]_componentVars
  BY PTL DEF ComponentsSpec
<1> QED BY <1>1, <1>2, <1>3, PTL
        DEF MissionSpec, QueueSpec, TimersSpec, SwarmSpec, ControlSpec,
            GovernanceSpec, SagaSpec

(* Every variable of every component keeps its type. *)
THEOREM ComponentsTypeCorrect == ComponentsSpec => []ComponentsTypeOK
<1>1. /\ MissionTypeOK /\ QueueTypeOK /\ TimersTypeOK /\ SwarmTypeOK
      /\ ControlTypeOK /\ GovernanceTypeOK /\ SagaTypeOK
      => ComponentsTypeOK
  BY DEF ComponentsTypeOK
<1> QED BY <1>1, ComponentsRunAlone, MissionTypes, QueueTypeCorrect,
           TimersTypeCorrect, SwarmTypeCorrect, ControlTypeCorrect,
           GovernanceTypeCorrect, SagaTypeCorrect, PTL

(* Every safety property that TLC checks of the seven components in the small
   instance holds of the composition for all values of the constants.  (The
   composition schedules one task in a behaviour; the theorems it follows
   from, of TimersSpec and the others, have no such bound.) *)
THEOREM ComponentsAreSafe ==
  ComponentsSpec =>
    /\ [](ContactOnRecord /\ InheritedQueued /\ OneActiveItem)
    /\ [](NoneSleepsOnWork /\ CancelHolds)
    /\ []HonestSuccess
    /\ [](ChainMatchesRow /\ StopHolds /\ AllowedAsAnswered)
    /\ [](RolledBack /\ RunsUntilSuccess)
    /\ KeepsAccount /\ KeepsOrder /\ TerminalSticks /\ HistoryGrows
BY ComponentsRunAlone, ContactsOnRecord, InheritedAreQueued, ActiveItemsAreOne,
   NoReaderSleepsOnWork, CancellationHolds, SuccessIsHonest,
   ChainAlwaysMatches, StopAlwaysHolds,
   AlwaysAllowedAsAnswered, RollbackIsExact, SuccessEndsRetries,
   ManagerKeepsAccount, QueueKeepsOrder, TerminalAlwaysSticks,
   HistoryAlwaysGrows, PTL
=============================================================================
