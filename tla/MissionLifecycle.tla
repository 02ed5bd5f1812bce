-------------------------- MODULE MissionLifecycle --------------------------
(***************************************************************************)
(* Durable missions (mission_wiring/durable_mission.py) and the            *)
(* reconciliation queue with its restart census (reconciliation.py,        *)
(* recovery.py).                                                           *)
(*                                                                         *)
(* The manager keeps its records in memory and writes a record through to  *)
(* the store at every transition, after it has changed it.  A save may     *)
(* raise: the record in memory is then ahead of the store.  A process may  *)
(* die at any point; its successor has the records of the store and an     *)
(* empty queue, which recover_after_restart fills from them.               *)
(*                                                                         *)
(* The driver that calls the manager and the external system it contacts   *)
(* are external: the driver contacts the system once after executing()     *)
(* has returned to it.                                                     *)
(***************************************************************************)
EXTENDS Naturals

CONSTANTS
  Mission,   \* mission ids
  Classes,   \* the side-effect classes of the missions
  Reported,  \* the reasons drivers give with an UNKNOWN outcome
  NoReason,
  MaxFaults  \* bound: saves that raise and processes that die

VARIABLES
  mem,       \* DurableMissionManager._records
  disk,      \* the mission records in the store
  up,        \* a process is running
  calling,   \* the missions whose external call the driver is about to make
  item,      \* ReconciliationQueue._items, by mission and reason
  byEffect,  \* ReconciliationQueue._by_effect
  contacts,  \* history: contacts with the external system
  inherited, \* history: the missions the process has found in flight
  recovered, \* history: the process has completed a recovery pass
  faults     \* saves that have raised and processes that have died

manager         == <<mem, disk, up, calling>>
missionVars     == <<mem, disk, up, calling, item, byEffect, contacts,
                     inherited, recovered, faults>>

MissionLifecycleState ==
  {"REQUESTED", "AWAITING_APPROVAL", "APPROVED", "EXECUTION_INTENT_RECORDED",
   "EXECUTING", "COMPLETED", "FAILED", "RECONCILIATION_REQUIRED",
   "CANCELLED"}

(* EXTERNAL_CONSEQUENTIAL and IRREVERSIBLE, or any other class. *)
SideEffectClass == {"consequential", "other"}

(* reconciliation_status: "unknown" is REQUIRED_UNKNOWN_EXTERNAL_STATE,
   "timeout" a reason code of the caller that ReconciliationReason lists. *)
Record == [state   : MissionLifecycleState \cup {"absent"},
           class   : SideEffectClass,
           intent  : BOOLEAN,
           outcome : {"none", "COMPLETED", "FAILED", "UNKNOWN"},
           status  : {"", "unknown", "timeout", "RESOLVED"}]

Absent == [state |-> "absent", class |-> "other", intent |-> FALSE,
           outcome |-> "none", status |-> ""]

(* The reasons _ensure_entry derives: OUTCOME_PERSISTENCE_FAILURE, the
   caller's own, RESTART_FOUND_INFLIGHT_CONSEQUENTIAL_EFFECT. *)
Reason == {"persistence", "timeout", "found"}

ASSUME NoReasonAssumption == NoReason \notin Reason
ASSUME ClassAssumption == Classes \subseteq SideEffectClass
ASSUME ReportedAssumption == Reported \subseteq {"unknown", "timeout"}
ASSUME BoundAssumption == MaxFaults \in Nat

MissionTypeOK ==
  /\ mem \in [Mission -> Record]
  /\ disk \in [Mission -> Record]
  /\ up \in BOOLEAN
  /\ calling \subseteq Mission
  /\ item \in [Mission -> [Reason ->
                 {"none", "QUEUED", "UNDER_REVIEW", "RESOLVED"}]]
  /\ byEffect \in [Mission -> Reason \cup {NoReason}]
  /\ contacts \in [Mission -> Nat]
  /\ inherited \subseteq Mission
  /\ recovered \in BOOLEAN
  /\ faults \in Nat

EmptyItems    == [m \in Mission |-> [r \in Reason |-> "none"]]
EmptyByEffect == [m \in Mission |-> NoReason]

MissionInit ==
  /\ mem = [m \in Mission |-> Absent]
  /\ disk = [m \in Mission |-> Absent]
  /\ up = TRUE
  /\ calling = {}
  /\ item = EmptyItems
  /\ byEffect = EmptyByEffect
  /\ contacts = [m \in Mission |-> 0]
  /\ inherited = {}
  /\ recovered = FALSE
  /\ faults = 0

-----------------------------------------------------------------------------
(* The manager                                                             *)

In(m, states) == up /\ mem[m].state \in states

Faults(n) == faults + n <= MaxFaults /\ faults' = faults + n

(* The record changes in memory; _persist saves it or raises. *)
Store(m, rec, saved) ==
  /\ mem' = [mem EXCEPT ![m] = rec]
  /\ disk' = IF saved THEN [disk EXCEPT ![m] = rec] ELSE disk
  /\ Faults(IF saved THEN 0 ELSE 1)
  /\ UNCHANGED up

Bookkeeping == UNCHANGED <<item, byEffect, contacts, inherited, recovered>>

RequestMission(m, class, saved) ==
  /\ In(m, {"absent"})
  /\ Store(m, [Absent EXCEPT !.state = "REQUESTED", !.class = class], saved)
  /\ UNCHANGED calling
  /\ Bookkeeping

(* awaiting_approval looks at no state. *)
AwaitingApproval(m, saved) ==
  /\ In(m, MissionLifecycleState \ {"AWAITING_APPROVAL"})
  /\ Store(m, [mem[m] EXCEPT !.state = "AWAITING_APPROVAL"], saved)
  /\ UNCHANGED calling
  /\ Bookkeeping

Approved(m, saved) ==
  /\ In(m, {"AWAITING_APPROVAL"})
  /\ Store(m, [mem[m] EXCEPT !.state = "APPROVED"], saved)
  /\ UNCHANGED calling
  /\ Bookkeeping

WithIntent(m)  == [mem[m] EXCEPT !.intent = TRUE]
IntentReady(m) == [mem[m] EXCEPT !.intent = TRUE,
                                 !.state = "EXECUTION_INTENT_RECORDED"]

CanRecordIntent(m) ==
  /\ In(m, {"APPROVED", "EXECUTION_INTENT_RECORDED"})
  /\ ~mem[m].intent

(* Two saves: the intent, then the state.  saves counts those that returned;
   the first one that does not raises. *)
RecordIntent(m, saves) ==
  /\ CanRecordIntent(m)
  /\ mem' = [mem EXCEPT ![m] = IF saves = 0 THEN WithIntent(m)
                                            ELSE IntentReady(m)]
  /\ disk' = CASE saves = 0 -> disk
               [] saves = 1 -> [disk EXCEPT ![m] = WithIntent(m)]
               [] saves = 2 -> [disk EXCEPT ![m] = IntentReady(m)]
  /\ Faults(IF saves = 2 THEN 0 ELSE 1)
  /\ UNCHANGED <<up, calling>>
  /\ Bookkeeping

(* Mutant: a mission that was approved again may execute again. *)
ExecutingAfterApproval(m, saved) ==
  /\ \/ In(m, {"EXECUTION_INTENT_RECORDED"})
     \/ In(m, {"APPROVED"}) /\ mem[m].intent
  /\ Store(m, [mem[m] EXCEPT !.state = "EXECUTING"], saved)
  /\ calling' = IF saved THEN calling \cup {m} ELSE calling
  /\ Bookkeeping

(* Mutant: executing() changes the state in memory only. *)
ExecutingUnsaved(m, saved) ==
  /\ In(m, {"EXECUTION_INTENT_RECORDED"})
  /\ mem' = [mem EXCEPT ![m].state = "EXECUTING"]
  /\ UNCHANGED <<disk, up, faults>>
  /\ calling' = IF saved THEN calling \cup {m} ELSE calling
  /\ Bookkeeping

(* When the save raises, the driver gets the exception. *)
Executing(m, saved) ==
  /\ In(m, {"EXECUTION_INTENT_RECORDED"})
  /\ Store(m, [mem[m] EXCEPT !.state = "EXECUTING"], saved)
  /\ calling' = IF saved THEN calling \cup {m} ELSE calling
  /\ Bookkeeping

(* The driver contacts the external system. *)
Contact(m) ==
  /\ m \in calling
  /\ calling' = calling \ {m}
  /\ contacts' = [contacts EXCEPT ![m] = @ + 1]
  /\ UNCHANGED <<mem, disk, up, item, byEffect, inherited, recovered, faults>>

(* Mutant: the outcome's status is taken for the mission's state. *)
AfterOutcomeRaw(m, outcome, reason) ==
  [mem[m] EXCEPT !.state = outcome, !.outcome = outcome]

(* The record after record_outcome; an UNKNOWN outcome counts as a failure
   unless the effect is consequential. *)
AfterOutcome(m, outcome, reason) ==
  IF outcome = "UNKNOWN" /\ mem[m].class = "consequential"
  THEN [mem[m] EXCEPT !.state = "RECONCILIATION_REQUIRED",
                      !.outcome = outcome, !.status = reason]
  ELSE [mem[m] EXCEPT
          !.state = IF outcome = "COMPLETED" THEN "COMPLETED" ELSE "FAILED",
          !.outcome = outcome]

(* The driver, or after a restart an operator, reports what it knows. *)
RecordOutcome(m, outcome, reason, saved) ==
  /\ In(m, {"EXECUTING"})
  /\ outcome = "COMPLETED" => contacts[m] > 0
  /\ Store(m, AfterOutcome(m, outcome, reason), saved)
  /\ calling' = calling \ {m}
  /\ Bookkeeping

CancelMission(m, saved) ==
  /\ In(m, MissionLifecycleState \ {"COMPLETED", "RECONCILIATION_REQUIRED",
                                    "CANCELLED"})
  /\ Store(m, [mem[m] EXCEPT !.state = "CANCELLED"], saved)
  /\ UNCHANGED calling
  /\ Bookkeeping

ReconcileResolve(m, outcome, saved) ==
  /\ In(m, {"RECONCILIATION_REQUIRED"})
  /\ Store(m, [mem[m] EXCEPT !.state = outcome, !.outcome = outcome,
                             !.status = "RESOLVED"], saved)
  /\ UNCHANGED calling
  /\ Bookkeeping

-----------------------------------------------------------------------------
(* The reconciliation queue                                                *)

(* Mutant: recovery looks at the missions marked for reconciliation only. *)
NeedsEntryMarked(m) == mem[m].state = "RECONCILIATION_REQUIRED" /\ mem[m].intent

(* The missions recover_after_restart passes to _ensure_entry. *)
NeedsEntry(m) ==
  /\ \/ mem[m].state = "RECONCILIATION_REQUIRED"
     \/ mem[m].state = "EXECUTING" /\ mem[m].outcome = "none"
  /\ mem[m].intent

ReasonOf(m) == CASE mem[m].status = "unknown" -> "persistence"
                 [] mem[m].status = "timeout" -> "timeout"
                 [] OTHER                     -> "found"

Unresolved(m, r) == item[m][r] \in {"QUEUED", "UNDER_REVIEW"}

(* Mutant: only an item of the same id counts as a duplicate. *)
AddsSameId(m) == item[m][ReasonOf(m)] = "none"

(* enqueue makes an item unless the effect has an unresolved one, or the id,
   a hash of mission, effect, intent and reason, is taken. *)
Adds(m) ==
  /\ byEffect[m] = NoReason \/ ~Unresolved(m, byEffect[m])
  /\ item[m][ReasonOf(m)] = "none"

EnqueueItem(missions) ==
  LET new == {m \in missions : Adds(m)}
  IN /\ item' = [m \in Mission |->
                   IF m \in new THEN [item[m] EXCEPT ![ReasonOf(m)] = "QUEUED"]
                                ELSE item[m]]
     /\ byEffect' = [m \in Mission |->
                       IF m \in new THEN ReasonOf(m) ELSE byEffect[m]]

RecoverAfterRestart ==
  /\ up
  /\ EnqueueItem({m \in Mission : NeedsEntry(m)})
  /\ recovered' = TRUE
  /\ UNCHANGED <<manager, contacts, inherited, faults>>

(* The save of an item raises: the items up to it are in the queue. *)
RecoveryFails ==
  /\ up
  /\ \E missions \in SUBSET {m \in Mission : NeedsEntry(m) /\ Adds(m)} :
       missions # {} /\ EnqueueItem(missions)
  /\ Faults(1)
  /\ UNCHANGED <<manager, contacts, inherited, recovered>>

BeginReview(m, r) ==
  /\ item[m][r] = "QUEUED"
  /\ item' = [item EXCEPT ![m][r] = "UNDER_REVIEW"]
  /\ UNCHANGED <<manager, byEffect, contacts, inherited, recovered, faults>>

(* The four resolutions: _resolve asks only that the item is unresolved. *)
Resolve(m, r) ==
  /\ Unresolved(m, r)
  /\ item' = [item EXCEPT ![m][r] = "RESOLVED"]
  /\ UNCHANGED <<manager, byEffect, contacts, inherited, recovered, faults>>

-----------------------------------------------------------------------------
(* Processes                                                               *)

ProcessEnds ==
  /\ up' = FALSE
  /\ mem' = [m \in Mission |-> Absent]
  /\ calling' = {}
  /\ item' = EmptyItems
  /\ byEffect' = EmptyByEffect
  /\ inherited' = {}
  /\ recovered' = FALSE
  /\ Faults(1)
  /\ UNCHANGED contacts

Crash == up /\ ProcessEnds /\ UNCHANGED disk

(* The process dies between the two saves of record_intent. *)
CrashInIntent(m) ==
  /\ CanRecordIntent(m)
  /\ disk' = [disk EXCEPT ![m] = WithIntent(m)]
  /\ ProcessEnds

InFlight(rec) == \/ rec.state = "RECONCILIATION_REQUIRED"
                 \/ rec.state = "EXECUTING" /\ rec.outcome = "none"

Restart ==
  /\ ~up
  /\ up' = TRUE
  /\ mem' = disk
  /\ inherited' = {m \in Mission : InFlight(disk[m])}
  /\ UNCHANGED <<disk, calling, item, byEffect, contacts, recovered, faults>>

ManagerNext(m) ==
  \/ \E saved \in BOOLEAN :
       \/ \E class \in Classes : RequestMission(m, class, saved)
       \/ AwaitingApproval(m, saved)
       \/ Approved(m, saved)
       \/ Executing(m, saved)
       \/ \E outcome \in {"COMPLETED", "FAILED", "UNKNOWN"},
             reason \in Reported :
            RecordOutcome(m, outcome, reason, saved)
       \/ CancelMission(m, saved)
       \/ \E outcome \in {"COMPLETED", "FAILED"} :
            ReconcileResolve(m, outcome, saved)
  \/ \E saves \in 0..2 : RecordIntent(m, saves)
  \/ CrashInIntent(m)

ReconciliationNext ==
  \/ RecoverAfterRestart
  \/ RecoveryFails
  \/ \E m \in Mission, r \in Reason : BeginReview(m, r) \/ Resolve(m, r)

MissionNext ==
  \/ \E m \in Mission : ManagerNext(m) \/ Contact(m)
  \/ ReconciliationNext
  \/ Crash
  \/ Restart

MissionSpec == MissionInit /\ [][MissionNext]_missionVars

-----------------------------------------------------------------------------
(* Properties                                                              *)

(* The outcome on record in the store. *)
Settled == [m \in Mission |-> IF disk[m].outcome \in {"COMPLETED", "FAILED"}
                              THEN disk[m].outcome ELSE "none"]

Account == INSTANCE AccountedEffect WITH settled <- Settled

(* Across crashes, saves that raise and calls in any order, the external
   system of a mission is contacted at most once and the outcome in the
   store is written at most once: the manager implements AccountedEffect. *)
KeepsAccount == Account!AccountSpec

(* What has been contacted is on record in a form from which no successor of
   the process can execute again: executing() accepts only the state
   EXECUTION_INTENT_RECORDED, record_intent only a mission without intent. *)
ContactOnRecord ==
  \A m \in Mission :
    contacts[m] > 0 => /\ disk[m].intent
                       /\ disk[m].state \notin
                            {"absent", "EXECUTION_INTENT_RECORDED"}

(* After a recovery pass, every mission that the process has found in flight
   and that is in flight still has an item in the reconciliation queue. *)
InheritedQueued ==
  recovered => \A m \in inherited :
                 InFlight(mem[m]) => \E r \in Reason : item[m][r] # "none"

(* However often recovery runs, for whatever reasons, an effect has at most
   one item that is not resolved. *)
OneActiveItem ==
  \A m \in Mission : \A r, s \in Reason :
    Unresolved(m, r) /\ Unresolved(m, s) => r = s
=============================================================================
