------------------------------ MODULE Governance ------------------------------
(***************************************************************************)
(* governance: the intervention controller, which humans, agents' threads  *)
(* and the dead man's switch call at once, the approval gate, and          *)
(* before_action, which stands in front of every guarded call.             *)
(*                                                                         *)
(* Both components have one lock.  What runs under it is one action; what  *)
(* is read outside of it - the emergency flag, a request's status - is a   *)
(* step of its own.                                                        *)
(***************************************************************************)
EXTENDS FiniteSets, Naturals

CONSTANTS
  Agent,       \* ids of supervised agents
  GuardedCall  \* calls of before_action, each with its request

VARIABLES
  agentStatus,  \* _agents, "absent" where there is no entry
  emergency,    \* _emergency_stopped
  resuming,     \* the agents a resume_agent has found no emergency for
  braking,      \* the dead man's switch is about to pause all
  call,         \* where each call of before_action is
  ticket,       \* the status of its approval request
  overdue,      \* the requests whose expires_at is over
  answers,      \* history: the approvals and rejections that returned True
  fresh         \* history: the agents registered (again) since the last stop

governanceVars == <<agentStatus, emergency, resuming, braking, call, ticket,
                    overdue, answers, fresh>>

AgentState == {"absent", "running", "paused", "terminating", "killed",
               "emergency_stopped"}
ApprovalStatus == {"none", "PENDING", "APPROVED", "REJECTED", "EXPIRED",
                   "AUTO_APPROVED"}
Answer == {"approve", "reject"}

GovernanceTypeOK ==
  /\ agentStatus \in [Agent -> AgentState]
  /\ emergency \in BOOLEAN
  /\ resuming \subseteq Agent
  /\ braking \in BOOLEAN
  /\ call \in [GuardedCall -> {"new", "checked", "waiting", "looking",
                               "expiring", "deciding", "allowed", "refused",
                               "timed_out"}]
  /\ ticket \in [GuardedCall -> ApprovalStatus]
  /\ overdue \subseteq GuardedCall
  /\ answers \in [GuardedCall -> SUBSET Answer]
  /\ fresh \subseteq Agent

GovernanceInit ==
  /\ agentStatus = [a \in Agent |-> "absent"]
  /\ emergency = FALSE
  /\ resuming = {}
  /\ braking = FALSE
  /\ call = [g \in GuardedCall |-> "new"]
  /\ ticket = [g \in GuardedCall |-> "none"]
  /\ overdue = {}
  /\ answers = [g \in GuardedCall |-> {}]
  /\ fresh = {}

gateVars == <<call, ticket, overdue, answers>>
controllerVars == <<agentStatus, emergency, resuming, braking, fresh>>

-----------------------------------------------------------------------------
(* InterventionController                                                  *)

SetStatus(a, s) == agentStatus' = [agentStatus EXCEPT ![a] = s]

(* The entry is replaced, whatever state it was in: an agent that an emergency
   stop has stopped runs again, emergency or not. *)
RegisterAgent(a) ==
  /\ SetStatus(a, "running")
  /\ fresh' = fresh \cup {a}
  /\ UNCHANGED <<emergency, resuming, braking, gateVars>>

DeregisterAgent(a) ==
  /\ agentStatus[a] # "absent"
  /\ SetStatus(a, "absent")
  /\ UNCHANGED <<emergency, resuming, braking, fresh, gateVars>>

PauseAgent(a) ==
  /\ agentStatus[a] = "running"
  /\ SetStatus(a, "paused")
  /\ UNCHANGED <<emergency, resuming, braking, fresh, gateVars>>

AllPaused == [a \in Agent |->
                IF agentStatus[a] = "running" THEN "paused" ELSE agentStatus[a]]

PauseAll ==
  /\ agentStatus' = AllPaused
  /\ UNCHANGED <<emergency, resuming, braking, fresh, gateVars>>

(* resume_agent: the emergency flag first, outside the lock ... *)
BeginResume(a) ==
  /\ ~emergency
  /\ resuming' = resuming \cup {a}
  /\ UNCHANGED <<agentStatus, emergency, braking, fresh, gateVars>>

(* Mutant: any agent that is known can be resumed. *)
ResumableIfKnown(a) == agentStatus[a] # "absent"

Resumable(a) == agentStatus[a] = "paused"

(* ... then, under it, the agent. *)
ResumeAgent(a) ==
  /\ a \in resuming
  /\ resuming' = resuming \ {a}
  /\ IF Resumable(a) THEN SetStatus(a, "running") ELSE UNCHANGED agentStatus
  /\ UNCHANGED <<emergency, braking, fresh, gateVars>>

(* terminate_task and force_kill, of a task that a is the first agent to have:
   no look at the agent's status. *)
TerminateTask(a) ==
  /\ agentStatus[a] # "absent"
  /\ SetStatus(a, "terminating")
  /\ UNCHANGED <<emergency, resuming, braking, fresh, gateVars>>

ForceKill(a) ==
  /\ agentStatus[a] # "absent"
  /\ SetStatus(a, "killed")
  /\ UNCHANGED <<emergency, resuming, braking, fresh, gateVars>>

EmergencyStop ==
  /\ emergency' = TRUE
  /\ agentStatus' = [a \in Agent |->
       IF agentStatus[a] \in {"absent", "killed"} THEN agentStatus[a]
                                                  ELSE "emergency_stopped"]
  /\ fresh' = {}
  /\ UNCHANGED <<resuming, braking, gateVars>>

(* The flag only: agents stay as the stop has left them. *)
ClearEmergencyStop ==
  /\ emergency' = FALSE
  /\ UNCHANGED <<agentStatus, resuming, braking, fresh, gateVars>>

(* _watchdog_loop: it looks at the flag, then it pauses all. *)
WatchdogLooks ==
  /\ ~emergency
  /\ braking' = TRUE
  /\ UNCHANGED <<agentStatus, emergency, resuming, fresh, gateVars>>

WatchdogPauses ==
  /\ braking
  /\ braking' = FALSE
  /\ agentStatus' = AllPaused
  /\ UNCHANGED <<emergency, resuming, fresh, gateVars>>

-----------------------------------------------------------------------------
(* before_action, and the gate as it uses it.                              *)

Goes(g, pc) == call' = [call EXCEPT ![g] = pc]
Decide(g, s) == ticket' = [ticket EXCEPT ![g] = s]

CheckEmergency(g) ==
  /\ call[g] = "new"
  /\ Goes(g, IF emergency THEN "refused" ELSE "checked")
  /\ UNCHANGED <<ticket, overdue, answers, controllerVars>>

(* The guardrails or the compliance rules refuse; or the risk is low. *)
DecideWithoutGate(g) ==
  /\ call[g] = "checked"
  /\ \E pc \in {"refused", "allowed"} : Goes(g, pc)
  /\ UNCHANGED <<ticket, overdue, answers, controllerVars>>

(* request_approval: PENDING, or AUTO_APPROVED for a trusted action. *)
RequestApproval(g) ==
  /\ call[g] = "checked"
  /\ \/ Decide(g, "PENDING") /\ Goes(g, "waiting")
     \/ Decide(g, "AUTO_APPROVED") /\ Goes(g, "allowed")
  /\ UNCHANGED <<overdue, answers, controllerVars>>

(* is_approved, of which only the write has the lock: the status is read, ... *)
LookAtRequest(g) ==
  /\ call[g] = "waiting"
  /\ Goes(g, IF ticket[g] = "PENDING" THEN "looking" ELSE "deciding")
  /\ UNCHANGED <<ticket, overdue, answers, controllerVars>>

(* ... then the clock, ... *)
LookAtClock(g) ==
  /\ call[g] = "looking"
  /\ Goes(g, IF g \in overdue THEN "expiring" ELSE "deciding")
  /\ UNCHANGED <<ticket, overdue, answers, controllerVars>>

(* ... EXPIRED is written over whatever was decided in between, ... *)
ExpireSeen(g) ==
  /\ call[g] = "expiring"
  /\ Decide(g, "EXPIRED")
  /\ Goes(g, "deciding")
  /\ UNCHANGED <<overdue, answers, controllerVars>>

Verdict(s) ==
  IF s = "PENDING" THEN "waiting" ELSE IF s = "APPROVED" THEN "allowed" ELSE "refused"

(* ... and the status is read again, for the answer. *)
ReturnStatus(g) ==
  /\ call[g] = "deciding"
  /\ Goes(g, Verdict(ticket[g]))
  /\ UNCHANGED <<ticket, overdue, answers, controllerVars>>

(* wait_for_approval is over without a decision it has seen: the call is
   refused, even if the request has been approved since the last look. *)
WaitTimesOut(g) ==
  /\ call[g] = "waiting"
  /\ Goes(g, "timed_out")
  /\ Decide(g, IF ticket[g] = "PENDING" THEN "EXPIRED" ELSE ticket[g])
  /\ UNCHANGED <<overdue, answers, controllerVars>>

ClockPasses(g) ==
  /\ ticket[g] # "none"
  /\ overdue' = overdue \cup {g}
  /\ UNCHANGED <<call, ticket, answers, controllerVars>>

(* Mutant: a request can be answered more than once. *)
AnswerableAlways(g) == ticket[g] # "none"

Answerable(g) == ticket[g] = "PENDING"

(* approve, with the lock; the other outcomes change nothing. *)
Approve(g) ==
  /\ Answerable(g)
  /\ IF g \in overdue
       THEN Decide(g, "EXPIRED") /\ UNCHANGED answers
       ELSE /\ Decide(g, "APPROVED")
            /\ answers' = [answers EXCEPT ![g] = @ \cup {"approve"}]
  /\ UNCHANGED <<call, overdue, controllerVars>>

(* reject does not look at the clock. *)
Reject(g) ==
  /\ Answerable(g)
  /\ Decide(g, "REJECTED")
  /\ answers' = [answers EXCEPT ![g] = @ \cup {"reject"}]
  /\ UNCHANGED <<call, overdue, controllerVars>>

(* get_pending: expire_old_requests *)
ExpireOldRequests ==
  /\ ticket' = [g \in GuardedCall |->
       IF ticket[g] = "PENDING" /\ g \in overdue THEN "EXPIRED" ELSE ticket[g]]
  /\ UNCHANGED <<call, overdue, answers, controllerVars>>

GovernanceNext ==
  \/ PauseAll \/ EmergencyStop \/ ClearEmergencyStop
  \/ WatchdogLooks \/ WatchdogPauses \/ ExpireOldRequests
  \/ \E a \in Agent :
       \/ RegisterAgent(a) \/ DeregisterAgent(a) \/ PauseAgent(a)
       \/ BeginResume(a) \/ ResumeAgent(a) \/ TerminateTask(a) \/ ForceKill(a)
  \/ \E g \in GuardedCall :
       \/ CheckEmergency(g) \/ DecideWithoutGate(g) \/ RequestApproval(g)
       \/ LookAtRequest(g) \/ LookAtClock(g) \/ ExpireSeen(g) \/ ReturnStatus(g)
       \/ WaitTimesOut(g) \/ ClockPasses(g) \/ Approve(g) \/ Reject(g)

GovernanceSpec == GovernanceInit /\ [][GovernanceNext]_governanceVars

-----------------------------------------------------------------------------
(* Properties                                                              *)

(* While an emergency stop is on, no agent runs or is merely paused unless it has
   been registered, or registered again, since the stop: neither a resume that
   looked at the flag before the stop nor the dead man's switch brings one
   back.  register_agent does: see EmergencyHalts. *)
StopHolds ==
  emergency =>
    \A a \in Agent \ fresh : agentStatus[a] \notin {"running", "paused"}

(* What emergency_stop says it does: "All agents are paused and no new actions
   may be started until a human clears the stop."  While the stop is on no agent
   it has stopped comes to run, and no call that is waiting for its approval is
   allowed.  False: register_agent replaces the entry of a stopped agent, and a
   call that looked at the flag before the stop does not look again. *)
EmergencyHalts ==
  [][emergency /\ emergency' =>
       /\ \A a \in Agent :
            agentStatus[a] = "emergency_stopped" => agentStatus'[a] # "running"
       /\ \A g \in GuardedCall :
            call[g] = "deciding" => call'[g] # "allowed"]_governanceVars

(* A call that was allowed after waiting had an approval that returned True to
   the approver and no rejection that did; and one that its wait found refused
   although an approver was told True found the request past its deadline:
   however approvers, the clock and the waiting call interleave. *)
AllowedAsAnswered ==
  \A g \in GuardedCall :
    /\ call[g] = "allowed" /\ ticket[g] \notin {"none", "AUTO_APPROVED"}
         => answers[g] = {"approve"}
    /\ call[g] = "refused" /\ "approve" \in answers[g] => g \in overdue
===============================================================================
