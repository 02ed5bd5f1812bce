----------------------------- MODULE GovernedRun -----------------------------
(***************************************************************************)
(* Mission Control of portal/services: the command ledger                  *)
(* (mission_control_command_service), the Principal approvals of runs      *)
(* (mission_control_approval_service) and the authority that dispatches    *)
(* runs (durable_orchestration_authority).                                 *)
(*                                                                         *)
(* Every HTTP request is one PostgreSQL transaction at READ COMMITTED,     *)
(* committed or rolled back by get_db.  A SELECT sees committed rows; an   *)
(* UPDATE or INSERT waits for the transaction that has written the row     *)
(* first.  The ORM updates by primary key, from the objects it has loaded. *)
(* The durable engine keeps its workflows in a store of its own: what it   *)
(* has started or cancelled stays so when the transaction rolls back.      *)
(*                                                                         *)
(* A request creates at most one run, one command and one workflow, so     *)
(* all three are named by the request.  One tenant, one active mission per *)
(* capability.                                                             *)
(***************************************************************************)
EXTENDS Naturals

CONSTANTS
  Request,   \* HTTP requests
  Key,       \* idempotency keys of one requester
  Policies,  \* the policies of the missions' capabilities
  Nil

Policy == {"direct", "approval", "denied"}

ASSUME NilAssumption == Nil \notin Request
ASSUME PolicyAssumption == Policies \subseteq Policy

VARIABLES
  run,       \* the table runs
  approval,  \* mission_control_run_approvals, one row per run at most
  command,   \* mission_control_commands: who created the row of a key
  workflow,  \* the durable engine: the workflow each request has started
  request,   \* the requests under way
  draft      \* what each open transaction has written

tables == <<run, approval, command>>
vars   == <<run, approval, command, workflow, request, draft>>

LedgerOps   == {"start", "cancel", "refusal"}
ApprovalOps == {"approve", "reject", "activate"}

RunStatus      == {"absent", "pending", "approval_required", "activating",
                   "active", "failed", "cancelled"}
ApprovalStatus == {"absent", "pending", "consumed", "rejected"}
Workflow       == {"none", "live", "over"}

Steps == {"find", "insert_command", "insert_run", "load_run", "stop",
          "mark_cancelled", "mark_failed", "find_approval",
          "insert_approval", "load_approval", "consume", "activating",
          "dispatch", "commit"}

(* Any exception, a refusal too, rolls the transaction back. *)
Ends  == {"done", "raised"}

RunRow == [status : RunStatus, ref : Request \cup {Nil}]
NoRun  == [status |-> "absent", ref |-> Nil]

RequestState == [pc     : Steps \cup Ends \cup {"new"},
                 op     : LedgerOps \cup ApprovalOps,
                 key    : Key \cup {Nil},
                 policy : Policy,
                 run    : Request \cup {Nil},
                 seen   : RunRow,               \* the row cancel_run loaded
                 answer : Request \cup {Nil}]  \* the command it replied with

(* Columns a transaction has written; "none" and Nil: not written. *)
Draft == [status   : RunStatus \cup {"none"},
          ref      : Request \cup {Nil},
          approval : {"none", "pending", "consumed", "rejected"},
          command  : BOOLEAN]

NoDraft == [status |-> "none", ref |-> Nil, approval |-> "none",
            command |-> FALSE]

TypeOK ==
  /\ run \in [Request -> RunRow]
  /\ approval \in [Request -> ApprovalStatus]
  /\ command \in [Key -> Request \cup {Nil}]
  /\ workflow \in [Request -> Workflow]
  /\ request \in [Request -> RequestState]
  /\ draft \in [Request -> Draft]

Init ==
  /\ run = [r \in Request |-> NoRun]
  /\ approval = [r \in Request |-> "absent"]
  /\ command = [k \in Key |-> Nil]
  /\ workflow = [q \in Request |-> "none"]
  /\ request = [q \in Request |->
                  [pc |-> "new", op |-> "start", key |-> Nil,
                   policy |-> "approval", run |-> Nil, seen |-> NoRun,
                   answer |-> Nil]]
  /\ draft = [q \in Request |-> NoDraft]

-----------------------------------------------------------------------------
(* Transactions                                                            *)

At(q, pc, ops) == request[q].pc = pc /\ request[q].op \in ops
Goto(q, pc)    == request' = [request EXCEPT ![q].pc = pc]

(* The session of the request ends: what it has loaded and not committed
   is gone. *)
EndSession(q, pc) ==
  /\ request' = [request EXCEPT ![q] = [@ EXCEPT !.pc = pc, !.seen = NoRun]]
  /\ draft' = [draft EXCEPT ![q] = NoDraft]

(* Rows another open transaction has written. *)
RunLocked(q) ==
  \E p \in Request \ {q} : /\ request[p].run = request[q].run
                           /\ draft[p].status # "none"
ApprovalLocked(q) ==
  \E p \in Request \ {q} : /\ request[p].run = request[q].run
                           /\ draft[p].approval # "none"
CommandLocked(q) ==
  \E p \in Request \ {q} : /\ request[p].key = request[q].key
                           /\ draft[p].command

(* Mutant: the exception handler keeps the transaction open. *)
AbortKeepsLocks(q) ==
  /\ request[q].pc \in Steps
  /\ Goto(q, "raised")
  /\ UNCHANGED <<tables, workflow, draft>>

(* A failing statement or COMMIT, a lost connection, a crash: PostgreSQL
   forgets the transaction, the engine's store does not. *)
Abort(q) ==
  /\ request[q].pc \in Steps
  /\ EndSession(q, "raised")
  /\ UNCHANGED <<tables, workflow>>

Commit(q) ==
  LET d == draft[q]
      r == request[q].run IN
  /\ request[q].pc = "commit"
  /\ EndSession(q, "done")
  /\ run' = IF d.status = "none" THEN run
            ELSE [run EXCEPT ![r] =
                   [status |-> d.status,
                    ref |-> IF d.ref = Nil THEN @.ref ELSE d.ref]]
  /\ approval' = IF d.approval = "none" THEN approval
                 ELSE [approval EXCEPT ![r] = d.approval]
  /\ command' = IF d.command THEN [command EXCEPT ![request[q].key] = q]
                ELSE command
  /\ UNCHANGED workflow

-----------------------------------------------------------------------------
(* submit_canonical_command                                                *)

Start(q, k, p) ==
  /\ request[q].pc = "new"
  /\ request' = [request EXCEPT ![q] = [@ EXCEPT !.pc = "find", !.op = "start",
                                         !.key = k, !.policy = p,
                                         !.run = q]]
  /\ UNCHANGED <<tables, workflow, draft>>

Cancel(q, k, r) ==
  /\ request[q].pc = "new"
  /\ request' = [request EXCEPT ![q] = [@ EXCEPT !.pc = "find", !.key = k,
                                         !.op = "cancel", !.run = r]]
  /\ UNCHANGED <<tables, workflow, draft>>

(* A pause, a resume, an assignment: recorded and refused. *)
Refusal(q, k) ==
  /\ request[q].pc = "new"
  /\ request' = [request EXCEPT ![q] = [@ EXCEPT !.pc = "find", !.key = k,
                                         !.op = "refusal"]]
  /\ UNCHANGED <<tables, workflow, draft>>

(* canonical_request_hash: a start is the same request as another start of
   the mission, a cancel as another cancel of the run. *)
SameRequest(p, q) ==
  /\ request[p].op = request[q].op
  /\ IF request[p].op = "start" THEN request[p].policy = request[q].policy
                                ELSE request[p].run = request[q].run

(* Mutant: the same request under a used key is inserted once more. *)
NeverReplays(q) ==
  /\ At(q, "find", LedgerOps)
  /\ \/ command[request[q].key] = Nil /\ Goto(q, "insert_command")
     \/ /\ command[request[q].key] # Nil
        /\ Goto(q, IF SameRequest(command[request[q].key], q)
                   THEN "insert_command" ELSE "raised")
  /\ UNCHANGED <<tables, workflow, draft>>

(* _find_existing: a command that is there is replayed or conflicts. *)
FindCommand(q) ==
  LET old == command[request[q].key] IN
  /\ At(q, "find", LedgerOps)
  /\ \/ old = Nil /\ Goto(q, "insert_command")
     \/ /\ old # Nil /\ SameRequest(old, q)
        /\ request' = [request EXCEPT ![q] = [@ EXCEPT !.pc = "done",
                                                       !.answer = old]]
     \/ old # Nil /\ ~SameRequest(old, q) /\ Goto(q, "raised")
  /\ UNCHANGED <<tables, workflow, draft>>

AfterInsert(op) == CASE op = "start"   -> "insert_run"
                     [] op = "cancel"  -> "load_run"
                     [] op = "refusal" -> "commit"

(* Mutant: the table has no unique constraint. *)
InsertCommandTwice(q) ==
  /\ At(q, "insert_command", LedgerOps)
  /\ draft' = [draft EXCEPT ![q].command = TRUE]
  /\ request' = [request EXCEPT ![q] =
       [@ EXCEPT !.answer = q, !.pc = AfterInsert(request[q].op)]]
  /\ UNCHANGED <<tables, workflow>>

(* The flush of the command waits for an insert under the same key and
   fails when that has been committed: a refusal-only command looks again,
   a start or a cancel does not. *)
InsertCommand(q) ==
  /\ At(q, "insert_command", LedgerOps)
  /\ ~CommandLocked(q)
  /\ \/ /\ command[request[q].key] # Nil
        /\ EndSession(q, IF request[q].op = "refusal" THEN "find"
                                                    ELSE "raised")
     \/ /\ command[request[q].key] = Nil
        /\ draft' = [draft EXCEPT ![q].command = TRUE]
        /\ request' = [request EXCEPT ![q] =
             [@ EXCEPT !.answer = q, !.pc = AfterInsert(request[q].op)]]
  /\ UNCHANGED <<tables, workflow>>

(* The policy of the mission's capability, then start_run. *)
InsertRun(q) ==
  /\ At(q, "insert_run", {"start"})
  /\ \/ /\ request[q].policy = "denied"
        /\ Goto(q, "commit")
        /\ UNCHANGED draft
     \/ /\ request[q].policy = "approval"
        /\ draft' = [draft EXCEPT ![q].status = "approval_required"]
        /\ Goto(q, "commit")
     \/ /\ request[q].policy = "direct"
        /\ draft' = [draft EXCEPT ![q].status = "pending"]
        /\ Goto(q, "dispatch")
  /\ UNCHANGED <<tables, workflow>>

(* cancel_run: what it does depends on the row it loads. *)
CancelLoad(q) ==
  LET r == run[request[q].run] IN
  /\ At(q, "load_run", {"cancel"})
  /\ \/ r.status = "absent" /\ Goto(q, "commit")
     \/ /\ r.ref # Nil
        /\ request' = [request EXCEPT ![q] = [@ EXCEPT !.pc = "stop",
                                                       !.seen = r]]
     \/ /\ r.ref = Nil /\ r.status \in {"pending", "approval_required"}
        /\ Goto(q, "mark_cancelled")
     \/ /\ r.ref = Nil
        /\ r.status \notin {"absent", "pending", "approval_required"}
        /\ request' = [request EXCEPT ![q] = [@ EXCEPT !.pc = "mark_failed",
                                                       !.seen = r]]
  /\ UNCHANGED <<tables, workflow, draft>>

(* engine.cancel_workflow, in the engine's own store: it fails for a
   workflow that has ended or has been cancelled before. *)
StopWorkflow(q) ==
  LET w == request[q].seen.ref IN
  /\ At(q, "stop", {"cancel"})
  /\ \/ /\ workflow[w] = "live"
        /\ workflow' = [workflow EXCEPT ![w] = "over"]
        /\ Goto(q, "mark_cancelled")
     \/ /\ workflow[w] # "live"
        /\ UNCHANGED workflow
        /\ Goto(q, "mark_failed")
  /\ UNCHANGED <<tables, draft>>

(* The flush of the run's status: no UPDATE if the object loaded has it. *)
Mark(q) ==
  LET status == IF request[q].pc = "mark_cancelled" THEN "cancelled"
                                                    ELSE "failed" IN
  /\ \/ At(q, "mark_cancelled", {"cancel", "reject"})
     \/ At(q, "mark_failed", {"cancel"})
  /\ Goto(q, "commit")
  /\ \/ request[q].seen.status = status /\ UNCHANGED draft
     \/ /\ request[q].seen.status # status
        /\ ~RunLocked(q)
        /\ draft' = [draft EXCEPT ![q].status = status]
  /\ UNCHANGED <<tables, workflow>>

-----------------------------------------------------------------------------
(* create_approval                                                         *)

Approve(q, decision, r) ==
  /\ request[q].pc = "new"
  /\ request' = [request EXCEPT ![q] = [@ EXCEPT !.pc = "load_run",
                                         !.op = decision, !.run = r]]
  /\ UNCHANGED <<tables, workflow, draft>>

(* Mutant: a rejection marks the run before it records its decision. *)
RejectMarksFirst(q) ==
  LET r == run[request[q].run] IN
  /\ At(q, "load_run", {"approve", "reject"})
  /\ ~RunLocked(q)
  /\ draft' = [draft EXCEPT ![q].status =
                 IF request[q].op = "reject" THEN "cancelled" ELSE "none"]
  /\ Goto(q, IF r.status = "approval_required" /\ r.ref = Nil
             THEN "find_approval" ELSE "raised")
  /\ UNCHANGED <<tables, workflow>>

ApprovalLoadRun(q) ==
  LET r == run[request[q].run] IN
  /\ At(q, "load_run", {"approve", "reject"})
  /\ Goto(q, IF r.status = "approval_required" /\ r.ref = Nil
             THEN "find_approval" ELSE "raised")
  /\ UNCHANGED <<tables, workflow, draft>>

FindApproval(q) ==
  /\ At(q, "find_approval", {"approve", "reject"})
  /\ Goto(q, IF approval[request[q].run] = "absent"
             THEN "insert_approval" ELSE "raised")
  /\ UNCHANGED <<tables, workflow, draft>>

AfterDecision(q) == IF request[q].op = "approve" THEN "commit"
                                                 ELSE "mark_cancelled"

(* Mutant: the insert replaces an existing row. *)
InsertApprovalAgain(q) ==
  /\ At(q, "insert_approval", {"approve", "reject"})
  /\ ~ApprovalLocked(q)
  /\ draft' = [draft EXCEPT ![q].approval =
                 IF request[q].op = "approve" THEN "pending" ELSE "rejected"]
  /\ Goto(q, AfterDecision(q))
  /\ UNCHANGED <<tables, workflow>>

(* UNIQUE(tenant_id, run_id): a second decision waits, then conflicts.  The
   status is PENDING exactly if the decision is APPROVED. *)
InsertApproval(q) ==
  /\ At(q, "insert_approval", {"approve", "reject"})
  /\ ~ApprovalLocked(q)
  /\ \/ approval[request[q].run] # "absent" /\ EndSession(q, "raised")
     \/ /\ approval[request[q].run] = "absent"
        /\ draft' = [draft EXCEPT ![q].approval =
                       IF request[q].op = "approve" THEN "pending"
                                                    ELSE "rejected"]
        /\ Goto(q, AfterDecision(q))
  /\ UNCHANGED <<tables, workflow>>

-----------------------------------------------------------------------------
(* consume_approval_and_activate                                           *)

Activate(q, r) ==
  /\ request[q].pc = "new"
  /\ request' = [request EXCEPT ![q] = [@ EXCEPT !.pc = "load_approval",
                                         !.op = "activate", !.run = r]]
  /\ UNCHANGED <<tables, workflow, draft>>

LoadApproval(q) ==
  /\ At(q, "load_approval", {"activate"})
  /\ Goto(q, IF approval[request[q].run] = "pending" THEN "load_run"
                                                     ELSE "raised")
  /\ UNCHANGED <<tables, workflow, draft>>

(* The object loaded here also answers activate_run's own status check. *)
ActivateLoadRun(q) ==
  /\ At(q, "load_run", {"activate"})
  /\ Goto(q, IF run[request[q].run].status = "approval_required"
             THEN "consume" ELSE "raised")
  /\ UNCHANGED <<tables, workflow, draft>>

(* The UPDATE to CONSUMED names the primary key, not the status. *)
Consume(q) ==
  /\ At(q, "consume", {"activate"})
  /\ ~ApprovalLocked(q)
  /\ draft' = [draft EXCEPT ![q].approval = "consumed"]
  /\ Goto(q, "activating")
  /\ UNCHANGED <<tables, workflow>>

(* Mutant: a column is left out of the flush. *)
MarkActivatingBare(q) ==
  /\ At(q, "activating", {"activate"})
  /\ draft' = [draft EXCEPT ![q] = [status |-> "activating", ref |-> Nil,
                                    approval |-> "consumed"]]
  /\ Goto(q, "dispatch")
  /\ UNCHANGED <<tables, workflow>>

MarkActivating(q) ==
  /\ At(q, "activating", {"activate"})
  /\ ~RunLocked(q)
  /\ draft' = [draft EXCEPT ![q].status = "activating"]
  /\ Goto(q, "dispatch")
  /\ UNCHANGED <<tables, workflow>>

(* Mutant: a dispatch that fails is committed by every caller. *)
DispatchFailsQuietly(q) ==
  /\ At(q, "dispatch", {"start", "activate"})
  /\ draft' = [draft EXCEPT ![q].status = "failed"]
  /\ Goto(q, "commit")
  /\ UNCHANGED <<tables, workflow>>

(* engine.start_workflow raises, perhaps after its first statement.  The
   command service records the failure, activation rolls it back. *)
DispatchFails(q) ==
  /\ At(q, "dispatch", {"start", "activate"})
  /\ \E w \in {"none", "live"} : workflow' = [workflow EXCEPT ![q] = w]
  /\ \/ /\ request[q].op = "start"
        /\ draft' = [draft EXCEPT ![q].status = "failed"]
        /\ Goto(q, "commit")
     \/ request[q].op = "activate" /\ EndSession(q, "raised")
  /\ UNCHANGED tables

(* Mutant: the run is marked ACTIVE without its workflow id. *)
DispatchRunNoRef(q) ==
  /\ At(q, "dispatch", {"start", "activate"})
  /\ workflow' = [workflow EXCEPT ![q] = "live"]
  /\ draft' = [draft EXCEPT ![q].status = "active"]
  /\ Goto(q, "commit")
  /\ UNCHANGED tables

(* _dispatch_run: the workflow starts at once, the run becomes ACTIVE and
   the approval gets its execution_ref with the commit. *)
DispatchRun(q) ==
  /\ At(q, "dispatch", {"start", "activate"})
  /\ workflow' = [workflow EXCEPT ![q] = "live"]
  /\ draft' = [draft EXCEPT ![q] = [@ EXCEPT !.status = "active", !.ref = q]]
  /\ Goto(q, "commit")
  /\ UNCHANGED tables

-----------------------------------------------------------------------------
(* The durable engine: a body ends. *)
WorkflowEnds(w) ==
  /\ workflow[w] = "live"
  /\ workflow' = [workflow EXCEPT ![w] = "over"]
  /\ UNCHANGED <<tables, request, draft>>

(* A client knows a run from the answer to its start, which may be out
   before get_db commits and in spite of it failing. *)
Arrive(q) ==
  \/ \E k \in Key, p \in Policies : Start(q, k, p)
  \/ \E k \in Key : Refusal(q, k)
  \/ \E r \in Request \ {q} :
       /\ request[r].op = "start"
       /\ request[r].pc \in {"commit"} \cup Ends
       /\ \/ \E k \in Key : Cancel(q, k, r)
          \/ \E decision \in {"approve", "reject"} : Approve(q, decision, r)
          \/ Activate(q, r)

RequestNext(q) ==
  \/ FindCommand(q) \/ InsertCommand(q) \/ InsertRun(q)
  \/ CancelLoad(q) \/ StopWorkflow(q) \/ Mark(q)
  \/ ApprovalLoadRun(q) \/ FindApproval(q) \/ InsertApproval(q)
  \/ LoadApproval(q) \/ ActivateLoadRun(q) \/ Consume(q)
  \/ MarkActivating(q) \/ DispatchFails(q) \/ DispatchRun(q) \/ Commit(q)

Next ==
  \E q \in Request :
    Arrive(q) \/ RequestNext(q) \/ Abort(q) \/ WorkflowEnds(q)

Spec == Init /\ [][Next]_vars

(* A request that can go on does: nothing in the code waits except for the
   rows other transactions have written. *)
Fairness == \A q \in Request : WF_vars(RequestNext(q))

FairSpec == Spec /\ Fairness

-----------------------------------------------------------------------------
(* Properties                                                              *)

NeedsApproval(r) == request[r].policy = "approval"

(* "Explicit Principal decision required": no workflow is ever started for
   a run that needs an approval unless the Principal's APPROVED decision
   was committed first, and never one for a run the Principal rejected,
   whatever requests race, fail or are retried. *)
NothingUnapproved ==
  \A q \in Request :
    workflow[q] # "none" /\ NeedsApproval(request[q].run) =>
      approval[request[q].run] \in {"pending", "consumed"}

(* The promise about the runs that need an approval, and how the tables and
   the engine keep it. *)
Decision == [r \in Request |-> CASE approval[r] = "absent"   -> "open"
                                [] approval[r] = "rejected" -> "rejected"
                                [] OTHER                    -> "approved"]
Begun  == {r \in Request :
             NeedsApproval(r) /\ \E q \in Request : /\ request[q].run = r
                                                    /\ workflow[q] # "none"}
Used   == {r \in Request : approval[r] = "consumed"}
Active == {r \in Request : NeedsApproval(r) /\ run[r].status = "active"}

Promise == INSTANCE RunApproval
             WITH Run <- Request, decision <- Decision, begun <- Begun,
                  used <- Used, active <- Active

(* The services implement the promise: a decision stands whatever decisions
   and activations race it, only what is approved begins, and CONSUMED and
   ACTIVE are committed together or not at all. *)
KeepsDecision == Promise!ApprovalSpec

(* "execution_ref required for ACTIVE": what the runs table shows of the
   engine is true.  An ACTIVE run names a workflow that was started for it,
   and a run names no other. *)
ActiveIsTruthful ==
  \A r \in Request :
    /\ run[r].status = "active" => run[r].ref # Nil
    /\ run[r].ref # Nil => /\ workflow[run[r].ref] # "none"
                           /\ request[run[r].ref].run = r

(* An approval is not used up for nothing: it is CONSUMED only if a
   workflow of its run was started, although dispatch may fail in between. *)
ConsumedMeansStarted ==
  \A r \in Request :
    approval[r] = "consumed" =>
      \E q \in Request : request[q].run = r /\ workflow[q] # "none"

(* One command per idempotency key: all requests answered under one key
   were answered with the same command, also when they race or when one
   that held the key is rolled back. *)
OneCommand ==
  \A p, q \in Request :
    /\ request[p].pc = "done" /\ request[p].op \in LedgerOps
    /\ request[q].pc = "done" /\ request[q].op \in LedgerOps
    /\ request[p].key = request[q].key
    => request[p].answer = request[q].answer

(* "Exactly-once consumption via atomic status transition": one activation
   of a run succeeds. *)
ConsumedOnce ==
  \A p, q \in Request :
    /\ request[p].pc = "done" /\ request[p].op = "activate"
    /\ request[q].pc = "done" /\ request[q].op = "activate"
    /\ request[p].run = request[q].run
    => p = q

(* q would write a row that the open transaction of p has written. *)
WaitsFor(q, p) ==
  /\ p # q
  /\ \/ /\ request[q].pc = "insert_command"
        /\ draft[p].command /\ request[p].key = request[q].key
     \/ /\ request[q].pc \in {"insert_approval", "consume"}
        /\ draft[p].approval # "none" /\ request[p].run = request[q].run
     \/ /\ request[q].pc \in {"mark_cancelled", "mark_failed", "activating"}
        /\ draft[p].status # "none" /\ request[p].run = request[q].run

(* No deadlock of transactions: among any requests there is one that waits
   for none of them.  Commands, approvals and runs are written in this
   order by every path, whichever decisions, activations and cancellations
   of a run overlap and wherever they fail. *)
NoCircularWait ==
  \A waiting \in (SUBSET Request) \ {{}} :
    \E q \in waiting : \A p \in waiting : ~WaitsFor(q, p)

(* The steps a request has before it at most. *)
StepsLeft(q) ==
  LET pc == request[q].pc IN
  CASE pc = "find" -> IF command[request[q].key] = Nil THEN 8 ELSE 1
    [] pc = "insert_command" -> 7
    [] pc = "load_approval" -> 6
    [] pc = "load_run" -> 5
    [] pc \in {"insert_run", "find_approval", "consume"} -> 4
    [] pc \in {"stop", "insert_approval", "activating"} -> 3
    [] pc \in {"mark_cancelled", "mark_failed", "dispatch"} -> 2
    [] pc = "commit" -> 1
    [] OTHER -> 0

(* Nothing is tried for ever: every step takes a request that has arrived
   nearer to its end, a refusal that looks for its command again too, and
   no step of another request sets it back. *)
RequestsAdvance ==
  [][\A q \in Request : request[q].pc \in Steps =>
       \/ StepsLeft(q)' < StepsLeft(q)
       \/ StepsLeft(q)' = StepsLeft(q) /\ UNCHANGED request[q]]_vars

(* Requests wait for each other's rows, never for ever. *)
EveryRequestEnds ==
  \A q \in Request : request[q].pc \in Steps ~> request[q].pc \in Ends
=============================================================================
