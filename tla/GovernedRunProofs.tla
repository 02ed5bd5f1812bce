-------------------------- MODULE GovernedRunProofs --------------------------
(***************************************************************************)
(* Theorems about GovernedRun, for all sets of requests and keys.          *)
(***************************************************************************)
EXTENDS GovernedRun, TLAPS

(* A request record with some of its fields replaced is one again. *)
LEMMA RequestField ==
  ASSUME TypeOK, NEW q \in Request, NEW s \in RequestState,
         request' = [request EXCEPT ![q] = s]
  PROVE  request' \in [Request -> RequestState]
BY DEF TypeOK

LEMMA RequestPc ==
  ASSUME TypeOK, NEW q \in Request, NEW pc \in Steps \cup Ends, Goto(q, pc)
  PROVE  request' \in [Request -> RequestState]
<1>1. [request[q] EXCEPT !.pc = pc] \in RequestState
  BY DEF TypeOK, RequestState
<1>2. request' = [request EXCEPT ![q] = [request[q] EXCEPT !.pc = pc]]
  BY DEF Goto, TypeOK, RequestState
<1> QED BY <1>1, <1>2, RequestField

LEMMA RequestReply ==
  ASSUME TypeOK, NEW q \in Request, NEW pc \in Steps \cup Ends,
         NEW a \in Request \cup {Nil},
         request' = [request EXCEPT ![q] = [@ EXCEPT !.pc = pc, !.answer = a]]
  PROVE  request' \in [Request -> RequestState]
<1>1. [request[q] EXCEPT !.pc = pc, !.answer = a] \in RequestState
  BY ZenonT(60) DEF TypeOK, RequestState
<1> QED BY <1>1, RequestField

LEMMA RequestSees ==
  ASSUME TypeOK, NEW q \in Request, NEW pc \in Steps \cup Ends,
         NEW r \in RunRow,
         request' = [request EXCEPT ![q] = [@ EXCEPT !.pc = pc, !.seen = r]]
  PROVE  request' \in [Request -> RequestState]
<1>1. [request[q] EXCEPT !.pc = pc, !.seen = r] \in RequestState
  BY ZenonT(60) DEF TypeOK, RequestState
<1> QED BY <1>1, RequestField

LEMMA EndSessionTypes ==
  ASSUME TypeOK, NEW q \in Request, NEW pc \in Steps \cup Ends,
         EndSession(q, pc)
  PROVE  /\ request' \in [Request -> RequestState]
         /\ draft' \in [Request -> Draft]
<1>0. NoRun \in RunRow
  BY DEF NoRun, RunRow, RunStatus
<1>1. [request[q] EXCEPT !.pc = pc, !.seen = NoRun] \in RequestState
  BY ZenonT(60), <1>0 DEF TypeOK, RequestState
<1>2. NoDraft \in Draft
  BY DEF NoDraft, Draft
<1>3. request' = [request EXCEPT ![q] =
                    [request[q] EXCEPT !.pc = pc, !.seen = NoRun]]
  BY DEF EndSession
<1> QED BY <1>1, <1>2, <1>3, RequestField DEF EndSession, TypeOK

(* Where the end of a session leaves the request. *)
LEMMA EndSessionPc ==
  ASSUME TypeOK, NEW q \in Request, NEW pc, EndSession(q, pc)
  PROVE  request'[q].pc = pc /\ draft'[q] = NoDraft
<1>1. request[q] \in RequestState /\ request \in [Request -> RequestState]
  BY DEF TypeOK
<1>2. request'[q] = [request[q] EXCEPT !.pc = pc, !.seen = NoRun]
  BY <1>1 DEF EndSession
<1>3. request'[q].pc = pc
  BY <1>1, <1>2 DEF RequestState
<1> QED BY <1>3 DEF EndSession, TypeOK

(* What a transaction writes next keeps the type of its draft. *)
LEMMA DraftField ==
  ASSUME TypeOK, NEW q \in Request, NEW d \in Draft,
         draft' = [draft EXCEPT ![q] = d]
  PROVE  draft' \in [Request -> Draft]
BY DEF TypeOK

LEMMA DraftColumns ==
  ASSUME TypeOK, NEW q \in Request,
         NEW s \in RunStatus, NEW r \in Request,
         NEW a \in {"pending", "consumed", "rejected"}
  PROVE  /\ [draft[q] EXCEPT !.status = s] \in Draft
         /\ [draft[q] EXCEPT !.status = s, !.ref = r] \in Draft
         /\ [draft[q] EXCEPT !.approval = a] \in Draft
         /\ [draft[q] EXCEPT !.command = TRUE] \in Draft
BY DEF TypeOK, Draft

-----------------------------------------------------------------------------
(* Who a request is: fixed when it arrives. *)

Named ==
  \A q \in Request :
    request[q].pc # "new" =>
      /\ request[q].op \in LedgerOps => request[q].key \in Key
      /\ request[q].op # "refusal" => request[q].run \in Request

TypeInv == TypeOK /\ Named

-----------------------------------------------------------------------------
(* Each step keeps the types.                                              *)

LEMMA CommitTypes ==
  ASSUME TypeOK, NEW q \in Request, Commit(q)
  PROVE  TypeOK'
<1>1. request' \in [Request -> RequestState] /\ draft' \in [Request -> Draft]
  BY EndSessionTypes DEF Commit, Ends
<1>2. draft[q] \in Draft /\ request[q] \in RequestState
  BY DEF TypeOK
<1>3. run' \in [Request -> RunRow]
  <2>1. CASE draft[q].status = "none"
    BY <2>1 DEF Commit, TypeOK
  <2>2. CASE draft[q].status # "none"
    <3> DEFINE r == request[q].run
               new == [status |-> draft[q].status,
                       ref |-> IF draft[q].ref = Nil THEN run[r].ref
                               ELSE draft[q].ref]
    <3>1. run' = [run EXCEPT ![r] = new]
      BY <2>2 DEF Commit
    <3>2. CASE r \in Request
      <4>1. run[r] \in RunRow
        BY <3>2 DEF TypeOK
      <4>2. new \in RunRow
        BY <4>1, <2>2, <1>2 DEF RunRow, Draft
      <4> QED BY <3>1, <3>2, <4>2 DEF TypeOK
    <3>3. CASE r \notin Request
      BY <3>1, <3>3 DEF TypeOK
    <3> QED BY <3>2, <3>3
  <2> QED BY <2>1, <2>2
<1>4. approval' \in [Request -> ApprovalStatus]
  BY <1>2 DEF Commit, TypeOK, ApprovalStatus, Draft
<1>5. command' \in [Key -> Request \cup {Nil}]
  BY DEF Commit, TypeOK
<1>6. workflow' \in [Request -> Workflow]
  BY DEF Commit, TypeOK
<1> QED BY <1>1, <1>3, <1>4, <1>5, <1>6 DEF TypeOK

LEMMA ArriveTypes ==
  ASSUME TypeOK, NEW q \in Request, Arrive(q)
  PROVE  TypeOK'
<1>1. request[q] \in RequestState
  BY DEF TypeOK
<1>2. request' \in [Request -> RequestState]
  <2>1. ASSUME NEW k \in Key, NEW p \in Policy, Start(q, k, p)
        PROVE  request' \in [Request -> RequestState]
    <3>1. [request[q] EXCEPT !.pc = "find", !.op = "start", !.key = k,
                             !.policy = p, !.run = q] \in RequestState
      BY <1>1 DEF RequestState, Steps, LedgerOps
    <3> QED BY <2>1, <3>1, RequestField DEF Start
  <2>2. ASSUME NEW k \in Key, Refusal(q, k)
        PROVE  request' \in [Request -> RequestState]
    <3>1. [request[q] EXCEPT !.pc = "find", !.key = k, !.op = "refusal"]
            \in RequestState
      BY <1>1 DEF RequestState, Steps, LedgerOps
    <3> QED BY <2>2, <3>1, RequestField DEF Refusal
  <2>3. ASSUME NEW k \in Key, NEW r \in Request, Cancel(q, k, r)
        PROVE  request' \in [Request -> RequestState]
    <3>1. [request[q] EXCEPT !.pc = "find", !.key = k, !.op = "cancel",
                             !.run = r] \in RequestState
      BY <1>1 DEF RequestState, Steps, LedgerOps
    <3> QED BY <2>3, <3>1, RequestField DEF Cancel
  <2>4. ASSUME NEW d \in {"approve", "reject"}, NEW r \in Request,
               Approve(q, d, r)
        PROVE  request' \in [Request -> RequestState]
    <3>1. [request[q] EXCEPT !.pc = "load_run", !.op = d, !.run = r]
            \in RequestState
      BY <1>1 DEF RequestState, Steps, ApprovalOps
    <3> QED BY <2>4, <3>1, RequestField DEF Approve
  <2>5. ASSUME NEW r \in Request, Activate(q, r)
        PROVE  request' \in [Request -> RequestState]
    <3>1. [request[q] EXCEPT !.pc = "load_approval", !.op = "activate",
                             !.run = r] \in RequestState
      BY <1>1 DEF RequestState, Steps, ApprovalOps
    <3> QED BY <2>5, <3>1, RequestField DEF Activate
  <2> QED BY <2>1, <2>2, <2>3, <2>4, <2>5, PolicyAssumption DEF Arrive
<1>3. UNCHANGED <<run, approval, command, workflow, draft>>
  BY DEF Arrive, Start, Refusal, Cancel, Approve, Activate, tables
<1> QED BY <1>2, <1>3 DEF TypeOK

(* The steps of submit_canonical_command. *)
LEMMA LedgerTypes ==
  ASSUME TypeInv, NEW q \in Request,
         \/ FindCommand(q) \/ InsertCommand(q) \/ InsertRun(q)
         \/ CancelLoad(q) \/ StopWorkflow(q) \/ Mark(q)
  PROVE  TypeOK'
<1> USE DEF TypeInv
<1>0. request[q] \in RequestState /\ request[q].op \in LedgerOps \cup ApprovalOps
  BY DEF TypeOK, RequestState
<1>1. UNCHANGED <<run, approval, command>>
  BY DEF FindCommand, InsertCommand, InsertRun, CancelLoad, StopWorkflow,
         Mark, tables
<1>2. SUFFICES /\ request' \in [Request -> RequestState]
               /\ draft' \in [Request -> Draft]
               /\ workflow' \in [Request -> Workflow]
  BY <1>1 DEF TypeOK
<1>3. CASE FindCommand(q)
  <2>1. command[request[q].key] \in Request \cup {Nil}
    BY <1>3 DEF FindCommand, At, Named, TypeOK, LedgerOps
  <2>2. \/ Goto(q, "insert_command") \/ Goto(q, "raised")
        \/ request' = [request EXCEPT ![q] =
             [@ EXCEPT !.pc = "done", !.answer = command[request[q].key]]]
    BY <1>3 DEF FindCommand
  <2>3. request' \in [Request -> RequestState]
    BY <2>1, <2>2, RequestPc, RequestReply DEF Steps, Ends
  <2> QED BY <1>3, <2>3 DEF FindCommand, TypeOK
<1>4. CASE InsertCommand(q)
  <2>1. CASE /\ command[request[q].key] # Nil
             /\ EndSession(q, IF request[q].op = "refusal" THEN "find"
                                                           ELSE "raised")
    BY <2>1, <1>4, EndSessionTypes DEF InsertCommand, Steps, Ends, TypeOK
  <2>2. CASE /\ draft' = [draft EXCEPT ![q].command = TRUE]
             /\ request' = [request EXCEPT ![q] =
                  [@ EXCEPT !.answer = q, !.pc = AfterInsert(request[q].op)]]
    <3>1. AfterInsert(request[q].op) \in Steps
      BY <1>4 DEF InsertCommand, At, LedgerOps, AfterInsert, Steps
    <3>2. [request[q] EXCEPT !.answer = q, !.pc = AfterInsert(request[q].op)]
            \in RequestState
      BY <1>0, <3>1 DEF RequestState
    <3>3. [draft[q] EXCEPT !.command = TRUE] \in Draft
      BY DEF TypeOK, Draft
    <3> QED BY <1>4, <2>2, <3>2, <3>3, RequestField, DraftField
            DEF InsertCommand, TypeOK
  <2> QED BY <1>4, <2>1, <2>2 DEF InsertCommand
<1>5. CASE InsertRun(q)
  <2>1. Goto(q, "commit") \/ Goto(q, "dispatch")
    BY <1>5 DEF InsertRun
  <2>2. request' \in [Request -> RequestState]
    BY <2>1, RequestPc DEF Steps
  <2>3. \/ draft' = draft
        \/ draft' = [draft EXCEPT ![q] =
                       [draft[q] EXCEPT !.status = "approval_required"]]
        \/ draft' = [draft EXCEPT ![q] = [draft[q] EXCEPT !.status = "pending"]]
    BY <1>5 DEF InsertRun
  <2>4. draft' \in [Request -> Draft]
    BY <2>3 DEF TypeOK, Draft, RunStatus
  <2> QED BY <1>5, <2>2, <2>4 DEF InsertRun, TypeOK
<1>6. CASE CancelLoad(q)
  <2>1. run[request[q].run] \in RunRow
    BY <1>6 DEF CancelLoad, At, Named, TypeOK
  <2>2. \/ Goto(q, "commit") \/ Goto(q, "mark_cancelled")
        \/ request' = [request EXCEPT ![q] =
             [@ EXCEPT !.pc = "stop", !.seen = run[request[q].run]]]
        \/ request' = [request EXCEPT ![q] =
             [@ EXCEPT !.pc = "mark_failed", !.seen = run[request[q].run]]]
    BY <1>6 DEF CancelLoad
  <2>3. request' \in [Request -> RequestState]
    BY <2>1, <2>2, RequestPc, RequestSees DEF Steps
  <2> QED BY <1>6, <2>3 DEF CancelLoad, TypeOK
<1>7. CASE StopWorkflow(q)
  <2>1. request' \in [Request -> RequestState]
    BY <1>7, RequestPc DEF StopWorkflow, Steps
  <2> QED BY <1>7, <2>1 DEF StopWorkflow, TypeOK, Workflow
<1>8. CASE Mark(q)
  <2>1. request' \in [Request -> RequestState]
    BY <1>8, RequestPc DEF Mark, Steps
  <2>2. \/ draft' = draft
        \/ \E s \in {"cancelled", "failed"} :
             draft' = [draft EXCEPT ![q] = [draft[q] EXCEPT !.status = s]]
    BY <1>8 DEF Mark
  <2>3. draft' \in [Request -> Draft]
    BY <2>2 DEF TypeOK, Draft, RunStatus
  <2> QED BY <1>8, <2>1, <2>3 DEF Mark, TypeOK
<1> QED BY <1>3, <1>4, <1>5, <1>6, <1>7, <1>8

(* The steps of the approval service. *)
LEMMA ApprovalTypes ==
  ASSUME TypeOK, NEW q \in Request,
         \/ ApprovalLoadRun(q) \/ FindApproval(q) \/ InsertApproval(q)
         \/ LoadApproval(q) \/ ActivateLoadRun(q) \/ Consume(q)
         \/ MarkActivating(q) \/ DispatchFails(q) \/ DispatchRun(q)
  PROVE  TypeOK'
<1>1. UNCHANGED <<run, approval, command>>
  BY DEF ApprovalLoadRun, FindApproval, InsertApproval, LoadApproval,
         ActivateLoadRun, Consume, MarkActivating, DispatchFails,
         DispatchRun, tables
<1>2. SUFFICES /\ request' \in [Request -> RequestState]
               /\ draft' \in [Request -> Draft]
               /\ workflow' \in [Request -> Workflow]
  BY <1>1 DEF TypeOK
<1>3. CASE ApprovalLoadRun(q) \/ FindApproval(q) \/ LoadApproval(q)
           \/ ActivateLoadRun(q)
  <2>1. request' \in [Request -> RequestState]
    BY <1>3, RequestPc DEF ApprovalLoadRun, FindApproval, LoadApproval,
         ActivateLoadRun, Steps, Ends
  <2> QED BY <1>3, <2>1 DEF ApprovalLoadRun, FindApproval, LoadApproval,
         ActivateLoadRun, TypeOK
<1>4. CASE InsertApproval(q)
  <2>1. CASE EndSession(q, "raised")
    BY <2>1, <1>4, EndSessionTypes DEF InsertApproval, Ends, TypeOK
  <2>2. CASE /\ draft' = [draft EXCEPT ![q].approval =
                            IF request[q].op = "approve" THEN "pending"
                                                         ELSE "rejected"]
             /\ Goto(q, AfterDecision(q))
    <3>1. request' \in [Request -> RequestState]
      BY <2>2, RequestPc DEF AfterDecision, Steps
    <3>2. \E a \in {"pending", "consumed", "rejected"} :
            draft' = [draft EXCEPT ![q] = [draft[q] EXCEPT !.approval = a]]
      BY <2>2
    <3>3. draft' \in [Request -> Draft]
      BY <3>2 DEF TypeOK, Draft
    <3> QED BY <1>4, <3>1, <3>3 DEF InsertApproval, TypeOK
  <2> QED BY <1>4, <2>1, <2>2 DEF InsertApproval
<1>5. CASE Consume(q) \/ MarkActivating(q)
  <2>1. request' \in [Request -> RequestState]
    BY <1>5, RequestPc DEF Consume, MarkActivating, Steps
  <2>2. \/ draft' = [draft EXCEPT ![q] =
                       [draft[q] EXCEPT !.approval = "consumed"]]
        \/ draft' = [draft EXCEPT ![q] =
                       [draft[q] EXCEPT !.status = "activating"]]
    BY <1>5 DEF Consume, MarkActivating
  <2>3. draft' \in [Request -> Draft]
    BY <2>2 DEF TypeOK, Draft, RunStatus
  <2> QED BY <1>5, <2>1, <2>3 DEF Consume, MarkActivating, TypeOK
<1>6. CASE DispatchFails(q)
  <2>1. workflow' \in [Request -> Workflow]
    BY <1>6 DEF DispatchFails, TypeOK, Workflow
  <2>2. CASE /\ draft' = [draft EXCEPT ![q].status = "failed"]
             /\ Goto(q, "commit")
    <3>1. request' \in [Request -> RequestState]
      BY <2>2, RequestPc DEF Steps
    <3>2. draft' \in [Request -> Draft]
      BY SMTT(30), <2>2 DEF TypeOK, Draft, RunStatus
    <3> QED BY <2>1, <3>1, <3>2
  <2>3. CASE EndSession(q, "raised")
    BY <2>1, <2>3, EndSessionTypes DEF Ends
  <2> QED BY <1>6, <2>2, <2>3 DEF DispatchFails
<1>7. CASE DispatchRun(q)
  <2>1. request' \in [Request -> RequestState]
    BY <1>7, RequestPc DEF DispatchRun, Steps
  <2>2. [draft[q] EXCEPT !.status = "active", !.ref = q] \in Draft
    BY DEF TypeOK, Draft, RunStatus
  <2>3. draft' \in [Request -> Draft]
    BY <1>7, <2>2, DraftField DEF DispatchRun
  <2> QED BY <1>7, <2>1, <2>3 DEF DispatchRun, TypeOK, Workflow
<1> QED BY <1>3, <1>4, <1>5, <1>6, <1>7

LEMMA AbortTypes ==
  ASSUME TypeOK, NEW q \in Request, Abort(q)
  PROVE  TypeOK'
BY EndSessionTypes DEF Abort, Ends, TypeOK, tables

LEMMA EngineTypes ==
  ASSUME TypeOK, NEW w \in Request, WorkflowEnds(w)
  PROVE  TypeOK'
BY DEF WorkflowEnds, TypeOK, Workflow, tables

(* Only its arrival says who a request is. *)
Same(p) ==
  /\ request'[p].op = request[p].op
  /\ request'[p].key = request[p].key
  /\ request'[p].policy = request[p].policy
  /\ request'[p].run = request[p].run
  /\ request'[p].pc = "new" <=> request[p].pc = "new"

Reply(q, pc, a) ==
  request' = [request EXCEPT ![q] = [@ EXCEPT !.pc = pc, !.answer = a]]

Sees(q, pc, r) ==
  request' = [request EXCEPT ![q] = [@ EXCEPT !.pc = pc, !.seen = r]]

LEMMA Moves ==
  ASSUME TypeOK, NEW q \in Request, NEW p \in Request,
         request[q].pc \in Steps, NEW pc \in Steps \cup Ends,
         \/ Goto(q, pc)
         \/ EndSession(q, pc)
         \/ \E a : Reply(q, pc, a)
         \/ \E r : Sees(q, pc, r)
  PROVE  Same(p)
<1>1. request[q] \in RequestState /\ request \in [Request -> RequestState]
  BY DEF TypeOK
<1>2. pc # "new" /\ request[q].pc # "new"
  BY DEF Steps, Ends
<1>3. CASE p # q
  BY <1>1, <1>3 DEF Same, Goto, EndSession, Reply, Sees
<1>4. CASE p = q
  <2>1. CASE Goto(q, pc)
    BY <1>1, <1>2, <1>4, <2>1 DEF Same, Goto, RequestState
  <2>2. CASE EndSession(q, pc)
    BY <1>1, <1>2, <1>4, <2>2 DEF Same, EndSession, RequestState
  <2>3. CASE \E a : Reply(q, pc, a)
    <3>1. PICK a : Reply(q, pc, a)
      BY <2>3
    <3>2. request'[q] = [request[q] EXCEPT !.pc = pc, !.answer = a]
      BY <1>1, <3>1 DEF Reply
    <3> QED BY <1>1, <1>2, <1>4, <3>2 DEF Same, RequestState
  <2>4. CASE \E r : Sees(q, pc, r)
    BY ZenonT(60), <1>1, <1>2, <1>4, <2>4 DEF Same, Sees, RequestState
  <2> QED BY <2>1, <2>2, <2>3, <2>4
<1> QED BY <1>3, <1>4

LEMMA Identity ==
  ASSUME TypeOK, NEW q \in Request, RequestNext(q) \/ Abort(q) \/ WorkflowEnds(q),
         NEW p \in Request
  PROVE  Same(p)
<1>1. CASE WorkflowEnds(q)
  BY <1>1 DEF WorkflowEnds, Same
<1>2. CASE Abort(q)
  BY <1>2, Moves DEF Abort, Ends
<1>3. CASE Commit(q)
  BY <1>3, Moves DEF Commit, Steps, Ends
<1>4. CASE FindCommand(q)
  <2>1. \/ Goto(q, "insert_command") \/ Goto(q, "raised")
        \/ Reply(q, "done", command[request[q].key])
    BY <1>4 DEF FindCommand, Reply
  <2>2. request[q].pc \in Steps
    BY <1>4 DEF FindCommand, At, Steps
  <2> QED BY <2>1, <2>2, Moves DEF Steps, Ends
<1>5. CASE InsertCommand(q)
  <2>1. request[q].pc \in Steps /\ request[q].op \in LedgerOps
    BY <1>5 DEF InsertCommand, At, Steps
  <2>2. AfterInsert(request[q].op) \in Steps
    BY <2>1 DEF LedgerOps, AfterInsert, Steps
  <2>3. \/ EndSession(q, "find") \/ EndSession(q, "raised")
        \/ Reply(q, AfterInsert(request[q].op), q)
    BY <1>5 DEF InsertCommand, Reply
  <2> QED BY <2>1, <2>2, <2>3, Moves DEF Steps, Ends
<1>6. CASE InsertRun(q) \/ StopWorkflow(q) \/ Mark(q)
  <2>1. request[q].pc \in Steps
    BY <1>6 DEF InsertRun, StopWorkflow, Mark, At, Steps
  <2>2. \E pc \in Steps : Goto(q, pc)
    BY <1>6 DEF InsertRun, StopWorkflow, Mark, Steps
  <2> QED BY <2>1, <2>2, Moves
<1>7. CASE CancelLoad(q)
  <2>1. request[q].pc \in Steps
    BY <1>7 DEF CancelLoad, At, Steps
  <2>2. \/ \E pc \in Steps : Goto(q, pc)
        \/ \E pc \in Steps : Sees(q, pc, run[request[q].run])
    BY <1>7 DEF CancelLoad, Sees, Steps
  <2> QED BY <2>1, <2>2, Moves
<1>8. CASE \/ ApprovalLoadRun(q) \/ FindApproval(q) \/ LoadApproval(q)
           \/ ActivateLoadRun(q) \/ Consume(q) \/ MarkActivating(q)
           \/ DispatchRun(q)
  <2>1. request[q].pc \in Steps
    BY <1>8 DEF ApprovalLoadRun, FindApproval, LoadApproval,
         ActivateLoadRun, Consume, MarkActivating, DispatchRun, At, Steps
  <2>2. \E pc \in Steps \cup Ends : Goto(q, pc)
    BY <1>8 DEF ApprovalLoadRun, FindApproval, LoadApproval,
         ActivateLoadRun, Consume, MarkActivating, DispatchRun, Steps, Ends
  <2> QED BY <2>1, <2>2, Moves
<1>9. CASE InsertApproval(q) \/ DispatchFails(q)
  <2>1. request[q].pc \in Steps
    BY <1>9 DEF InsertApproval, DispatchFails, At, Steps
  <2>2. \/ Goto(q, "commit") \/ Goto(q, "mark_cancelled")
        \/ EndSession(q, "raised")
    BY <1>9 DEF InsertApproval, DispatchFails, AfterDecision
  <2> QED BY <2>1, <2>2, Moves DEF Steps, Ends
<1> QED BY <1>1, <1>2, <1>3, <1>4, <1>5, <1>6, <1>7, <1>8, <1>9
        DEF RequestNext

(* What an arrival does. *)
LEMMA Arrival ==
  ASSUME TypeOK, NEW q \in Request, Arrive(q)
  PROVE  /\ request[q].pc = "new"
         /\ request'[q].pc \in {"find", "load_run", "load_approval"}
         /\ \A p \in Request \ {q} : request'[p] = request[p]
         /\ UNCHANGED <<tables, workflow, draft>>
         /\ \/ /\ request'[q].op = "start" /\ request'[q].key \in Key
               /\ request'[q].run = q /\ request'[q].pc = "find"
            \/ /\ request'[q].op = "refusal" /\ request'[q].key \in Key
               /\ request'[q].pc = "find"
            \/ /\ request'[q].op = "cancel" /\ request'[q].key \in Key
               /\ request'[q].run \in Request /\ request'[q].pc = "find"
            \/ /\ request'[q].op \in {"approve", "reject"}
               /\ request'[q].run \in Request /\ request'[q].pc = "load_run"
            \/ /\ request'[q].op = "activate"
               /\ request'[q].run \in Request
               /\ request'[q].pc = "load_approval"
<1>1. request[q] \in RequestState /\ request \in [Request -> RequestState]
  BY DEF TypeOK
<1>2. ASSUME NEW k \in Key, NEW p \in Policy, Start(q, k, p)
      PROVE  /\ request'[q].op = "start" /\ request'[q].key \in Key
             /\ request'[q].run = q /\ request'[q].pc = "find"
  BY <1>1, <1>2 DEF Start, RequestState
<1>3. ASSUME NEW k \in Key, Refusal(q, k)
      PROVE  /\ request'[q].op = "refusal" /\ request'[q].key \in Key
             /\ request'[q].pc = "find"
  BY <1>1, <1>3 DEF Refusal, RequestState
<1>4. ASSUME NEW k \in Key, NEW r \in Request, Cancel(q, k, r)
      PROVE  /\ request'[q].op = "cancel" /\ request'[q].key \in Key
             /\ request'[q].run \in Request /\ request'[q].pc = "find"
  BY <1>1, <1>4 DEF Cancel, RequestState
<1>5. ASSUME NEW d \in {"approve", "reject"}, NEW r \in Request,
             Approve(q, d, r)
      PROVE  /\ request'[q].op \in {"approve", "reject"}
             /\ request'[q].run \in Request /\ request'[q].pc = "load_run"
  BY <1>1, <1>5 DEF Approve, RequestState
<1>6. ASSUME NEW r \in Request, Activate(q, r)
      PROVE  /\ request'[q].op = "activate"
             /\ request'[q].run \in Request
             /\ request'[q].pc = "load_approval"
  BY <1>1, <1>6 DEF Activate, RequestState
<1>7. /\ request[q].pc = "new"
      /\ \A p \in Request \ {q} : request'[p] = request[p]
      /\ UNCHANGED <<tables, workflow, draft>>
  BY <1>1 DEF Arrive, Start, Refusal, Cancel, Approve, Activate
<1> QED
  BY <1>2, <1>3, <1>4, <1>5, <1>6, <1>7, PolicyAssumption DEF Arrive

LEMMA NamedStep ==
  ASSUME TypeInv, [Next]_vars
  PROVE  Named'
<1> USE DEF TypeInv
<1>1. CASE UNCHANGED vars
  BY <1>1 DEF vars, Named
<1>2. ASSUME NEW q \in Request, RequestNext(q) \/ Abort(q) \/ WorkflowEnds(q)
      PROVE  Named'
  <2>1. \A p \in Request : Same(p)
    BY <1>2, Identity
  <2> QED BY <2>1 DEF Named, Same
<1>3. ASSUME NEW q \in Request, Arrive(q)
      PROVE  Named'
  BY <1>3, Arrival DEF Named, LedgerOps
<1> QED BY <1>1, <1>2, <1>3 DEF Next

LEMMA TypeStep ==
  ASSUME TypeInv, [Next]_vars
  PROVE  TypeInv'
<1> USE DEF TypeInv
<1>1. CASE UNCHANGED vars
  BY <1>1 DEF vars, TypeOK, Named
<1>2. ASSUME NEW q \in Request,
             Arrive(q) \/ RequestNext(q) \/ Abort(q) \/ WorkflowEnds(q)
      PROVE  TypeOK'
  BY <1>2, ArriveTypes, LedgerTypes, ApprovalTypes, CommitTypes, AbortTypes,
     EngineTypes DEF RequestNext
<1> QED BY <1>1, <1>2, NamedStep DEF Next

LEMMA TypeInit ==
  ASSUME Init
  PROVE  TypeInv
BY DEF Init, TypeInv, TypeOK, Named, RunRow, NoRun, RunStatus, Draft, NoDraft,
       RequestState, LedgerOps, Policy, ApprovalStatus, Workflow

(* Every variable keeps its type: the drafts and the rows the sessions have
   loaded, the tables their commits write, the engine's workflows. *)
THEOREM TypeCorrect == Spec => []TypeOK
<1>1. Init => TypeInv
  BY TypeInit
<1>2. TypeInv /\ [Next]_vars => TypeInv'
  BY TypeStep
<1>3. TypeInv => TypeOK
  BY DEF TypeInv
<1> QED BY <1>1, <1>2, <1>3, PTL DEF Spec

-----------------------------------------------------------------------------
(* What a step writes about approvals.                                     *)

LEMMA ApprovalDrafts ==
  ASSUME TypeInv, NEW q \in Request, RequestNext(q) \/ Abort(q)
  PROVE  /\ \A p \in Request \ {q} : draft'[p] = draft[p]
         /\ \/ draft'[q].approval \in {draft[q].approval, "none"}
            \/ /\ ~ApprovalLocked(q)
               /\ approval[request[q].run] = "absent"
               /\ draft'[q].approval \in {"pending", "rejected"}
            \/ ~ApprovalLocked(q) /\ draft'[q].approval = "consumed"
<1>0. draft \in [Request -> Draft]
  BY DEF TypeInv, TypeOK
<1>1. CASE Abort(q) \/ Commit(q)
  BY <1>0, <1>1 DEF Abort, Commit, EndSession, NoDraft
<1>2. CASE \/ FindCommand(q) \/ InsertRun(q) \/ CancelLoad(q)
           \/ StopWorkflow(q) \/ Mark(q) \/ ApprovalLoadRun(q)
           \/ FindApproval(q) \/ LoadApproval(q) \/ ActivateLoadRun(q)
           \/ MarkActivating(q)
  <2>1. draft' = draft \/ \E s : draft' = [draft EXCEPT ![q].status = s]
    BY <1>2 DEF FindCommand, InsertRun, CancelLoad, StopWorkflow, Mark,
         ApprovalLoadRun, FindApproval, LoadApproval, ActivateLoadRun,
         MarkActivating
  <2> QED BY <1>0, <2>1 DEF Draft
<1>3. CASE InsertCommand(q)
  BY <1>0, <1>3 DEF InsertCommand, EndSession, NoDraft, Draft
<1>4. CASE InsertApproval(q)
  BY <1>0, <1>4 DEF InsertApproval, EndSession, NoDraft, Draft
<1>5. CASE Consume(q)
  BY <1>0, <1>5 DEF Consume, Draft
<1>6. CASE DispatchFails(q)
  BY <1>0, <1>6 DEF DispatchFails, EndSession, NoDraft, Draft
<1>7. CASE DispatchRun(q)
  BY <1>0, <1>7 DEF DispatchRun, Draft
<1> QED BY <1>1, <1>2, <1>3, <1>4, <1>5, <1>6, <1>7 DEF RequestNext

(* Only a commit changes the tables, by what it has drafted. *)
LEMMA TableWrites ==
  ASSUME TypeInv, NEW q \in Request, RequestNext(q) \/ Abort(q)
  PROVE  \/ UNCHANGED <<approval, command>>
         \/ /\ request[q].pc = "commit"
            /\ request'[q].pc = "done"
            /\ request'[q].answer = request[q].answer
            /\ draft'[q] = NoDraft
            /\ approval' = IF draft[q].approval = "none" THEN approval
                           ELSE [approval EXCEPT ![request[q].run] =
                                                    draft[q].approval]
            /\ command' = IF draft[q].command
                          THEN [command EXCEPT ![request[q].key] = q]
                          ELSE command
<1>1. CASE Commit(q)
  BY <1>1 DEF Commit, EndSession, TypeInv, TypeOK, RequestState
<1>2. CASE ~Commit(q)
  BY <1>2 DEF RequestNext, Abort, FindCommand, InsertCommand, InsertRun,
       CancelLoad, StopWorkflow, Mark, ApprovalLoadRun, FindApproval,
       InsertApproval, LoadApproval, ActivateLoadRun, Consume,
       MarkActivating, DispatchFails, DispatchRun, tables
<1> QED BY <1>1, <1>2

LEMMA UnderWay ==
  ASSUME NEW q \in Request, RequestNext(q) \/ Abort(q)
  PROVE  request[q].pc # "new"
BY DEF RequestNext, Abort, Commit, FindCommand, InsertCommand, InsertRun,
     CancelLoad, StopWorkflow, Mark, ApprovalLoadRun, FindApproval,
     InsertApproval, LoadApproval, ActivateLoadRun, Consume, MarkActivating,
     DispatchFails, DispatchRun, At, Steps

(* A decision is drafted only while there is none, and by one request. *)
Held ==
  \A q \in Request :
    /\ request[q].pc = "new" => draft[q].approval = "none"
    /\ draft[q].approval \in {"pending", "rejected"} =>
         approval[request[q].run] = "absent"
    /\ \A p \in Request \ {q} :
         draft[p].approval # "none" /\ draft[q].approval # "none" =>
           request[p].run # request[q].run

Approvals(r) == approval[r] \in {"pending", "consumed"}

(* An APPROVED decision that was committed is never withdrawn. *)
LEMMA ApprovalsStand ==
  ASSUME TypeInv, Held, NEW q \in Request, RequestNext(q) \/ Abort(q),
         NEW r \in Request, Approvals(r)
  PROVE  Approvals(r)'
<1>1. CASE approval' = approval
  BY <1>1 DEF Approvals
<1>2. CASE /\ draft[q].approval # "none"
           /\ approval' = [approval EXCEPT ![request[q].run] =
                                               draft[q].approval]
  <2>1. CASE request[q].run = r
    <3>1. draft[q].approval = "consumed"
      BY <1>2, <2>1 DEF Held, Approvals, TypeInv, TypeOK, Draft
    <3> QED BY <1>2, <3>1, <2>1 DEF Approvals, TypeInv, TypeOK
  <2>2. CASE request[q].run # r
    BY <1>2, <2>2 DEF Approvals, TypeInv, TypeOK
  <2> QED BY <2>1, <2>2
<1> QED BY <1>1, <1>2, TableWrites

LEMMA HeldStep ==
  ASSUME TypeInv, Held, [Next]_vars
  PROVE  Held'
<1>1. CASE UNCHANGED vars
  BY <1>1 DEF vars, tables, Held, ApprovalLocked
<1>2. ASSUME NEW q \in Request, WorkflowEnds(q)
      PROVE  Held'
  BY <1>2 DEF WorkflowEnds, tables, Held
<1>3. ASSUME NEW q \in Request, Arrive(q)
      PROVE  Held'
  <2>1. /\ request[q].pc = "new" /\ request'[q].pc # "new"
        /\ \A p \in Request \ {q} : request'[p] = request[p]
        /\ UNCHANGED <<approval, draft>>
    BY <1>3, Arrival DEF TypeInv, tables
  <2>2. draft[q].approval = "none"
    BY <2>1 DEF Held
  <2> QED BY <2>1, <2>2 DEF Held
<1>4. ASSUME NEW q \in Request, RequestNext(q) \/ Abort(q)
      PROVE  Held'
  <2>1. \A p \in Request : Same(p)
    BY <1>4, Identity DEF TypeInv
  <2>2. request[q].pc # "new"
    BY <1>4, UnderWay
  <2>3. ASSUME NEW s \in Request
        PROVE  request'[s].pc = "new" => draft'[s].approval = "none"
    <3>1. CASE s = q
      BY <2>1, <2>2, <3>1 DEF Same
    <3>2. CASE s # q
      BY <2>1, <3>2, <1>4, ApprovalDrafts DEF Same, Held
    <3> QED BY <3>1, <3>2
  <2>4. ASSUME NEW s \in Request, NEW p \in Request \ {s},
               draft'[p].approval # "none", draft'[s].approval # "none"
        PROVE  request'[p].run # request'[s].run
    <3>1. \A t \in Request : draft'[t].approval # "none" =>
            draft[t].approval # "none" \/ (t = q /\ ~ApprovalLocked(q))
      BY <1>4, ApprovalDrafts
    <3>2. CASE draft[p].approval # "none" /\ draft[s].approval # "none"
      BY <3>2, <2>1 DEF Held, Same
    <3>3. CASE p = q /\ ~ApprovalLocked(q) /\ draft[s].approval # "none"
      BY <3>3, <2>1 DEF ApprovalLocked, Same
    <3>4. CASE s = q /\ ~ApprovalLocked(q) /\ draft[p].approval # "none"
      BY <3>4, <2>1 DEF ApprovalLocked, Same
    <3> QED BY <2>4, <3>1, <3>2, <3>3, <3>4
  <2>5. ASSUME NEW s \in Request,
               draft'[s].approval \in {"pending", "rejected"}
        PROVE  approval'[request'[s].run] = "absent"
    <3>1. approval[request[s].run] = "absent"
      BY <2>5, <1>4, ApprovalDrafts DEF Held
    <3>2. CASE approval' = approval
      BY <3>1, <3>2, <2>1 DEF Same
    <3>3. CASE /\ draft'[q] = NoDraft
               /\ draft[q].approval # "none"
               /\ approval' = [approval EXCEPT ![request[q].run] =
                                                  draft[q].approval]
      <4>1. s # q
        BY <2>5, <3>3 DEF NoDraft
      <4>2. draft[s].approval # "none"
        BY <4>1, <2>5, <1>4, ApprovalDrafts
      <4>3. request[s].run # request[q].run
        BY <4>1, <4>2, <3>3 DEF Held
      <4> QED BY <3>1, <3>3, <4>3, <2>1 DEF Same
    <3> QED BY <1>4, <3>2, <3>3, TableWrites
  <2> QED BY <2>3, <2>4, <2>5 DEF Held
<1> QED BY <1>1, <1>2, <1>3, <1>4 DEF Next

-----------------------------------------------------------------------------
(* A request may start a workflow of an approval-bound run only by         *)
(* activating it, and an activation has seen an APPROVED decision.         *)

Activating == {"load_run", "consume", "activating", "dispatch", "commit"}

Entitled(q) ==
  \/ request[q].op = "start" /\ request[q].policy = "direct"
  \/ request[q].op = "activate" /\ Approvals(request[q].run)

Approved ==
  \A q \in Request :
    /\ request[q].op = "start" /\ request[q].pc # "new" =>
         request[q].run = q
    /\ request[q].op = "start" /\ request[q].pc = "dispatch" =>
         request[q].policy = "direct"
    /\ request[q].op = "activate" /\ request[q].pc \in Activating =>
         Approvals(request[q].run)
    /\ workflow[q] # "none" => request[q].pc # "new" /\ Entitled(q)

(* Where a step of a request leaves it. *)
LEMMA NextPc ==
  ASSUME TypeInv, NEW q \in Request, RequestNext(q) \/ Abort(q)
  PROVE  /\ \A p \in Request \ {q} : request'[p] = request[p]
         /\ request[q].op = "start" /\ request'[q].pc = "dispatch" =>
              request[q].policy = "direct"
         /\ request[q].op = "activate" /\ request'[q].pc \in Activating =>
              \/ request[q].pc \in Activating
              \/ Approvals(request[q].run)
<1>0. request \in [Request -> RequestState] /\ request[q] \in RequestState
  BY DEF TypeInv, TypeOK
<1>1. CASE \/ Abort(q) \/ Commit(q) \/ FindCommand(q) \/ InsertCommand(q)
           \/ CancelLoad(q) \/ StopWorkflow(q) \/ Mark(q)
  <2>1. \A p \in Request \ {q} : request'[p] = request[p]
    BY <1>0, <1>1 DEF Abort, Commit, FindCommand, InsertCommand, CancelLoad,
         StopWorkflow, Mark, Goto, EndSession
  <2>2. CASE Abort(q) \/ Commit(q)
    <3>1. EndSession(q, "raised") \/ EndSession(q, "done")
      BY <2>2 DEF Abort, Commit
    <3>2. request'[q].pc \in {"raised", "done"}
      BY <3>1, EndSessionPc DEF TypeInv
    <3> QED BY <2>1, <3>2 DEF Activating
  <2>3. CASE FindCommand(q)
    <3>1. request[q].op \in LedgerOps /\ request'[q].pc # "dispatch"
      BY ZenonT(60), <1>0, <2>3 DEF FindCommand, At, Goto, RequestState
    <3> QED BY <2>1, <3>1 DEF LedgerOps
  <2>4. CASE InsertCommand(q)
    <3>1. request[q].op \in LedgerOps
      BY <2>4 DEF InsertCommand, At
    <3>2. AfterInsert(request[q].op) # "dispatch"
      BY <3>1 DEF LedgerOps, AfterInsert
    <3>3. request'[q].pc # "dispatch"
      BY ZenonT(60), <1>0, <2>4, <3>2 DEF InsertCommand, EndSession, RequestState
    <3> QED BY <2>1, <3>1, <3>3 DEF LedgerOps
  <2>5. CASE CancelLoad(q) \/ StopWorkflow(q) \/ Mark(q)
    BY <2>1, <2>5 DEF CancelLoad, StopWorkflow, Mark, At
  <2> QED BY <1>1, <2>2, <2>3, <2>4, <2>5
<1>2. CASE InsertRun(q)
  BY <1>0, <1>2 DEF InsertRun, At, Goto, RequestState
<1>3. CASE ApprovalLoadRun(q) \/ FindApproval(q) \/ InsertApproval(q)
  BY <1>0, <1>3 DEF ApprovalLoadRun, FindApproval, InsertApproval, At, Goto,
       EndSession, RequestState
<1>4. CASE LoadApproval(q)
  BY <1>0, <1>4 DEF LoadApproval, At, Goto, RequestState, Approvals,
       Activating
<1>5. CASE ActivateLoadRun(q) \/ Consume(q) \/ MarkActivating(q)
  BY <1>0, <1>5 DEF ActivateLoadRun, Consume, MarkActivating, At, Goto,
       RequestState, Activating
<1>6. CASE DispatchFails(q) \/ DispatchRun(q)
  BY <1>0, <1>6 DEF DispatchFails, DispatchRun, At, Goto, EndSession,
       RequestState, Activating
<1> QED BY <1>1, <1>2, <1>3, <1>4, <1>5, <1>6 DEF RequestNext

LEMMA Started ==
  ASSUME TypeInv, NEW q \in Request, RequestNext(q) \/ Abort(q),
         NEW p \in Request, workflow'[p] # "none"
  PROVE  \/ workflow[p] # "none"
         \/ /\ p = q
            /\ request[q].op \in {"start", "activate"}
            /\ request[q].pc = "dispatch"
<1>0. workflow \in [Request -> Workflow]
  BY DEF TypeInv, TypeOK
<1>1. CASE DispatchRun(q) \/ DispatchFails(q)
  BY <1>0, <1>1 DEF DispatchRun, DispatchFails, At
<1>2. CASE StopWorkflow(q)
  BY <1>0, <1>2 DEF StopWorkflow, At
<1>3. CASE ~(DispatchRun(q) \/ DispatchFails(q) \/ StopWorkflow(q))
  <2>1. workflow' = workflow
    BY <1>3 DEF RequestNext, Abort, Commit, FindCommand, InsertCommand,
         InsertRun, CancelLoad, Mark, ApprovalLoadRun, FindApproval,
         InsertApproval, LoadApproval, ActivateLoadRun, Consume,
         MarkActivating
  <2> QED BY <2>1
<1> QED BY <1>1, <1>2, <1>3

LEMMA ApprovedStep ==
  ASSUME TypeInv, Held, Approved, [Next]_vars
  PROVE  Approved'
<1>1. CASE UNCHANGED vars
  BY <1>1 DEF vars, tables, Approved, Entitled, Approvals
<1>2. ASSUME NEW w \in Request, WorkflowEnds(w)
      PROVE  Approved'
  <2>1. \A p \in Request : workflow'[p] # "none" => workflow[p] # "none"
    BY <1>2 DEF WorkflowEnds, TypeInv, TypeOK
  <2> QED BY <1>2, <2>1 DEF WorkflowEnds, tables, Approved, Entitled,
             Approvals
<1>3. ASSUME NEW q \in Request, Arrive(q)
      PROVE  Approved'
  <2>1. /\ request[q].pc = "new"
        /\ request'[q].pc \in {"find", "load_run", "load_approval"}
        /\ \A p \in Request \ {q} : request'[p] = request[p]
        /\ UNCHANGED <<approval, workflow>>
        /\ request'[q].op = "start" =>
             request'[q].run = q /\ request'[q].pc = "find"
        /\ request'[q].op = "activate" => request'[q].pc = "load_approval"
    BY <1>3, Arrival DEF TypeInv, tables
  <2>2. workflow[q] = "none"
    BY <2>1 DEF Approved
  <2>3. ASSUME NEW p \in Request \ {q}, Entitled(p)
        PROVE  Entitled(p)'
    BY <2>1, <2>3 DEF Entitled, Approvals
  <2> QED BY <2>1, <2>2, <2>3 DEF Approved, Activating, Approvals
<1>4. ASSUME NEW q \in Request, RequestNext(q) \/ Abort(q)
      PROVE  Approved'
  <2>1. \A p \in Request : Same(p)
    BY <1>4, Identity DEF TypeInv
  <2>2. request[q].pc # "new"
    BY <1>4, UnderWay
  <2>3. \A r \in Request : Approvals(r) => Approvals(r)'
    BY <1>4, ApprovalsStand
  <2>4. ASSUME NEW p \in Request, request[p].op = "activate",
               request[p].pc # "new", Approvals(request[p].run)
        PROVE  approval'[request[p].run] \in {"pending", "consumed"}
    BY <2>3, <2>4 DEF TypeInv, Named, Approvals
  <2>5. ASSUME NEW p \in Request, request[p].pc # "new", Entitled(p)
        PROVE  Entitled(p)'
    BY <2>1, <2>4, <2>5 DEF Entitled, Same, Approvals
  <2>6. ASSUME NEW p \in Request, request'[p].op = "start",
               request'[p].pc # "new"
        PROVE  request'[p].run = p
    BY <2>1, <2>6 DEF Same, Approved
  <2>7. ASSUME NEW p \in Request, request'[p].op = "start",
               request'[p].pc = "dispatch"
        PROVE  request'[p].policy = "direct"
    BY <2>1, <2>7, <1>4, NextPc DEF Same, Approved
  <2>8. ASSUME NEW p \in Request, request'[p].op = "activate",
               request'[p].pc \in Activating
        PROVE  Approvals(request[p].run)
    BY <2>1, <2>8, <1>4, NextPc DEF Same, Approved
  <2>9. ASSUME NEW p \in Request, request'[p].op = "activate",
               request'[p].pc \in Activating
        PROVE  approval'[request'[p].run] \in {"pending", "consumed"}
    BY <2>1, <2>4, <2>8, <2>9 DEF Same, Activating
  <2>10. ASSUME NEW p \in Request, workflow'[p] # "none"
         PROVE  request[p].pc # "new" /\ Entitled(p)
    <3>1. CASE workflow[p] # "none"
      BY <3>1 DEF Approved
    <3>2. CASE /\ p = q
               /\ request[q].op \in {"start", "activate"}
               /\ request[q].pc = "dispatch"
      BY <3>2 DEF Approved, Entitled, Activating
    <3> QED BY <1>4, <2>10, <3>1, <3>2, Started
  <2>11. ASSUME NEW p \in Request, workflow'[p] # "none"
         PROVE  request'[p].pc # "new" /\ Entitled(p)'
    BY <2>1, <2>5, <2>10, <2>11 DEF Same
  <2> QED BY <2>6, <2>7, <2>9, <2>11 DEF Approved, Approvals
<1> QED BY <1>1, <1>2, <1>3, <1>4 DEF Next

(* No workflow is ever started for a run that needs an approval unless the
   Principal's APPROVED decision was committed first, whatever requests of
   create_approval, consume_approval_and_activate and
   submit_canonical_command race, fail or are retried. *)
THEOREM NothingStartsUnapproved == Spec => []NothingUnapproved
<1> DEFINE Inv == TypeInv /\ Held /\ Approved
<1>1. Init => Inv
  BY TypeInit DEF Init, Held, Approved, NoDraft
<1>2. Inv /\ [Next]_vars => Inv'
  BY TypeStep, HeldStep, ApprovedStep
<1>3. Inv => NothingUnapproved
  BY DEF NothingUnapproved, NeedsApproval, Approved, Entitled, Approvals
<1> QED BY <1>1, <1>2, <1>3, PTL DEF Spec

-----------------------------------------------------------------------------
(* One command per key.                                                    *)

Inserted == Steps \ {"find", "insert_command"}

(* A command is drafted only while the key is free, and by one request; the
   ones that are under way after the insert have drafted theirs, and those
   that are done answered what the table has. *)
Keyed ==
  \A q \in Request :
    /\ draft[q].command => /\ request[q].pc \in Inserted
                           /\ request[q].op \in LedgerOps
                           /\ request[q].answer = q
                           /\ command[request[q].key] = Nil
    /\ \A p \in Request \ {q} :
         draft[p].command /\ draft[q].command =>
           request[p].key # request[q].key
    /\ request[q].op \in LedgerOps /\ request[q].pc \in Inserted =>
         draft[q].command
    /\ request[q].op \in LedgerOps /\ request[q].pc = "done" =>
         /\ request[q].answer # Nil
         /\ command[request[q].key] = request[q].answer

(* The four ways of a step with the command of its request. *)
Inserts(q) ==
  /\ request[q].op \in LedgerOps
  /\ ~CommandLocked(q)
  /\ command[request[q].key] = Nil
  /\ draft'[q].command
  /\ request'[q].answer = q
  /\ request'[q].pc \in Inserted
  /\ command' = command

Replays(q) ==
  /\ request[q].pc = "find"
  /\ request'[q].pc = "done"
  /\ request'[q].answer = command[request[q].key]
  /\ command[request[q].key] # Nil
  /\ UNCHANGED <<draft, command>>

GivesUp(q) ==
  /\ ~draft'[q].command
  /\ request'[q].pc \notin Inserted \cup {"done"}
  /\ command' = command

Publishes(q) ==
  /\ request[q].pc = "commit"
  /\ request'[q].pc = "done"
  /\ request'[q].answer = request[q].answer
  /\ ~draft'[q].command
  /\ command' = IF draft[q].command
                THEN [command EXCEPT ![request[q].key] = q]
                ELSE command

GoesOn(q) ==
  /\ draft'[q].command = draft[q].command
  /\ request'[q].answer = request[q].answer
  /\ request[q].op \in LedgerOps =>
       /\ request'[q].pc \in Inserted <=> request[q].pc \in Inserted
       /\ request'[q].pc # "done"
  /\ request[q].op \notin LedgerOps \/ request[q].pc \in Steps
  /\ command' = command

LEMMA CommandWays ==
  ASSUME TypeInv, NEW q \in Request, RequestNext(q) \/ Abort(q)
  PROVE  Inserts(q) \/ Replays(q) \/ GivesUp(q) \/ Publishes(q) \/ GoesOn(q)
<1>0. /\ request \in [Request -> RequestState] /\ request[q] \in RequestState
      /\ draft \in [Request -> Draft] /\ draft[q] \in Draft
  BY DEF TypeInv, TypeOK
<1>1. CASE Abort(q)
  BY <1>0, <1>1 DEF Abort, EndSession, NoDraft, RequestState, GivesUp,
       Inserted, Steps, tables
<1>2. CASE Commit(q)
  BY <1>0, <1>2 DEF Commit, EndSession, NoDraft, RequestState, Publishes
<1>3. CASE FindCommand(q)
  <2>1. request[q].pc = "find" /\ UNCHANGED <<draft, command>>
    BY <1>3 DEF FindCommand, At, tables
  <2>2. CASE Goto(q, "insert_command") \/ Goto(q, "raised")
    BY <1>0, <2>1, <2>2 DEF Goto, GoesOn, RequestState, Inserted, Steps
  <2>3. CASE /\ command[request[q].key] # Nil
             /\ Reply(q, "done", command[request[q].key])
    <3>1. request'[q] = [request[q] EXCEPT !.pc = "done",
                           !.answer = command[request[q].key]]
      BY <1>0, <2>3 DEF Reply
    <3> QED BY <1>0, <2>1, <2>3, <3>1 DEF Replays, RequestState
  <2> QED BY <1>3, <2>2, <2>3 DEF FindCommand, Reply
<1>4. CASE InsertCommand(q)
  <2>1. request[q].op \in LedgerOps /\ ~CommandLocked(q) /\ command' = command
    BY <1>4 DEF InsertCommand, At, tables
  <2>2. CASE EndSession(q, "find") \/ EndSession(q, "raised")
    <3>1. request'[q].pc \in {"find", "raised"} /\ draft'[q] = NoDraft
      BY <2>2, EndSessionPc DEF TypeInv
    <3> QED BY <2>1, <3>1 DEF NoDraft, GivesUp, Inserted, Steps
  <2>3. CASE /\ command[request[q].key] = Nil
             /\ draft' = [draft EXCEPT ![q].command = TRUE]
             /\ Reply(q, AfterInsert(request[q].op), q)
    <3>1. AfterInsert(request[q].op) \in Inserted
      BY <2>1 DEF LedgerOps, AfterInsert, Inserted, Steps
    <3>2. request'[q] = [request[q] EXCEPT !.pc = AfterInsert(request[q].op),
                           !.answer = q]
      BY <1>0, <2>3 DEF Reply
    <3>3. request'[q].pc = AfterInsert(request[q].op) /\ request'[q].answer = q
      BY <1>0, <3>2 DEF RequestState
    <3>4. draft'[q].command
      BY <1>0, <2>3 DEF Draft
    <3> QED BY <2>1, <2>3, <3>1, <3>3, <3>4 DEF Inserts
  <2> QED BY <1>4, <2>2, <2>3 DEF InsertCommand, Reply
<1>5. CASE InsertRun(q) \/ StopWorkflow(q) \/ Mark(q) \/ DispatchRun(q)
  <2>1. request[q].pc \in Inserted /\ command' = command
    BY <1>5 DEF InsertRun, StopWorkflow, Mark, DispatchRun, At, Inserted,
         Steps, tables
  <2>2. \E pc \in Inserted : Goto(q, pc)
    BY <1>5 DEF InsertRun, StopWorkflow, Mark, DispatchRun, Inserted, Steps
  <2>3. request'[q].pc \in Inserted /\ request'[q].answer = request[q].answer
    BY <1>0, <2>2 DEF Goto, RequestState
  <2>4. draft'[q].command = draft[q].command
    <3>1. CASE InsertRun(q)
      BY <1>0, <3>1 DEF InsertRun, Draft
    <3>2. CASE StopWorkflow(q)
      BY <3>2 DEF StopWorkflow
    <3>3. CASE Mark(q)
      <4>1. draft' = draft \/ \E st : draft' = [draft EXCEPT ![q].status = st]
        BY <3>3 DEF Mark
      <4> QED BY <1>0, <4>1 DEF Draft
    <3>4. CASE DispatchRun(q)
      BY <1>0, <3>4 DEF DispatchRun, Draft
    <3> QED BY <1>5, <3>1, <3>2, <3>3, <3>4
  <2> QED BY <2>1, <2>3, <2>4 DEF GoesOn, Inserted, Steps
<1>6. CASE CancelLoad(q)
  <2>1. request[q].pc \in Inserted /\ UNCHANGED <<command, draft>>
    BY <1>6 DEF CancelLoad, At, Inserted, Steps, tables
  <2>2. \/ \E pc \in Inserted : Goto(q, pc)
        \/ \E pc \in Inserted : Sees(q, pc, run[request[q].run])
    BY <1>6 DEF CancelLoad, Sees, Inserted, Steps
  <2>3. request'[q].pc \in Inserted /\ request'[q].answer = request[q].answer
    <3>1. CASE \E pc \in Inserted : Goto(q, pc)
      BY <1>0, <3>1 DEF Goto, RequestState
    <3>2. CASE \E pc \in Inserted : Sees(q, pc, run[request[q].run])
      <4>1. PICK pc \in Inserted : Sees(q, pc, run[request[q].run])
        BY <3>2
      <4>2. request'[q] = [request[q] EXCEPT !.pc = pc,
                             !.seen = run[request[q].run]]
        BY <1>0, <4>1 DEF Sees
      <4> QED BY <1>0, <4>2 DEF RequestState
    <3> QED BY <2>2, <3>1, <3>2
  <2> QED BY <2>1, <2>3 DEF GoesOn, Inserted, Steps
<1>7. CASE \/ ApprovalLoadRun(q) \/ FindApproval(q) \/ LoadApproval(q)
           \/ ActivateLoadRun(q) \/ Consume(q) \/ MarkActivating(q)
  <2>1. request[q].op \notin LedgerOps /\ command' = command
    BY <1>7 DEF ApprovalLoadRun, FindApproval, LoadApproval,
         ActivateLoadRun, Consume, MarkActivating, At, LedgerOps, tables
  <2>2. \E pc : Goto(q, pc)
    BY <1>7 DEF ApprovalLoadRun, FindApproval, LoadApproval,
         ActivateLoadRun, Consume, MarkActivating
  <2>3. request'[q].answer = request[q].answer
    BY <1>0, <2>2 DEF Goto, RequestState
  <2>4. draft'[q].command = draft[q].command
    BY <1>0, <1>7 DEF ApprovalLoadRun, FindApproval, LoadApproval,
         ActivateLoadRun, Consume, MarkActivating, Draft
  <2> QED BY <2>1, <2>3, <2>4 DEF GoesOn
<1>8. CASE InsertApproval(q)
  <2>1. request[q].op \notin LedgerOps /\ command' = command
    BY <1>8 DEF InsertApproval, At, LedgerOps, tables
  <2>2. CASE EndSession(q, "raised")
    BY <1>0, <2>1, <2>2 DEF EndSession, NoDraft, RequestState, GivesUp,
         Inserted, Steps
  <2>3. CASE ~EndSession(q, "raised")
    BY <1>0, <1>8, <2>1, <2>3 DEF InsertApproval, Goto, Draft, RequestState,
         GoesOn
  <2> QED BY <2>2, <2>3
<1>9. CASE DispatchFails(q)
  <2>1. request[q].pc \in Inserted /\ command' = command
    BY <1>9 DEF DispatchFails, At, Inserted, Steps, tables
  <2>2. CASE EndSession(q, "raised")
    BY <1>0, <2>1, <2>2 DEF EndSession, NoDraft, RequestState, GivesUp,
         Inserted, Steps
  <2>3. CASE draft' = [draft EXCEPT ![q].status = "failed"] /\ Goto(q, "commit")
    BY <1>0, <2>1, <2>3 DEF Goto, Draft, RequestState, GoesOn, Inserted,
         Steps
  <2> QED BY <1>9, <2>2, <2>3 DEF DispatchFails
<1> QED BY <1>1, <1>2, <1>3, <1>4, <1>5, <1>6, <1>7, <1>8, <1>9
        DEF RequestNext

LEMMA KeyedStep ==
  ASSUME TypeInv, Keyed, [Next]_vars
  PROVE  Keyed'
<1>1. CASE UNCHANGED vars
  BY <1>1 DEF vars, tables, Keyed
<1>2. ASSUME NEW w \in Request, WorkflowEnds(w)
      PROVE  Keyed'
  BY <1>2 DEF WorkflowEnds, tables, Keyed
<1>3. ASSUME NEW q \in Request, Arrive(q)
      PROVE  Keyed'
  <2>1. /\ request[q].pc = "new"
        /\ request'[q].pc \in {"find", "load_run", "load_approval"}
        /\ \A p \in Request \ {q} : request'[p] = request[p]
        /\ UNCHANGED <<command, draft>>
        /\ request'[q].op \in LedgerOps => request'[q].pc = "find"
    BY <1>3, Arrival DEF TypeInv, tables, LedgerOps
  <2>2. ~draft[q].command
    BY <2>1 DEF Keyed, Inserted, Steps
  <2> QED BY <2>1, <2>2 DEF Keyed, Inserted
<1>4. ASSUME NEW q \in Request, RequestNext(q) \/ Abort(q)
      PROVE  Keyed'
  <2>1. \A p \in Request : Same(p)
    BY <1>4, Identity DEF TypeInv
  <2>2. /\ \A p \in Request \ {q} : request'[p] = request[p]
        /\ \A p \in Request \ {q} : draft'[p] = draft[p]
    BY <1>4, NextPc, ApprovalDrafts
  <2>3. command \in [Key -> Request \cup {Nil}]
    BY DEF TypeInv, TypeOK
  <2>4. \A p \in Request : request[p].op \in LedgerOps /\ request[p].pc # "new"
                             => request[p].key \in Key
    BY DEF TypeInv, Named
  <2>5. CASE Inserts(q)
    <3>1. \A p \in Request \ {q} : draft[p].command =>
            request[p].key # request[q].key
      BY <2>5 DEF Inserts, CommandLocked
    <3> QED BY <2>1, <2>2, <2>5, <3>1 DEF Inserts, Keyed, Same, Inserted, Steps
  <2>6. CASE Replays(q)
    <3>1. ~draft[q].command /\ request'[q].pc \notin Inserted
      BY <2>6 DEF Replays, Keyed, Inserted, Steps
    <3>2. /\ request'[q].answer # Nil
          /\ command'[request'[q].key] = request'[q].answer
      BY <2>1, <2>6 DEF Replays, Same
    <3> QED BY <2>1, <2>2, <2>6, <3>1, <3>2 DEF Replays, Keyed, Same
  <2>7. CASE GivesUp(q)
    BY <2>1, <2>2, <2>7 DEF GivesUp, Keyed, Same
  <2>8. CASE GoesOn(q)
    BY <2>1, <2>2, <2>8 DEF GoesOn, Keyed, Same, Inserted, Steps
  <2>9. CASE Publishes(q)
    <3>1. CASE ~draft[q].command
      BY <2>1, <2>2, <2>9, <3>1 DEF Publishes, Keyed, Same, Inserted, Steps
    <3>2. CASE draft[q].command
      <4>1. /\ request[q].op \in LedgerOps /\ request[q].answer = q
            /\ request[q].key \in Key
            /\ command[request[q].key] = Nil
            /\ command' = [command EXCEPT ![request[q].key] = q]
        BY <2>4, <2>9, <3>2 DEF Publishes, Keyed
      <4>2. ASSUME NEW p \in Request \ {q}, draft'[p].command
            PROVE  command'[request'[p].key] = Nil
        <5>1. draft[p].command /\ request[p].key # request[q].key
          BY <2>2, <3>2, <4>2 DEF Keyed
        <5>2. request[p].key \in Key /\ command[request[p].key] = Nil
          BY <5>1, <2>4 DEF Keyed, Inserted, Steps
        <5> QED BY <2>1, <2>3, <4>1, <5>1, <5>2 DEF Same
      <4>3. ASSUME NEW p \in Request \ {q}, request'[p].op \in LedgerOps,
                   request'[p].pc = "done"
            PROVE  /\ request'[p].answer # Nil
                   /\ command'[request'[p].key] = request'[p].answer
        <5>1. /\ request[p].answer # Nil /\ request[p].key \in Key
              /\ command[request[p].key] = request[p].answer
          BY <2>2, <2>4, <4>3 DEF Keyed
        <5>2. request[p].key # request[q].key
          BY <4>1, <5>1
        <5> QED BY <2>2, <2>3, <4>1, <5>1, <5>2
      <4>4. /\ request'[q].answer = q /\ q # Nil
            /\ command'[request'[q].key] = q
        BY <2>1, <2>3, <2>9, <4>1, NilAssumption DEF Publishes, Same
      <4>5. request'[q].pc = "done" /\ ~draft'[q].command
        BY <2>9 DEF Publishes
      <4> QED BY <2>1, <2>2, <4>2, <4>3, <4>4, <4>5 DEF Keyed, Same, Inserted,
                 Steps
    <3> QED BY <3>1, <3>2
  <2> QED BY <1>4, <2>5, <2>6, <2>7, <2>8, <2>9, CommandWays
<1> QED BY <1>1, <1>2, <1>3, <1>4 DEF Next

(* All commands accepted under one idempotency key are the same command,
   for every number of racing, failing and repeated requests. *)
THEOREM OneCommandPerKey == Spec => []OneCommand
<1> DEFINE Inv == TypeInv /\ Keyed
<1>1. Init => Inv
  BY TypeInit DEF Init, Keyed, NoDraft, Inserted, Steps
<1>2. Inv /\ [Next]_vars => Inv'
  BY TypeStep, KeyedStep
<1>3. Inv => OneCommand
  BY DEF OneCommand, Keyed
<1> QED BY <1>1, <1>2, <1>3, PTL DEF Spec
-----------------------------------------------------------------------------
(* The tables tell the truth about the engine.                             *)

(* A workflow is started where the request can only commit or abort; what
   is drafted about it is so, and a consumed approval that may be committed
   has its workflow. *)
Backed ==
  \A q \in Request :
    /\ workflow[q] # "none" => request[q].pc \in {"commit"} \cup Ends
    /\ draft[q].status = "active" => draft[q].ref # Nil
    /\ draft[q].ref # Nil => draft[q].ref = q /\ workflow[q] # "none"
    /\ draft[q].approval = "consumed" =>
         /\ request[q].op = "activate"
         /\ request[q].pc \in {"activating", "dispatch", "commit"}
         /\ request[q].pc = "commit" => workflow[q] # "none"

(* What the engine has started it never forgets. *)
LEMMA WorkflowsStand ==
  ASSUME TypeInv, Backed, NEW q \in Request,
         RequestNext(q) \/ Abort(q) \/ WorkflowEnds(q),
         NEW p \in Request, workflow[p] # "none"
  PROVE  workflow'[p] # "none"
<1>0. workflow \in [Request -> Workflow]
  BY DEF TypeInv, TypeOK
<1>1. CASE DispatchRun(q) \/ StopWorkflow(q) \/ WorkflowEnds(q)
  BY <1>0, <1>1 DEF DispatchRun, StopWorkflow, WorkflowEnds
<1>2. CASE DispatchFails(q)
  <2>1. p # q
    BY <1>2 DEF Backed, DispatchFails, At, Ends
  <2> QED BY <1>0, <1>2, <2>1 DEF DispatchFails
<1>3. CASE \/ FindCommand(q) \/ InsertCommand(q) \/ InsertRun(q)
           \/ CancelLoad(q) \/ Mark(q) \/ ApprovalLoadRun(q)
           \/ FindApproval(q) \/ InsertApproval(q) \/ LoadApproval(q)
           \/ ActivateLoadRun(q) \/ Consume(q) \/ MarkActivating(q)
           \/ Commit(q) \/ Abort(q)
  <2>1. workflow' = workflow
    BY <1>3 DEF FindCommand, InsertCommand, InsertRun, CancelLoad, Mark,
         ApprovalLoadRun, FindApproval, InsertApproval, LoadApproval,
         ActivateLoadRun, Consume, MarkActivating, Commit, Abort
  <2> QED BY <2>1
<1> QED BY <1>1, <1>2, <1>3 DEF RequestNext

(* Only a commit changes the runs, by what it has drafted. *)
LEMMA RunWrites ==
  ASSUME NEW q \in Request, RequestNext(q) \/ Abort(q)
  PROVE  \/ run' = run
         \/ /\ draft[q].status # "none"
            /\ run' = [run EXCEPT ![request[q].run] =
                 [status |-> draft[q].status,
                  ref |-> IF draft[q].ref = Nil THEN @.ref
                          ELSE draft[q].ref]]
<1>1. CASE Commit(q)
  BY <1>1 DEF Commit
<1>2. CASE ~Commit(q)
  BY <1>2 DEF RequestNext, Abort, FindCommand, InsertCommand, InsertRun,
       CancelLoad, StopWorkflow, Mark, ApprovalLoadRun, FindApproval,
       InsertApproval, LoadApproval, ActivateLoadRun, Consume,
       MarkActivating, DispatchFails, DispatchRun, tables
<1> QED BY <1>1, <1>2

(* What a step drafts about the run. *)
LEMMA RunDrafts ==
  ASSUME TypeInv, NEW q \in Request, RequestNext(q) \/ Abort(q)
  PROVE  \/ draft'[q].ref = Nil /\ draft'[q].status = "none"
         \/ /\ draft'[q].ref = draft[q].ref
            /\ draft'[q].status # "active" \/ draft'[q].status = draft[q].status
         \/ draft'[q].ref = q /\ workflow'[q] # "none"
<1>0. draft \in [Request -> Draft] /\ workflow \in [Request -> Workflow]
  BY DEF TypeInv, TypeOK
<1>1. CASE Abort(q) \/ Commit(q)
  BY <1>0, <1>1 DEF Abort, Commit, EndSession, NoDraft
<1>2. CASE \/ FindCommand(q) \/ InsertRun(q) \/ CancelLoad(q)
           \/ StopWorkflow(q) \/ Mark(q) \/ ApprovalLoadRun(q)
           \/ FindApproval(q) \/ LoadApproval(q) \/ ActivateLoadRun(q)
           \/ MarkActivating(q)
  <2>1. \/ draft' = draft
        \/ \E s \in RunStatus \ {"active"} : draft' = [draft EXCEPT ![q].status = s]
    BY <1>2 DEF FindCommand, InsertRun, CancelLoad, StopWorkflow, Mark,
         ApprovalLoadRun, FindApproval, LoadApproval, ActivateLoadRun,
         MarkActivating, RunStatus
  <2> QED BY <1>0, <2>1 DEF Draft
<1>3. CASE InsertCommand(q)
  BY <1>0, <1>3 DEF InsertCommand, EndSession, NoDraft, Draft
<1>4. CASE InsertApproval(q) \/ Consume(q)
  BY <1>0, <1>4 DEF InsertApproval, Consume, EndSession, NoDraft, Draft
<1>5. CASE DispatchFails(q)
  BY <1>0, <1>5 DEF DispatchFails, EndSession, NoDraft, Draft
<1>6. CASE DispatchRun(q)
  BY <1>0, <1>6 DEF DispatchRun, Draft
<1> QED BY <1>1, <1>2, <1>3, <1>4, <1>5, <1>6 DEF RequestNext

(* Where a step of q leaves q, once it has drafted a consumption. *)
LEMMA ConsumedDrafts ==
  ASSUME TypeInv, Backed, NEW q \in Request, RequestNext(q) \/ Abort(q),
         draft'[q].approval = "consumed"
  PROVE  /\ request'[q].op = "activate"
         /\ request'[q].pc \in {"activating", "dispatch", "commit"}
         /\ request'[q].pc = "commit" => workflow'[q] # "none"
<1>0. /\ draft \in [Request -> Draft] /\ workflow \in [Request -> Workflow]
      /\ request \in [Request -> RequestState] /\ request[q] \in RequestState
  BY DEF TypeInv, TypeOK
<1>1. CASE Consume(q)
  BY <1>0, <1>1 DEF Consume, At, Goto, RequestState
<1>2. CASE MarkActivating(q)
  BY <1>0, <1>2 DEF MarkActivating, At, Goto, RequestState
<1>3. CASE DispatchRun(q)
  <2>1. draft[q].approval = "consumed"
    BY <1>0, <1>3 DEF DispatchRun, Draft
  <2>2. request[q].op = "activate"
    BY <2>1 DEF Backed
  <2> QED BY <1>0, <1>3, <2>2 DEF DispatchRun, Goto, RequestState
<1>4. CASE Commit(q) \/ Abort(q)
  BY <1>0, <1>4 DEF Commit, Abort, EndSession, NoDraft
<1>5. CASE DispatchFails(q)
  <2>1. CASE request[q].op = "start"
    <3>1. draft'[q].approval = draft[q].approval
      BY <1>0, <1>5, <2>1 DEF DispatchFails, Draft
    <3> QED BY <3>1, <2>1 DEF Backed
  <2>2. CASE request[q].op = "activate"
    BY <1>0, <1>5, <2>2 DEF DispatchFails, EndSession, NoDraft
  <2> QED BY <1>5, <2>1, <2>2 DEF DispatchFails
<1>6. CASE \/ FindCommand(q) \/ InsertRun(q) \/ CancelLoad(q)
           \/ StopWorkflow(q) \/ Mark(q) \/ ApprovalLoadRun(q)
           \/ FindApproval(q) \/ LoadApproval(q) \/ ActivateLoadRun(q)
           \/ InsertCommand(q) \/ InsertApproval(q)
  <2>1. request[q].pc \notin {"activating", "dispatch", "commit"}
    BY <1>6 DEF FindCommand, InsertRun, CancelLoad, StopWorkflow, Mark,
         ApprovalLoadRun, FindApproval, LoadApproval, ActivateLoadRun,
         InsertCommand, InsertApproval, At
  <2>2. draft[q].approval # "consumed"
    BY <2>1 DEF Backed
  <2>3. \/ draft' = draft
        \/ \E s : draft' = [draft EXCEPT ![q].status = s]
        \/ draft' = [draft EXCEPT ![q].command = TRUE]
        \/ draft' = [draft EXCEPT ![q] = NoDraft]
        \/ \E a \in {"pending", "rejected"} : draft' = [draft EXCEPT ![q].approval = a]
    BY <1>6 DEF FindCommand, InsertRun, CancelLoad, StopWorkflow, Mark,
         ApprovalLoadRun, FindApproval, LoadApproval, ActivateLoadRun,
         InsertCommand, InsertApproval, EndSession
  <2>4. draft'[q].approval # "consumed"
    BY <1>0, <2>2, <2>3 DEF NoDraft, Draft
  <2> QED BY <2>4
<1> QED BY <1>1, <1>2, <1>3, <1>4, <1>5, <1>6 DEF RequestNext

(* Where a step of q leaves q, once its workflow has been started. *)
LEMMA StartedEnds ==
  ASSUME TypeInv, Backed, NEW q \in Request, RequestNext(q) \/ Abort(q),
         workflow'[q] # "none"
  PROVE  request'[q].pc \in {"commit"} \cup Ends
<1>0. /\ workflow \in [Request -> Workflow]
      /\ request \in [Request -> RequestState] /\ request[q] \in RequestState
  BY DEF TypeInv, TypeOK
<1>1. CASE workflow[q] # "none"
  <2>1. request[q].pc \in {"commit"} \cup Ends
    BY <1>1 DEF Backed
  <2>2. Commit(q) \/ Abort(q)
    BY <2>1 DEF RequestNext, FindCommand, InsertCommand, InsertRun,
         CancelLoad, StopWorkflow, Mark, ApprovalLoadRun, FindApproval,
         InsertApproval, LoadApproval, ActivateLoadRun, Consume,
         MarkActivating, DispatchFails, DispatchRun, At, Ends
  <2> QED BY <2>2, EndSessionPc DEF Commit, Abort, Ends, TypeInv
<1>2. CASE request[q].pc = "dispatch"
  <2>1. DispatchFails(q) \/ DispatchRun(q) \/ Abort(q)
    BY <1>2 DEF RequestNext, FindCommand, InsertCommand, InsertRun,
         CancelLoad, StopWorkflow, Mark, ApprovalLoadRun, FindApproval,
         InsertApproval, LoadApproval, ActivateLoadRun, Consume,
         MarkActivating, Commit, At
  <2>2. Goto(q, "commit") \/ EndSession(q, "raised")
    BY <2>1 DEF DispatchFails, DispatchRun, Abort
  <2>3. CASE Goto(q, "commit")
    BY <1>0, <2>3 DEF Goto, RequestState
  <2>4. CASE EndSession(q, "raised")
    BY <2>4, EndSessionPc DEF Ends, TypeInv
  <2> QED BY <2>2, <2>3, <2>4
<1> QED BY <1>1, <1>2, Started

LEMMA BackedStep ==
  ASSUME TypeInv, Backed, [Next]_vars
  PROVE  Backed'
<1>1. CASE UNCHANGED vars
  BY <1>1 DEF vars, Backed
<1>2. ASSUME NEW w \in Request, WorkflowEnds(w)
      PROVE  Backed'
  <2>1. \A p \in Request : workflow'[p] # "none" <=> workflow[p] # "none"
    BY <1>2 DEF WorkflowEnds, TypeInv, TypeOK
  <2> QED BY <1>2, <2>1 DEF WorkflowEnds, Backed
<1>3. ASSUME NEW q \in Request, Arrive(q)
      PROVE  Backed'
  <2>1. /\ request[q].pc = "new"
        /\ \A p \in Request \ {q} : request'[p] = request[p]
        /\ UNCHANGED <<workflow, draft>>
    BY <1>3, Arrival DEF TypeInv
  <2>2. workflow[q] = "none" /\ draft[q].approval # "consumed"
    BY <2>1 DEF Backed, Ends
  <2> QED BY <2>1, <2>2 DEF Backed
<1>4. ASSUME NEW q \in Request, RequestNext(q) \/ Abort(q)
      PROVE  Backed'
  <2>1. \A p \in Request \ {q} : draft'[p] = draft[p] /\ request'[p] = request[p]
    BY <1>4, ApprovalDrafts, NextPc
  <2>2. \A p \in Request : workflow[p] # "none" => workflow'[p] # "none"
    BY <1>4, WorkflowsStand
  <2>3. \A p \in Request \ {q} : workflow'[p] # "none" => workflow[p] # "none"
    BY <1>4, Started
  <2>4. ASSUME NEW p \in Request \ {q}
        PROVE  /\ workflow'[p] # "none" => request'[p].pc \in {"commit"} \cup Ends
               /\ draft'[p].status = "active" => draft'[p].ref # Nil
               /\ draft'[p].ref # Nil => draft'[p].ref = p /\ workflow'[p] # "none"
               /\ draft'[p].approval = "consumed" =>
                    /\ request'[p].op = "activate"
                    /\ request'[p].pc \in {"activating", "dispatch", "commit"}
                    /\ request'[p].pc = "commit" => workflow'[p] # "none"
    BY <2>1, <2>2, <2>3 DEF Backed
  <2>5. /\ workflow'[q] # "none" => request'[q].pc \in {"commit"} \cup Ends
        /\ draft'[q].approval = "consumed" =>
             /\ request'[q].op = "activate"
             /\ request'[q].pc \in {"activating", "dispatch", "commit"}
             /\ request'[q].pc = "commit" => workflow'[q] # "none"
    BY <1>4, StartedEnds, ConsumedDrafts
  <2>6. /\ draft'[q].status = "active" => draft'[q].ref # Nil
        /\ draft'[q].ref # Nil => draft'[q].ref = q /\ workflow'[q] # "none"
    BY <1>4, <2>2, RunDrafts, NilAssumption DEF Backed
  <2> QED BY <2>4, <2>5, <2>6 DEF Backed
<1> QED BY <1>1, <1>2, <1>3, <1>4 DEF Next

BackedInv == TypeInv /\ Backed

LEMMA ActiveStep ==
  ASSUME BackedInv, ActiveIsTruthful, [Next]_vars
  PROVE  ActiveIsTruthful'
<1> USE DEF BackedInv
<1>0. run \in [Request -> RunRow]
  BY DEF TypeInv, TypeOK
<1>1. CASE UNCHANGED vars
  BY <1>1 DEF vars, tables, ActiveIsTruthful
<1>2. ASSUME NEW w \in Request, WorkflowEnds(w)
      PROVE  ActiveIsTruthful'
  <2>1. \A p \in Request : workflow[p] # "none" => workflow'[p] # "none"
    BY <1>2, WorkflowsStand
  <2>2. \A r \in Request : run[r].ref \in Request \cup {Nil}
    BY <1>0 DEF RunRow
  <2> QED BY <1>2, <2>1, <2>2 DEF WorkflowEnds, tables, ActiveIsTruthful
<1>3. ASSUME NEW q \in Request, Arrive(q)
      PROVE  ActiveIsTruthful'
  <2>1. /\ request[q].pc = "new"
        /\ \A p \in Request \ {q} : request'[p] = request[p]
        /\ UNCHANGED <<run, workflow>>
    BY <1>3, Arrival DEF TypeInv, tables
  <2>2. workflow[q] = "none"
    BY <2>1 DEF Backed, Ends
  <2>3. \A r \in Request : run[r].ref \in Request \cup {Nil}
    BY <1>0 DEF RunRow
  <2> QED BY <2>1, <2>2, <2>3 DEF ActiveIsTruthful
<1>4. ASSUME NEW q \in Request, RequestNext(q) \/ Abort(q),
             NEW r \in Request
      PROVE  /\ run'[r].status = "active" => run'[r].ref # Nil
             /\ run'[r].ref # Nil => /\ workflow'[run'[r].ref] # "none"
                                     /\ request'[run'[r].ref].run = r
  <2>1. \A p \in Request : Same(p)
    BY <1>4, Identity DEF TypeInv
  <2>2. \A p \in Request : workflow[p] # "none" => workflow'[p] # "none"
    BY <1>4, WorkflowsStand
  <2>3. run[r].ref \in Request \cup {Nil}
    BY <1>0 DEF RunRow
  <2>4. CASE run'[r] = run[r]
    BY <2>1, <2>2, <2>3, <2>4 DEF ActiveIsTruthful, Same
  <2>5. CASE /\ request[q].run = r
             /\ run'[r] = [status |-> draft[q].status,
                           ref |-> IF draft[q].ref = Nil THEN run[r].ref
                                   ELSE draft[q].ref]
    <3>1. CASE draft[q].ref = Nil
      <4>1. draft[q].status # "active" /\ run'[r].ref = run[r].ref
        BY <2>5, <3>1 DEF Backed
      <4> QED BY <2>1, <2>2, <2>3, <2>5, <4>1 DEF ActiveIsTruthful, Same
    <3>2. CASE draft[q].ref # Nil
      <4>1. run'[r].ref = q /\ workflow[q] # "none"
        BY <2>5, <3>2 DEF Backed
      <4> QED BY <2>1, <2>2, <2>5, <4>1, NilAssumption DEF Same
    <3> QED BY <3>1, <3>2
  <2>6. \/ run' = run
        \/ run' = [run EXCEPT ![request[q].run] =
             [status |-> draft[q].status,
              ref |-> IF draft[q].ref = Nil THEN run[request[q].run].ref
                      ELSE draft[q].ref]]
    BY <1>4, RunWrites
  <2>7. \/ run'[r] = run[r]
        \/ /\ request[q].run = r
           /\ run'[r] = [status |-> draft[q].status,
                         ref |-> IF draft[q].ref = Nil THEN run[r].ref
                                 ELSE draft[q].ref]
    BY <1>0, <2>6
  <2> QED BY <2>4, <2>5, <2>7
<1> QED BY <1>1, <1>2, <1>3, <1>4 DEF Next, ActiveIsTruthful

LEMMA ConsumedStep ==
  ASSUME BackedInv, ConsumedMeansStarted, [Next]_vars
  PROVE  ConsumedMeansStarted'
<1> USE DEF BackedInv
<1>1. CASE UNCHANGED vars
  BY <1>1 DEF vars, tables, ConsumedMeansStarted
<1>2. ASSUME NEW w \in Request, WorkflowEnds(w)
      PROVE  ConsumedMeansStarted'
  <2>1. \A p \in Request : workflow[p] # "none" => workflow'[p] # "none"
    BY <1>2, WorkflowsStand
  <2> QED BY <1>2, <2>1 DEF WorkflowEnds, tables, ConsumedMeansStarted
<1>3. ASSUME NEW q \in Request, Arrive(q)
      PROVE  ConsumedMeansStarted'
  <2>1. /\ request[q].pc = "new"
        /\ \A p \in Request \ {q} : request'[p] = request[p]
        /\ UNCHANGED <<approval, workflow>>
    BY <1>3, Arrival DEF TypeInv, tables
  <2>2. workflow[q] = "none"
    BY <2>1 DEF Backed, Ends
  <2> QED BY <2>1, <2>2 DEF ConsumedMeansStarted
<1>4. ASSUME NEW q \in Request, RequestNext(q) \/ Abort(q),
             NEW r \in Request, approval'[r] = "consumed"
      PROVE  \E p \in Request : request'[p].run = r /\ workflow'[p] # "none"
  <2>1. \A p \in Request : Same(p)
    BY <1>4, Identity DEF TypeInv
  <2>2. \A p \in Request : workflow[p] # "none" => workflow'[p] # "none"
    BY <1>4, WorkflowsStand
  <2>3. CASE approval[r] = "consumed"
    BY <2>1, <2>2, <2>3 DEF ConsumedMeansStarted, Same
  <2>4. CASE /\ request[q].pc = "commit"
             /\ request[q].run = r
             /\ draft[q].approval = "consumed"
    <3>1. workflow[q] # "none"
      BY <2>4 DEF Backed
    <3> QED BY <2>1, <2>2, <2>4, <3>1 DEF Same
  <2>5. approval \in [Request -> ApprovalStatus]
    BY DEF TypeInv, TypeOK
  <2> QED BY <1>4, <2>3, <2>4, <2>5, TableWrites
<1> QED BY <1>1, <1>2, <1>3, <1>4 DEF Next, ConsumedMeansStarted

LEMMA BackedFromInit ==
  ASSUME Init
  PROVE  BackedInv
BY TypeInit DEF Init, BackedInv, Backed, NoDraft

LEMMA BackedKept ==
  ASSUME BackedInv, [Next]_vars
  PROVE  BackedInv'
BY TypeStep, BackedStep DEF BackedInv

(* An ACTIVE run names a workflow that _dispatch_run has started for it, and
   no run ever names another, although the engine's store takes no part in
   the transaction and cancellations, activations and roll-backs overlap. *)
THEOREM ActiveRunsAreTruthful == Spec => []ActiveIsTruthful
<1> DEFINE Inv == BackedInv /\ ActiveIsTruthful
<1>1. Init => Inv
  BY BackedFromInit DEF Init, ActiveIsTruthful, NoRun
<1>2. Inv /\ [Next]_vars => Inv'
  BY BackedKept, ActiveStep
<1> QED BY <1>1, <1>2, PTL DEF Spec

(* The consumption of an approval is committed only by the activation that
   started a workflow of the run: a dispatch that fails gives it back. *)
THEOREM ConsumptionsAreStarts == Spec => []ConsumedMeansStarted
<1> DEFINE Inv == BackedInv /\ ConsumedMeansStarted
<1>1. Init => Inv
  BY BackedFromInit DEF Init, ConsumedMeansStarted
<1>2. Inv /\ [Next]_vars => Inv'
  BY BackedKept, ConsumedStep
<1> QED BY <1>1, <1>2, PTL DEF Spec

-----------------------------------------------------------------------------
(* The order of the locks, and the progress of the requests.               *)

(* Where the statements of a request lead to. *)
Leads == [find            |-> {"insert_command", "done", "raised"},
          insert_command  |-> {"find", "raised", "insert_run", "load_run",
                               "commit"},
          insert_run      |-> {"commit", "dispatch"},
          load_run        |-> {"commit", "stop", "mark_cancelled",
                               "mark_failed", "find_approval", "consume",
                               "raised"},
          stop            |-> {"mark_cancelled", "mark_failed"},
          mark_cancelled  |-> {"commit"},
          mark_failed     |-> {"commit"},
          find_approval   |-> {"insert_approval", "raised"},
          insert_approval |-> {"commit", "mark_cancelled", "raised"},
          load_approval   |-> {"load_run", "raised"},
          consume         |-> {"activating"},
          activating      |-> {"dispatch"},
          dispatch        |-> {"commit", "raised"},
          commit          |-> {"done"}]

LEMMA GoesTo ==
  ASSUME TypeInv, NEW q \in Request, NEW pc, Goto(q, pc)
  PROVE  request'[q].pc = pc
BY DEF TypeInv, TypeOK, RequestState, Goto

LEMMA SeesPc ==
  ASSUME TypeInv, NEW q \in Request, NEW pc, NEW r, Sees(q, pc, r)
  PROVE  request'[q].pc = pc
<1>1. request'[q] = [request[q] EXCEPT !.pc = pc, !.seen = r]
  BY DEF Sees, TypeInv, TypeOK
<1> QED BY <1>1 DEF TypeInv, TypeOK, RequestState

LEMMA ReplyPc ==
  ASSUME TypeInv, NEW q \in Request, NEW pc, NEW a, Reply(q, pc, a)
  PROVE  request'[q].pc = pc
<1>1. request'[q] = [request[q] EXCEPT !.pc = pc, !.answer = a]
  BY DEF Reply, TypeInv, TypeOK
<1> QED BY <1>1 DEF TypeInv, TypeOK, RequestState

LEMMA PcLeads ==
  ASSUME TypeInv, NEW q \in Request, RequestNext(q)
  PROVE  /\ request[q].pc \in Steps
         /\ request'[q].pc \in Leads[request[q].pc]
<1>1. CASE FindCommand(q)
  <2>1. \/ Goto(q, "insert_command") \/ Goto(q, "raised")
        \/ Reply(q, "done", command[request[q].key])
    BY <1>1 DEF FindCommand, Reply
  <2>2. request'[q].pc \in {"insert_command", "raised", "done"}
    BY <2>1, GoesTo, ReplyPc
  <2> QED BY <1>1, <2>2 DEF FindCommand, At, Leads, Steps
<1>2. CASE InsertCommand(q)
  <2>1. request[q].op \in LedgerOps /\ request[q].pc = "insert_command"
    BY <1>2 DEF InsertCommand, At
  <2>2. \/ EndSession(q, "find") \/ EndSession(q, "raised")
        \/ Reply(q, AfterInsert(request[q].op), q)
    BY <1>2 DEF InsertCommand, Reply
  <2>3. AfterInsert(request[q].op) \in {"insert_run", "load_run", "commit"}
    BY <2>1 DEF LedgerOps, AfterInsert
  <2>4. request'[q].pc \in {"find", "raised", "insert_run", "load_run",
                             "commit"}
    BY <2>2, <2>3, EndSessionPc, ReplyPc DEF TypeInv
  <2> QED BY <2>1, <2>4 DEF Leads, Steps
<1>3. CASE InsertRun(q)
  BY <1>3, GoesTo DEF InsertRun, At, Leads, Steps
<1>4. CASE CancelLoad(q)
  <2>1. \/ Goto(q, "commit") \/ Goto(q, "mark_cancelled")
        \/ Sees(q, "stop", run[request[q].run])
        \/ Sees(q, "mark_failed", run[request[q].run])
    BY <1>4 DEF CancelLoad, Sees
  <2>2. request'[q].pc \in {"commit", "mark_cancelled", "stop",
                             "mark_failed"}
    BY <2>1, GoesTo, SeesPc
  <2> QED BY <1>4, <2>2 DEF CancelLoad, At, Leads, Steps
<1>5. CASE StopWorkflow(q)
  BY <1>5, GoesTo DEF StopWorkflow, At, Leads, Steps
<1>6. CASE Mark(q)
  BY <1>6, GoesTo DEF Mark, At, Leads, Steps
<1>7. CASE ApprovalLoadRun(q) \/ FindApproval(q)
  BY <1>7, GoesTo DEF ApprovalLoadRun, FindApproval, At, Leads, Steps
<1>8. CASE InsertApproval(q)
  <2>1. \/ EndSession(q, "raised") \/ Goto(q, "commit")
        \/ Goto(q, "mark_cancelled")
    BY <1>8 DEF InsertApproval, AfterDecision
  <2>2. request'[q].pc \in {"raised", "commit", "mark_cancelled"}
    BY <2>1, GoesTo, EndSessionPc DEF TypeInv
  <2> QED BY <1>8, <2>2 DEF InsertApproval, At, Leads, Steps
<1>9. CASE \/ LoadApproval(q) \/ ActivateLoadRun(q) \/ Consume(q)
           \/ MarkActivating(q)
  BY <1>9, GoesTo DEF LoadApproval, ActivateLoadRun, Consume, MarkActivating,
       At, Leads, Steps
<1>10. CASE DispatchFails(q) \/ DispatchRun(q)
  <2>1. EndSession(q, "raised") \/ Goto(q, "commit")
    BY <1>10 DEF DispatchFails, DispatchRun
  <2>2. request'[q].pc \in {"raised", "commit"}
    BY <2>1, GoesTo, EndSessionPc DEF TypeInv
  <2> QED BY <1>10, <2>2 DEF DispatchFails, DispatchRun, At, Leads, Steps
<1>11. CASE Commit(q)
  BY <1>11, EndSessionPc DEF Commit, Leads, Steps, TypeInv
<1> QED BY <1>1, <1>2, <1>3, <1>4, <1>5, <1>6, <1>7, <1>8, <1>9, <1>10,
           <1>11 DEF RequestNext

(* A transaction that has written the run only dispatches and commits, one
   that has written the approval may still write the run. *)
Orderly ==
  \A q \in Request :
    /\ request[q].pc \in {"find", "insert_command"} =>
         request[q].op \in LedgerOps
    /\ draft[q].status # "none" => request[q].pc \in {"dispatch", "commit"}
    /\ draft[q].approval # "none" =>
         request[q].pc \in {"mark_cancelled", "activating", "dispatch",
                            "commit"}

(* A step that leaves a column drafted has just written it, or has moved on
   from a step at which it was drafted. *)
LEMMA StatusColumn ==
  ASSUME TypeInv, Orderly, NEW q \in Request, RequestNext(q) \/ Abort(q),
         draft'[q].status # "none"
  PROVE  request'[q].pc \in {"dispatch", "commit"}
<1>0. draft \in [Request -> Draft] /\ draft[q] \in Draft
  BY DEF TypeInv, TypeOK
<1>1. CASE Abort(q) \/ Commit(q)
  BY <1>0, <1>1 DEF Abort, Commit, EndSession, NoDraft
<1>2. CASE \/ FindCommand(q) \/ CancelLoad(q) \/ StopWorkflow(q)
           \/ ApprovalLoadRun(q) \/ FindApproval(q) \/ LoadApproval(q)
           \/ ActivateLoadRun(q) \/ Consume(q) \/ InsertCommand(q)
           \/ InsertApproval(q)
  <2>1. request[q].pc \notin {"dispatch", "commit"}
    BY <1>2 DEF FindCommand, CancelLoad, StopWorkflow, ApprovalLoadRun,
         FindApproval, LoadApproval, ActivateLoadRun, Consume, InsertCommand,
         InsertApproval, At
  <2>2. draft[q].status = "none"
    BY <2>1 DEF Orderly
  <2>3. \/ draft' = draft
        \/ draft' = [draft EXCEPT ![q] = NoDraft]
        \/ draft' = [draft EXCEPT ![q].command = TRUE]
        \/ \E a : draft' = [draft EXCEPT ![q].approval = a]
    BY <1>2 DEF FindCommand, CancelLoad, StopWorkflow, ApprovalLoadRun,
         FindApproval, LoadApproval, ActivateLoadRun, Consume, InsertCommand,
         InsertApproval, EndSession
  <2>4. draft'[q].status = "none"
    BY <1>0, <2>2, <2>3 DEF NoDraft, Draft
  <2> QED BY <2>4
<1>3. CASE InsertRun(q) \/ Mark(q) \/ MarkActivating(q) \/ DispatchRun(q)
  BY <1>3, GoesTo DEF InsertRun, Mark, MarkActivating, DispatchRun
<1>4. CASE DispatchFails(q)
  <2>1. CASE EndSession(q, "raised")
    BY <1>0, <2>1 DEF EndSession, NoDraft
  <2>2. CASE Goto(q, "commit")
    BY <2>2, GoesTo
  <2> QED BY <1>4, <2>1, <2>2 DEF DispatchFails
<1> QED BY <1>1, <1>2, <1>3, <1>4 DEF RequestNext

LEMMA ApprovalColumn ==
  ASSUME TypeInv, Orderly, NEW q \in Request, RequestNext(q) \/ Abort(q),
         draft'[q].approval # "none"
  PROVE  request'[q].pc \in {"mark_cancelled", "activating", "dispatch",
                             "commit"}
<1>0. draft \in [Request -> Draft] /\ draft[q] \in Draft
  BY DEF TypeInv, TypeOK
<1>1. CASE Abort(q) \/ Commit(q)
  BY <1>0, <1>1 DEF Abort, Commit, EndSession, NoDraft
<1>2. CASE \/ FindCommand(q) \/ InsertCommand(q) \/ InsertRun(q)
           \/ CancelLoad(q) \/ StopWorkflow(q) \/ ApprovalLoadRun(q)
           \/ FindApproval(q) \/ LoadApproval(q) \/ ActivateLoadRun(q)
  <2>1. request[q].pc \notin {"mark_cancelled", "activating", "dispatch",
                              "commit"}
    BY <1>2 DEF FindCommand, InsertCommand, InsertRun, CancelLoad,
         StopWorkflow, ApprovalLoadRun, FindApproval, LoadApproval,
         ActivateLoadRun, At
  <2>2. draft[q].approval = "none"
    BY <2>1 DEF Orderly
  <2>3. \/ draft' = draft
        \/ draft' = [draft EXCEPT ![q] = NoDraft]
        \/ draft' = [draft EXCEPT ![q].command = TRUE]
        \/ \E s : draft' = [draft EXCEPT ![q].status = s]
    BY <1>2 DEF FindCommand, InsertCommand, InsertRun, CancelLoad,
         StopWorkflow, ApprovalLoadRun, FindApproval, LoadApproval,
         ActivateLoadRun, EndSession
  <2>4. draft'[q].approval = "none"
    BY <1>0, <2>2, <2>3 DEF NoDraft, Draft
  <2> QED BY <2>4
<1>3. CASE \/ Mark(q) \/ Consume(q) \/ MarkActivating(q) \/ DispatchRun(q)
  BY <1>3, GoesTo DEF Mark, Consume, MarkActivating, DispatchRun
<1>4. CASE InsertApproval(q) \/ DispatchFails(q)
  <2>1. CASE EndSession(q, "raised")
    BY <1>0, <2>1 DEF EndSession, NoDraft
  <2>2. CASE Goto(q, "commit") \/ Goto(q, "mark_cancelled")
    BY <2>2, GoesTo
  <2> QED BY <1>4, <2>1, <2>2 DEF InsertApproval, DispatchFails, AfterDecision
<1> QED BY <1>1, <1>2, <1>3, <1>4 DEF RequestNext

LEMMA OrderlyStep ==
  ASSUME TypeInv, Orderly, [Next]_vars
  PROVE  Orderly'
<1>1. CASE UNCHANGED vars
  BY <1>1 DEF vars, Orderly
<1>2. ASSUME NEW w \in Request, WorkflowEnds(w)
      PROVE  Orderly'
  BY <1>2 DEF WorkflowEnds, Orderly
<1>3. ASSUME NEW q \in Request, Arrive(q)
      PROVE  Orderly'
  <2>1. /\ request[q].pc = "new"
        /\ request'[q].pc = "find" => request'[q].op \in LedgerOps
        /\ request'[q].pc # "insert_command"
        /\ \A p \in Request \ {q} : request'[p] = request[p]
        /\ draft' = draft
    BY <1>3, Arrival DEF TypeInv, LedgerOps
  <2>2. draft[q].status = "none" /\ draft[q].approval = "none"
    BY <2>1 DEF Orderly
  <2> QED BY <2>1, <2>2 DEF Orderly
<1>4. ASSUME NEW q \in Request, RequestNext(q) \/ Abort(q)
      PROVE  Orderly'
  <2>1. /\ \A p \in Request \ {q} : request'[p] = request[p]
        /\ \A p \in Request \ {q} : draft'[p] = draft[p]
    BY <1>4, NextPc, ApprovalDrafts
  <2>2. request'[q].op = request[q].op
    BY <1>4, Identity DEF TypeInv, Same
  <2>3. ASSUME request'[q].pc \in {"find", "insert_command"}
        PROVE  request'[q].op \in LedgerOps
    <3>1. CASE Abort(q)
      BY <2>3, <3>1, EndSessionPc DEF Abort, TypeInv
    <3>2. CASE RequestNext(q)
      <4>1. request[q].pc \in {"find", "insert_command"}
        BY <2>3, <3>2, PcLeads DEF Leads, Steps
      <4> QED BY <2>2, <4>1 DEF Orderly
    <3> QED BY <1>4, <3>1, <3>2
  <2> QED BY <1>4, <2>1, <2>3, StatusColumn, ApprovalColumn DEF Orderly
<1> QED BY <1>1, <1>2, <1>3, <1>4 DEF Next

LEMMA OrderlyInit ==
  ASSUME Init
  PROVE  Orderly
BY DEF Init, Orderly, NoDraft

(* Whoever waits for a row waits for a transaction that is past the lock of
   this kind, and whoever waits for a run waits for one that waits for
   nobody. *)
LEMMA WaitsAscend ==
  ASSUME TypeInv, Keyed, Orderly, NEW p \in Request, NEW q \in Request,
         NEW r \in Request, WaitsFor(p, q), WaitsFor(q, r)
  PROVE  /\ request[p].pc \notin {"mark_cancelled", "mark_failed",
                                  "activating"}
         /\ request[q].pc # "insert_command"
         /\ request[p].pc # "insert_command" =>
              request[q].pc \in {"mark_cancelled", "activating"}
<1>1. CASE request[p].pc = "insert_command"
  <2>1. draft[q].command
    BY <1>1 DEF WaitsFor
  <2>2. request[q].pc \in Inserted
    BY <2>1 DEF Keyed
  <2> QED BY <1>1, <2>2 DEF Inserted
<1>2. CASE request[p].pc \in {"insert_approval", "consume"}
  <2>1. draft[q].approval # "none"
    BY <1>2 DEF WaitsFor
  <2>2. request[q].pc \in {"mark_cancelled", "activating", "dispatch", "commit"}
    BY <2>1 DEF Orderly
  <2>3. request[q].pc \in {"insert_command", "insert_approval", "consume",
                           "mark_cancelled", "mark_failed", "activating"}
    BY DEF WaitsFor
  <2> QED BY <1>2, <2>2, <2>3
<1>3. CASE request[p].pc \in {"mark_cancelled", "mark_failed", "activating"}
  <2>1. draft[q].status # "none"
    BY <1>3 DEF WaitsFor
  <2>2. request[q].pc \in {"dispatch", "commit"}
    BY <2>1 DEF Orderly
  <2> QED BY <2>2 DEF WaitsFor
<1>4. \/ request[p].pc = "insert_command"
      \/ request[p].pc \in {"insert_approval", "consume"}
      \/ request[p].pc \in {"mark_cancelled", "mark_failed", "activating"}
  BY DEF WaitsFor
<1> QED BY <1>1, <1>2, <1>3, <1>4

(* No set of requests of Mission Control is ever deadlocked on the rows of
   PostgreSQL: commands, approvals and runs are written in this order by
   submit_canonical_command, create_approval, consume_approval_and_activate
   and cancel_run alike. *)
THEOREM NoTransactionDeadlock == Spec => []NoCircularWait
<1> DEFINE Inv == TypeInv /\ Keyed /\ Orderly
<1>1. Init => Inv
  BY TypeInit, OrderlyInit DEF Init, Keyed, NoDraft, Inserted, Steps
<1>2. Inv /\ [Next]_vars => Inv'
  BY TypeStep, KeyedStep, OrderlyStep
<1>3. Inv => NoCircularWait
  <2> SUFFICES ASSUME Inv, NEW S \in SUBSET Request, S # {},
                      \A q \in S : \E p \in S : WaitsFor(q, p)
               PROVE  FALSE
    BY DEF NoCircularWait
  <2>1. PICK p1 \in S : TRUE
    OBVIOUS
  <2>2. PICK p2 \in S : WaitsFor(p1, p2)
    OBVIOUS
  <2>3. PICK p3 \in S : WaitsFor(p2, p3)
    OBVIOUS
  <2>4. PICK p4 \in S : WaitsFor(p3, p4)
    OBVIOUS
  <2>5. PICK p5 \in S : WaitsFor(p4, p5)
    OBVIOUS
  <2>6. request[p2].pc # "insert_command"
    BY <2>2, <2>3, WaitsAscend
  <2>7. request[p3].pc \in {"mark_cancelled", "activating"}
    BY <2>3, <2>4, <2>6, WaitsAscend
  <2>8. request[p3].pc \notin {"mark_cancelled", "activating"}
    BY <2>4, <2>5, WaitsAscend
  <2> QED BY <2>7, <2>8
<1> QED BY <1>1, <1>2, <1>3, PTL DEF Spec

(* A command stays in the table. *)
LEMMA CommandsStay ==
  ASSUME TypeInv, NEW q \in Request, RequestNext(q) \/ Abort(q),
         NEW k \in Key, command[k] # Nil
  PROVE  command'[k] # Nil
<1>1. command \in [Key -> Request \cup {Nil}]
  BY DEF TypeInv, TypeOK
<1>2. \/ command' = command
      \/ command' = [command EXCEPT ![request[q].key] = q]
  BY TableWrites
<1> QED BY <1>1, <1>2, NilAssumption

(* A refusal looks for its command again only if that is there. *)
LEMMA LooksAgain ==
  ASSUME TypeInv, NEW q \in Request, RequestNext(q),
         request[q].pc = "insert_command", request'[q].pc = "find"
  PROVE  command[request[q].key] # Nil /\ command' = command
<1>1. InsertCommand(q)
  BY DEF RequestNext, FindCommand, InsertCommand, InsertRun, CancelLoad,
       StopWorkflow, Mark, ApprovalLoadRun, FindApproval, InsertApproval,
       LoadApproval, ActivateLoadRun, Consume, MarkActivating,
       DispatchFails, DispatchRun, Commit, At
<1>2. AfterInsert(request[q].op) # "find"
  BY <1>1 DEF InsertCommand, At, LedgerOps, AfterInsert
<1>3. ~Reply(q, AfterInsert(request[q].op), q)
  BY <1>2, ReplyPc
<1> QED BY <1>1, <1>3 DEF InsertCommand, Reply, tables

(* A request that looks for its command inserts one only if it finds none. *)
LEMMA InsertsIfNone ==
  ASSUME TypeInv, NEW q \in Request, RequestNext(q),
         request[q].pc = "find", request'[q].pc = "insert_command"
  PROVE  command[request[q].key] = Nil
<1>1. FindCommand(q)
  BY DEF RequestNext, FindCommand, InsertCommand, InsertRun, CancelLoad,
       StopWorkflow, Mark, ApprovalLoadRun, FindApproval, InsertApproval,
       LoadApproval, ActivateLoadRun, Consume, MarkActivating,
       DispatchFails, DispatchRun, Commit, At
<1>2. \/ command[request[q].key] = Nil
      \/ Goto(q, "raised") \/ Reply(q, "done", command[request[q].key])
  BY <1>1 DEF FindCommand, Reply
<1> QED BY <1>2, GoesTo, ReplyPc

LEMMA OwnStepAdvances ==
  ASSUME TypeInv, Orderly, NEW q \in Request, RequestNext(q) \/ Abort(q)
  PROVE  StepsLeft(q)' < StepsLeft(q)
<1>0. request[q].pc \in Steps => StepsLeft(q) \in 1 .. 8
  BY DEF StepsLeft, Steps
<1>1. CASE Abort(q)
  <2>1. request'[q].pc = "raised" /\ request[q].pc \in Steps
    BY <1>1, EndSessionPc DEF Abort, TypeInv
  <2>2. StepsLeft(q)' = 0
    BY <2>1 DEF StepsLeft
  <2> QED BY <1>0, <2>1, <2>2
<1>2. CASE RequestNext(q)
  <2>1. request[q].pc \in Steps /\ request'[q].pc \in Leads[request[q].pc]
    BY <1>2, PcLeads
  <2>2. request'[q].key = request[q].key
    BY <1>2, Identity DEF TypeInv, Same
  <2>3. CASE request[q].pc = "find"
    <3>1. request'[q].pc \in {"insert_command", "done", "raised"}
      BY <2>1, <2>3 DEF Leads
    <3>2. CASE request'[q].pc = "insert_command"
      <4>1. command[request[q].key] = Nil
        BY <1>2, <2>3, <3>2, InsertsIfNone
      <4> QED BY <2>3, <3>2, <4>1 DEF StepsLeft
    <3>3. CASE request'[q].pc \in {"done", "raised"}
      BY <2>3, <3>3 DEF StepsLeft
    <3> QED BY <3>1, <3>2, <3>3
  <2>4. CASE request[q].pc = "insert_command"
    <3>1. request'[q].pc \in {"find", "raised", "insert_run", "load_run",
                              "commit"}
      BY <2>1, <2>4 DEF Leads
    <3>2. CASE request'[q].pc = "find"
      <4>1. command'[request'[q].key] # Nil
        BY <1>2, <2>2, <2>4, <3>2, LooksAgain
      <4> QED BY <2>4, <3>2, <4>1 DEF StepsLeft
    <3>3. CASE request'[q].pc # "find"
      BY <2>4, <3>1, <3>3 DEF StepsLeft
    <3> QED BY <3>2, <3>3
  <2>5. CASE request[q].pc \in {"insert_run", "load_run", "stop",
                                "mark_cancelled", "mark_failed"}
    BY <2>1, <2>5 DEF Leads, StepsLeft
  <2>6. CASE request[q].pc \in {"find_approval", "insert_approval",
                                "load_approval", "consume", "activating",
                                "dispatch", "commit"}
    BY <2>1, <2>6 DEF Leads, StepsLeft
  <2> QED BY <2>1, <2>3, <2>4, <2>5, <2>6 DEF Steps
<1> QED BY <1>1, <1>2

(* Every step of a request takes it nearer to its end, and the commits of
   the others only shorten its way: no request loops, and with
   NoTransactionDeadlock none is kept waiting by requests that wait. *)
THEOREM RequestsKeepAdvancing == Spec => RequestsAdvance
<1> DEFINE Inv == TypeInv /\ Orderly
<1>1. Init => Inv
  BY TypeInit, OrderlyInit
<1>2. Inv /\ [Next]_vars => Inv'
  BY TypeStep, OrderlyStep
<1>3. ASSUME Inv, Next, NEW q \in Request, request[q].pc \in Steps
      PROVE  \/ StepsLeft(q)' < StepsLeft(q)
             \/ StepsLeft(q)' = StepsLeft(q) /\ UNCHANGED request[q]
  <2>1. StepsLeft(q) \in 1 .. 8
    BY <1>3 DEF StepsLeft, Steps
  <2>2. CASE \E w \in Request : WorkflowEnds(w)
    BY <2>2 DEF WorkflowEnds, tables, StepsLeft
  <2>3. CASE \E p \in Request : Arrive(p)
    <3>1. PICK p \in Request : Arrive(p)
      BY <2>3
    <3>2. /\ request[p].pc = "new"
          /\ \A s \in Request \ {p} : request'[s] = request[s]
          /\ command' = command
      BY <1>3, <3>1, Arrival DEF TypeInv, tables
    <3>3. q # p
      BY <1>3, <3>2 DEF Steps
    <3> QED BY <3>2, <3>3 DEF StepsLeft
  <2>4. CASE RequestNext(q) \/ Abort(q)
    BY <1>3, <2>4, OwnStepAdvances
  <2>5. CASE \E p \in Request \ {q} : RequestNext(p) \/ Abort(p)
    <3>1. PICK p \in Request \ {q} : RequestNext(p) \/ Abort(p)
      BY <2>5
    <3>2. request'[q] = request[q]
      BY <1>3, <3>1, NextPc
    <3>3. CASE request[q].pc = "find"
      <4>1. request[q].key \in Key
        BY <1>3, <3>3 DEF Orderly, TypeInv, Named
      <4>2. command[request[q].key] # Nil => command'[request[q].key] # Nil
        BY <1>3, <3>1, <4>1, CommandsStay
      <4> QED BY <3>2, <3>3, <4>2 DEF StepsLeft
    <3>4. CASE request[q].pc # "find"
      BY <3>2, <3>4 DEF StepsLeft
    <3> QED BY <3>3, <3>4
  <2> QED BY <1>3, <2>2, <2>3, <2>4, <2>5 DEF Next
<1>4. Inv /\ [Next]_vars =>
        [\A q \in Request : request[q].pc \in Steps =>
           \/ StepsLeft(q)' < StepsLeft(q)
           \/ StepsLeft(q)' = StepsLeft(q) /\ UNCHANGED request[q]]_vars
  BY <1>3
<1> QED BY <1>1, <1>2, <1>4, PTL DEF Spec, RequestsAdvance

-----------------------------------------------------------------------------
(* How often an approval is used.                                          *)

(* No two activations of one run are past their check of the approval at
   the same time. *)
Apart ==
  \A p \in Request : \A q \in Request \ {p} :
    /\ request[p].op = "activate" /\ request[p].pc \in Activating
    /\ request[q].op = "activate" /\ request[q].pc \in Activating
    => request[p].run # request[q].run

Succeeded(q) == request[q].op = "activate" /\ request[q].pc = "done"

(* A successful activation leaves the approval CONSUMED, and none that is
   under way follows it. *)
Spent ==
  \A q \in Request :
    /\ request[q].op = "activate" /\
       request[q].pc \in {"activating", "dispatch", "commit"} =>
         draft[q].approval = "consumed"
    /\ Succeeded(q) => approval[request[q].run] = "consumed"
    /\ request[q].op = "activate" /\ request[q].pc \in Activating =>
         \A p \in Request : Succeeded(p) => request[p].run # request[q].run

(* A CONSUMED approval stays so. *)
LEMMA ConsumedStays ==
  ASSUME TypeInv, Held, NEW q \in Request, RequestNext(q) \/ Abort(q),
         NEW r \in Request, approval[r] = "consumed"
  PROVE  approval'[r] = "consumed"
<1>1. CASE approval' = approval
  BY <1>1
<1>2. CASE /\ draft[q].approval # "none"
           /\ approval' = [approval EXCEPT ![request[q].run] =
                                               draft[q].approval]
  <2>1. CASE request[q].run = r
    <3>1. draft[q].approval = "consumed"
      BY <1>2, <2>1 DEF Held, TypeInv, TypeOK, Draft
    <3> QED BY <1>2, <3>1, <2>1 DEF TypeInv, TypeOK
  <2>2. CASE request[q].run # r
    BY <1>2, <2>2 DEF TypeInv, TypeOK
  <2> QED BY <2>1, <2>2
<1> QED BY <1>1, <1>2, TableWrites

(* The steps of an activation one by one. *)
LEMMA ActivationSteps ==
  ASSUME TypeInv, Spent, NEW q \in Request, RequestNext(q) \/ Abort(q),
         request[q].op = "activate"
  PROVE  \/ /\ request'[q].pc \notin Activating \cup {"done"}
            /\ approval' = approval
         \/ /\ LoadApproval(q) /\ approval[request[q].run] = "pending"
            /\ request'[q].pc = "load_run"
         \/ /\ request[q].pc \in Activating
            /\ request'[q].pc \in Activating \ {"load_run"}
            /\ request'[q].pc # "consume" => draft'[q].approval = "consumed"
            /\ approval' = approval
         \/ Commit(q) /\ request[q].pc \in Activating
<1>0. /\ request \in [Request -> RequestState] /\ request[q] \in RequestState
      /\ draft \in [Request -> Draft] /\ draft[q] \in Draft
  BY DEF TypeInv, TypeOK
<1>1. request[q].op \notin LedgerOps \cup {"approve", "reject"}
  BY DEF LedgerOps
<1>2. \/ LoadApproval(q) \/ ActivateLoadRun(q) \/ Consume(q)
      \/ MarkActivating(q) \/ DispatchFails(q) \/ DispatchRun(q)
      \/ Commit(q) \/ Abort(q)
  BY <1>1 DEF RequestNext, FindCommand, InsertCommand, InsertRun, CancelLoad,
       StopWorkflow, Mark, ApprovalLoadRun, FindApproval, InsertApproval, At,
       LedgerOps
<1>3. CASE Abort(q)
  BY <1>3, EndSessionPc DEF Abort, Activating, TypeInv, tables
<1>4. CASE Commit(q)
  BY <1>4 DEF Commit, Activating
<1>5. CASE LoadApproval(q)
  <2>1. CASE approval[request[q].run] = "pending"
    BY <1>5, <2>1, GoesTo DEF LoadApproval
  <2>2. CASE approval[request[q].run] # "pending"
    BY <1>5, <2>2, GoesTo DEF LoadApproval, Activating, tables
  <2> QED BY <2>1, <2>2
<1>6. CASE ActivateLoadRun(q)
  <2>1. request[q].pc = "load_run" /\ approval' = approval
    BY <1>6 DEF ActivateLoadRun, At, tables
  <2>2. request'[q].pc \in {"consume", "raised"}
    BY <1>6, GoesTo DEF ActivateLoadRun
  <2> QED BY <2>1, <2>2 DEF Activating
<1>7. CASE Consume(q)
  <2>1. request'[q].pc = "activating"
    BY <1>7, GoesTo DEF Consume
  <2>2. draft'[q].approval = "consumed"
    BY <1>0, <1>7 DEF Consume, Draft
  <2> QED BY <1>7, <2>1, <2>2 DEF Consume, At, Activating, tables
<1>8. CASE MarkActivating(q) \/ DispatchRun(q)
  <2>0. request[q].pc \in {"activating", "dispatch"}
    BY <1>8 DEF MarkActivating, DispatchRun, At
  <2>1. draft[q].approval = "consumed"
    BY <2>0 DEF Spent
  <2>2. draft'[q].approval = "consumed"
    <3>1. CASE MarkActivating(q)
      BY <1>0, <2>1, <3>1 DEF MarkActivating, Draft
    <3>2. CASE DispatchRun(q)
      BY <1>0, <2>1, <3>2 DEF DispatchRun, Draft
    <3> QED BY <1>8, <3>1, <3>2
  <2>3. request'[q].pc \in {"dispatch", "commit"}
    BY <1>8, GoesTo DEF MarkActivating, DispatchRun
  <2> QED BY <1>8, <2>2, <2>3 DEF MarkActivating, DispatchRun, At,
             Activating, tables
<1>9. CASE DispatchFails(q)
  <2>1. EndSession(q, "raised") /\ approval' = approval
    BY <1>9 DEF DispatchFails, tables
  <2> QED BY <2>1, EndSessionPc DEF Activating, TypeInv
<1> QED BY <1>2, <1>3, <1>4, <1>5, <1>6, <1>7, <1>8, <1>9

LEMMA SpentStep ==
  ASSUME TypeInv, Held, Apart, Spent, [Next]_vars
  PROVE  Spent'
<1>1. CASE UNCHANGED vars
  BY <1>1 DEF vars, tables, Spent, Succeeded
<1>2. ASSUME NEW w \in Request, WorkflowEnds(w)
      PROVE  Spent'
  BY <1>2 DEF WorkflowEnds, tables, Spent, Succeeded
<1>3. ASSUME NEW q \in Request, Arrive(q)
      PROVE  Spent'
  <2>1. /\ request[q].pc = "new"
        /\ request'[q].pc \in {"find", "load_run", "load_approval"}
        /\ request'[q].op = "activate" => request'[q].pc = "load_approval"
        /\ \A p \in Request \ {q} : request'[p] = request[p]
        /\ UNCHANGED <<approval, draft>>
    BY <1>3, Arrival DEF TypeInv, tables
  <2>2. /\ request'[q].op = "activate" => request'[q].pc \notin Activating
        /\ ~Succeeded(q)'
    BY <2>1 DEF Activating, Succeeded
  <2>3. ~Succeeded(q)
    BY <2>1 DEF Succeeded
  <2> QED BY <2>1, <2>2, <2>3 DEF Spent, Succeeded, Activating
<1>4. ASSUME NEW q \in Request, RequestNext(q) \/ Abort(q)
      PROVE  Spent'
  <2>1. /\ \A p \in Request \ {q} : request'[p] = request[p]
        /\ \A p \in Request \ {q} : draft'[p] = draft[p]
    BY <1>4, NextPc, ApprovalDrafts
  <2>2. \A p \in Request : Same(p)
    BY <1>4, Identity DEF TypeInv
  <2>3. ASSUME NEW p \in Request, Succeeded(p)
        PROVE  /\ request'[p] = request[p]
               /\ approval'[request[p].run] = "consumed"
    <3>1. request[p].run \in Request
      BY <2>3 DEF Succeeded, TypeInv, Named, LedgerOps
    <3>2. approval'[request[p].run] = "consumed"
      BY <1>4, <2>3, <3>1, ConsumedStays DEF Spent
    <3>3. p # q
      BY <1>4, <2>3, PcLeads DEF Succeeded, Abort, Steps
    <3> QED BY <2>1, <3>2, <3>3
  <2>4. CASE request[q].op # "activate"
    <3>1. \A p \in Request : Succeeded(p)' => Succeeded(p)
      BY <2>1, <2>2, <2>4 DEF Succeeded, Same
    <3> QED BY <2>1, <2>2, <2>3, <2>4, <3>1 DEF Spent, Same
  <2>5. CASE request[q].op = "activate"
    <3>1. CASE request'[q].pc \notin Activating \cup {"done"}
      <4>1. \A p \in Request : Succeeded(p)' => Succeeded(p)
        BY <2>1, <2>2, <3>1 DEF Succeeded, Same
      <4> QED BY <2>1, <2>2, <2>3, <3>1, <4>1 DEF Spent, Same, Activating
    <3>2. CASE /\ LoadApproval(q) /\ approval[request[q].run] = "pending"
               /\ request'[q].pc = "load_run"
      <4>1. \A p \in Request : Succeeded(p)' => Succeeded(p)
        BY <2>1, <2>2, <3>2 DEF Succeeded, Same
      <4>2. \A p \in Request : Succeeded(p) => request[p].run # request[q].run
        BY <3>2 DEF Spent
      <4> QED BY <2>1, <2>2, <2>3, <3>2, <4>1, <4>2 DEF Spent, Same
    <3>3. CASE /\ request[q].pc \in Activating
               /\ request'[q].pc \in Activating \ {"load_run"}
               /\ request'[q].pc # "consume" => draft'[q].approval = "consumed"
               /\ approval' = approval
      <4>1. \A p \in Request : Succeeded(p)' => Succeeded(p)
        BY <2>1, <2>2, <3>3 DEF Succeeded, Same, Activating
      <4> QED BY <2>1, <2>2, <2>3, <2>5, <3>3, <4>1 DEF Spent, Same
    <3>4. CASE Commit(q) /\ request[q].pc \in Activating
      <4>1. draft[q].approval = "consumed"
        BY <2>5, <3>4 DEF Commit, Spent
      <4>2. request[q].run \in Request /\ approval \in [Request -> ApprovalStatus]
        BY <2>5, <3>4 DEF TypeInv, TypeOK, Named, LedgerOps, Activating
      <4>3. approval'[request[q].run] = "consumed"
        BY <3>4, <4>1, <4>2 DEF Commit
      <4>4. request'[q].pc = "done"
        BY <3>4, EndSessionPc DEF Commit, TypeInv
      <4>5. \A p \in Request \ {q} :
              request[p].op = "activate" /\ request[p].pc \in Activating =>
                request[p].run # request[q].run
        BY <2>5, <3>4 DEF Apart
      <4>6. \A p \in Request \ {q} : Succeeded(p)' <=> Succeeded(p)
        BY <2>1, <2>2 DEF Succeeded, Same
      <4> QED BY <2>1, <2>2, <2>3, <4>3, <4>4, <4>5, <4>6
              DEF Spent, Same, Activating
    <3> QED BY <1>4, <2>5, <3>1, <3>2, <3>3, <3>4, ActivationSteps
  <2> QED BY <2>4, <2>5
<1> QED BY <1>1, <1>2, <1>3, <1>4 DEF Next

LEMMA OnceStep ==
  ASSUME TypeInv, Spent, ConsumedOnce, [Next]_vars
  PROVE  ConsumedOnce'
<1>1. CASE UNCHANGED vars
  BY <1>1 DEF vars, ConsumedOnce
<1>2. ASSUME NEW w \in Request, WorkflowEnds(w)
      PROVE  ConsumedOnce'
  BY <1>2 DEF WorkflowEnds, ConsumedOnce
<1>3. ASSUME NEW q \in Request, Arrive(q)
      PROVE  ConsumedOnce'
  <2>1. /\ request'[q].pc # "done"
        /\ \A p \in Request \ {q} : request'[p] = request[p]
    BY <1>3, Arrival DEF TypeInv
  <2> QED BY <2>1 DEF ConsumedOnce
<1>4. ASSUME NEW q \in Request, RequestNext(q) \/ Abort(q)
      PROVE  ConsumedOnce'
  <2>1. \A p \in Request \ {q} : request'[p] = request[p]
    BY <1>4, NextPc
  <2>2. \A p \in Request : Same(p)
    BY <1>4, Identity DEF TypeInv
  <2>3. CASE request[q].op # "activate" \/ request'[q].pc # "done"
    BY <2>1, <2>2, <2>3 DEF ConsumedOnce, Same
  <2>4. CASE request[q].op = "activate" /\ request'[q].pc = "done"
    <3>1. request[q].pc \in Activating
      BY <1>4, <2>4, ActivationSteps DEF Activating
    <3>2. \A p \in Request : Succeeded(p) => request[p].run # request[q].run
      BY <2>4, <3>1 DEF Spent
    <3> QED BY <2>1, <2>2, <3>2 DEF ConsumedOnce, Same, Succeeded
  <2> QED BY <2>3, <2>4
<1> QED BY <1>1, <1>2, <1>3, <1>4 DEF Next

(* The PENDING check of consume_approval_and_activate makes the consumption
   of an approval unique among activations that follow one another, also
   when some of them fail: the second one that ConsumedOnce forbids and the
   code admits takes two activations past the check at the same time. *)
THEOREM ConsumedOnceIfApart == Spec /\ []Apart => []ConsumedOnce
<1> DEFINE Inv == TypeInv /\ Held /\ Spent /\ ConsumedOnce
<1>1. Init => Inv
  BY TypeInit DEF Init, Held, Spent, Succeeded, ConsumedOnce, NoDraft,
     Activating
<1>2. Inv /\ Apart /\ [Next]_vars => Inv'
  BY TypeStep, HeldStep, SpentStep, OnceStep
<1> QED BY <1>1, <1>2, PTL DEF Spec

-----------------------------------------------------------------------------
(* The promise to the Principal.                                           *)

(* The runs that have been asked for and need an approval. *)
Governed == {r \in Request : request[r].pc # "new" /\ NeedsApproval(r)}

(* Only runs that need one are approved or rejected. *)
Gated ==
  \A q \in Request :
    /\ request[q].pc = "new" \/ request[q].op = "refusal" =>
         request[q].run = Nil
    /\ request[q].run \in Request => request[request[q].run].pc # "new"
    /\ run[q].status # "absent" => request[q].pc # "new"
    /\ run[q].status = "approval_required" => q \in Governed
    /\ draft[q].status = "approval_required" => request[q].run \in Governed
    /\ /\ request[q].op \in {"approve", "reject"}
       /\ request[q].pc \in {"find_approval", "insert_approval"}
       => request[q].run \in Governed
    /\ draft[q].approval # "none" => request[q].run \in Governed
    /\ approval[q] # "absent" => q \in Governed

(* What an activation commits: the approval CONSUMED and the run ACTIVE. *)
Together ==
  \A q \in Request :
    /\ request[q].op = "activate" =>
         /\ request[q].pc \in {"activating", "dispatch", "commit"} =>
              draft[q].approval = "consumed"
         /\ request[q].pc = "commit" => draft[q].status = "active"
    /\ draft[q].status = "active" =>
         \/ request[q].op = "activate"
         \/ request[q].op = "start" /\ request[q].policy = "direct"
    /\ NeedsApproval(q) /\ run[q].status = "active" =>
         approval[q] = "consumed"

PromiseInv == TypeInv /\ Held /\ Approved /\ Backed /\ Orderly /\ Gated /\ Together

LEMMA StatusWays ==
  ASSUME TypeInv, NEW q \in Request, RequestNext(q) \/ Abort(q)
  PROVE  \/ draft'[q].status = draft[q].status
         \/ draft'[q].status \in {"none", "cancelled", "failed", "pending",
                                  "activating"}
         \/ /\ draft'[q].status = "approval_required"
            /\ request[q].op = "start" /\ request[q].policy = "approval"
         \/ /\ draft'[q].status = "active" /\ request[q].pc = "dispatch"
            /\ request[q].op \in {"start", "activate"}
<1>0. draft \in [Request -> Draft] /\ draft[q] \in Draft
  BY DEF TypeInv, TypeOK
<1>1. CASE Abort(q) \/ Commit(q)
  BY <1>0, <1>1 DEF Abort, Commit, EndSession, NoDraft
<1>2. CASE \/ FindCommand(q) \/ CancelLoad(q) \/ StopWorkflow(q)
           \/ ApprovalLoadRun(q) \/ FindApproval(q) \/ LoadApproval(q)
           \/ ActivateLoadRun(q) \/ Consume(q) \/ InsertCommand(q)
           \/ InsertApproval(q)
  <2>1. \/ draft' = draft
        \/ draft' = [draft EXCEPT ![q] = NoDraft]
        \/ draft' = [draft EXCEPT ![q].command = TRUE]
        \/ \E a : draft' = [draft EXCEPT ![q].approval = a]
    BY <1>2 DEF FindCommand, CancelLoad, StopWorkflow, ApprovalLoadRun,
         FindApproval, LoadApproval, ActivateLoadRun, Consume, InsertCommand,
         InsertApproval, EndSession
  <2> QED BY <1>0, <2>1 DEF NoDraft, Draft
<1>3. CASE InsertRun(q)
  BY <1>0, <1>3 DEF InsertRun, At, Draft
<1>4. CASE Mark(q) \/ MarkActivating(q)
  BY <1>0, <1>4 DEF Mark, MarkActivating, Draft
<1>5. CASE DispatchRun(q)
  BY <1>0, <1>5 DEF DispatchRun, At, Draft
<1>6. CASE DispatchFails(q)
  BY <1>0, <1>6 DEF DispatchFails, EndSession, NoDraft, Draft
<1> QED BY <1>1, <1>2, <1>3, <1>4, <1>5, <1>6 DEF RequestNext

LEMMA ActivationDrafts ==
  ASSUME TypeInv, Together, NEW q \in Request, RequestNext(q) \/ Abort(q),
         request[q].op = "activate",
         request'[q].pc \in {"activating", "dispatch", "commit"}
  PROVE  /\ draft'[q].approval = "consumed"
         /\ request'[q].pc = "commit" => draft'[q].status = "active"
<1>0. draft \in [Request -> Draft] /\ draft[q] \in Draft
  BY DEF TypeInv, TypeOK
<1>1. request[q].op \notin LedgerOps \cup {"approve", "reject"}
  BY DEF LedgerOps
<1>2. \/ LoadApproval(q) \/ ActivateLoadRun(q) \/ Consume(q)
      \/ MarkActivating(q) \/ DispatchFails(q) \/ DispatchRun(q)
      \/ Commit(q) \/ Abort(q)
  BY <1>1 DEF RequestNext, FindCommand, InsertCommand, InsertRun, CancelLoad,
       StopWorkflow, Mark, ApprovalLoadRun, FindApproval, InsertApproval, At,
       LedgerOps
<1>3. CASE Abort(q) \/ Commit(q)
  BY <1>3, EndSessionPc DEF Abort, Commit, TypeInv
<1>4. CASE LoadApproval(q) \/ ActivateLoadRun(q)
  BY <1>4, GoesTo DEF LoadApproval, ActivateLoadRun
<1>5. CASE Consume(q)
  <2>1. request'[q].pc = "activating"
    BY <1>5, GoesTo DEF Consume
  <2> QED BY <1>0, <1>5, <2>1 DEF Consume, Draft
<1>6. CASE MarkActivating(q)
  <2>1. request'[q].pc = "dispatch" /\ request[q].pc = "activating"
    BY <1>6, GoesTo DEF MarkActivating, At
  <2>2. draft[q].approval = "consumed"
    BY <2>1 DEF Together
  <2> QED BY <1>0, <1>6, <2>1, <2>2 DEF MarkActivating, Draft
<1>7. CASE DispatchRun(q)
  <2>1. draft[q].approval = "consumed"
    BY <1>7 DEF DispatchRun, At, Together
  <2> QED BY <1>0, <1>7, <2>1 DEF DispatchRun, Draft
<1>8. CASE DispatchFails(q)
  <2>1. EndSession(q, "raised")
    BY <1>8 DEF DispatchFails
  <2> QED BY <2>1, EndSessionPc DEF TypeInv
<1> QED BY <1>2, <1>3, <1>4, <1>5, <1>6, <1>7, <1>8

(* Whoever looks for an approval has read a run that requires one. *)
LEMMA LooksForApproval ==
  ASSUME TypeInv, NEW q \in Request, RequestNext(q) \/ Abort(q),
         request[q].op \in {"approve", "reject"},
         request'[q].pc \in {"find_approval", "insert_approval"}
  PROVE  \/ request[q].pc \in {"find_approval", "insert_approval"}
         \/ run[request[q].run].status = "approval_required"
<1>1. CASE Abort(q)
  BY <1>1, EndSessionPc DEF Abort, TypeInv
<1>2. CASE ApprovalLoadRun(q)
  BY <1>2, GoesTo DEF ApprovalLoadRun
<1>3. CASE RequestNext(q) /\ ~ApprovalLoadRun(q)
  <2>1. request[q].pc \in {"load_run", "find_approval"}
    BY <1>3, PcLeads DEF Leads, Steps
  <2>2. CASE request[q].pc = "load_run"
    <3>1. CancelLoad(q) \/ ActivateLoadRun(q)
      BY <1>3, <2>2 DEF RequestNext, FindCommand, InsertCommand, InsertRun,
         StopWorkflow, Mark, FindApproval, InsertApproval, LoadApproval,
         Consume, MarkActivating, DispatchFails, DispatchRun, Commit, At
    <3> QED BY <3>1 DEF CancelLoad, ActivateLoadRun, At
  <2> QED BY <2>1, <2>2
<1> QED BY <1>1, <1>2, <1>3

(* A request names a run that has been asked for before. *)
LEMMA NamesKnownRun ==
  ASSUME TypeInv, NEW q \in Request, Arrive(q), request[q].run = Nil
  PROVE  /\ request'[q].op = "refusal" => request'[q].run = Nil
         /\ request'[q].run \in Request =>
              \/ request'[q].run = q
              \/ request[request'[q].run].pc # "new"
<1>1. request[q] \in RequestState /\ request \in [Request -> RequestState]
  BY DEF TypeInv, TypeOK
<1>2. ASSUME NEW k \in Key, NEW p \in Policies, Start(q, k, p)
      PROVE  request'[q].op = "start" /\ request'[q].run = q
  BY <1>1, <1>2 DEF Start, RequestState
<1>3. ASSUME NEW k \in Key, Refusal(q, k)
      PROVE  request'[q].run = Nil
  BY <1>1, <1>3 DEF Refusal, RequestState
<1>4. ASSUME NEW r \in Request \ {q}, request[r].pc \in {"commit"} \cup Ends,
             \/ \E k \in Key : Cancel(q, k, r)
             \/ \E decision \in {"approve", "reject"} : Approve(q, decision, r)
             \/ Activate(q, r)
      PROVE  /\ request'[q].run = r /\ request[r].pc # "new"
             /\ request'[q].op # "refusal"
  <2>1. request[r].pc # "new"
    BY <1>4 DEF Ends
  <2>2. CASE \E k \in Key : Cancel(q, k, r)
    BY <1>1, <2>1, <2>2 DEF Cancel, RequestState
  <2>3. CASE \E decision \in {"approve", "reject"} : Approve(q, decision, r)
    BY <1>1, <2>1, <2>3 DEF Approve, RequestState
  <2>4. CASE Activate(q, r)
    BY <1>1, <2>1, <2>4 DEF Activate, RequestState
  <2> QED BY <1>4, <2>2, <2>3, <2>4
<1>5. CASE \E k \in Key, p \in Policies : Start(q, k, p)
  BY <1>2, <1>5
<1>6. CASE \E k \in Key : Refusal(q, k)
  BY <1>3, <1>6, NilAssumption
<1>7. CASE \E r \in Request \ {q} :
             /\ request[r].op = "start"
             /\ request[r].pc \in {"commit"} \cup Ends
             /\ \/ \E k \in Key : Cancel(q, k, r)
                \/ \E decision \in {"approve", "reject"} : Approve(q, decision, r)
                \/ Activate(q, r)
  BY <1>4, <1>7
<1> QED BY <1>5, <1>6, <1>7 DEF Arrive

LEMMA ApprovalWays ==
  ASSUME TypeInv, NEW q \in Request, RequestNext(q) \/ Abort(q)
  PROVE  \/ draft'[q].approval \in {draft[q].approval, "none"}
         \/ /\ request[q].op \in {"approve", "reject"}
            /\ request[q].pc = "insert_approval"
         \/ request[q].op = "activate" /\ request[q].pc = "consume"
<1>0. draft \in [Request -> Draft] /\ draft[q] \in Draft
  BY DEF TypeInv, TypeOK
<1>1. CASE InsertApproval(q) \/ Consume(q)
  BY <1>1 DEF InsertApproval, Consume, At
<1>2. CASE \/ Abort(q) \/ Commit(q) \/ FindCommand(q) \/ InsertCommand(q)
           \/ InsertRun(q) \/ CancelLoad(q) \/ StopWorkflow(q) \/ Mark(q)
           \/ ApprovalLoadRun(q) \/ FindApproval(q) \/ LoadApproval(q)
           \/ ActivateLoadRun(q) \/ MarkActivating(q) \/ DispatchFails(q)
  <2>1. \/ draft' = draft
        \/ draft' = [draft EXCEPT ![q] = NoDraft]
        \/ draft' = [draft EXCEPT ![q].command = TRUE]
        \/ \E s : draft' = [draft EXCEPT ![q].status = s]
    BY <1>2 DEF Abort, Commit, FindCommand, InsertCommand, InsertRun,
         CancelLoad, StopWorkflow, Mark, ApprovalLoadRun, FindApproval,
         LoadApproval, ActivateLoadRun, MarkActivating, DispatchFails,
         EndSession
  <2> QED BY <1>0, <2>1 DEF NoDraft, Draft
<1>3. CASE DispatchRun(q)
  BY <1>0, <1>3 DEF DispatchRun, Draft
<1> QED BY <1>1, <1>2, <1>3 DEF RequestNext

LEMMA GovernedStays ==
  ASSUME TypeInv, [Next]_vars
  PROVE  Governed \subseteq Governed'
<1>1. CASE UNCHANGED vars
  BY <1>1 DEF vars, Governed, NeedsApproval
<1>2. ASSUME NEW q \in Request, Arrive(q)
      PROVE  Governed \subseteq Governed'
  BY <1>2, Arrival DEF TypeInv, Governed, NeedsApproval
<1>3. ASSUME NEW q \in Request, RequestNext(q) \/ Abort(q) \/ WorkflowEnds(q)
      PROVE  Governed \subseteq Governed'
  BY <1>3, Identity DEF TypeInv, Governed, NeedsApproval, Same
<1> QED BY <1>1, <1>2, <1>3 DEF Next

LEMMA GatedStep ==
  ASSUME TypeInv, Approved, Gated, [Next]_vars
  PROVE  Gated'
<1>0. Governed \subseteq Governed'
  BY GovernedStays
<1>1. CASE UNCHANGED vars
  BY <1>0, <1>1 DEF vars, tables, Gated
<1>2. ASSUME NEW w \in Request, WorkflowEnds(w)
      PROVE  Gated'
  BY <1>0, <1>2 DEF WorkflowEnds, tables, Gated
<1>3. ASSUME NEW a \in Request, Arrive(a)
      PROVE  Gated'
  <2>1. /\ request[a].pc = "new" /\ request'[a].pc # "new"
        /\ request'[a].pc \notin {"find_approval", "insert_approval"}
        /\ \A p \in Request \ {a} : request'[p] = request[p]
        /\ UNCHANGED <<run, approval, draft>>
    BY <1>3, Arrival DEF TypeInv, tables
  <2>2. request[a].run = Nil
    BY <2>1 DEF Gated
  <2>3. /\ request'[a].op = "refusal" => request'[a].run = Nil
        /\ request'[a].run \in Request =>
             request'[a].run = a \/ request[request'[a].run].pc # "new"
    BY <1>3, <2>2, NamesKnownRun
  <2>4. \A q \in Request : request[q].run \in Governed => request'[q].run \in Governed'
    BY <1>0, <2>1, <2>2, NilAssumption DEF Governed
  <2>5. ASSUME NEW q \in Request, request'[q].run \in Request
        PROVE  request'[request'[q].run].pc # "new"
    BY <2>1, <2>3, <2>5 DEF Gated
  <2>6. ASSUME NEW q \in Request,
               request'[q].pc = "new" \/ request'[q].op = "refusal"
        PROVE  request'[q].run = Nil
    BY <2>1, <2>3, <2>6 DEF Gated
  <2>7. ASSUME NEW q \in Request, request'[q].op \in {"approve", "reject"},
               request'[q].pc \in {"find_approval", "insert_approval"}
        PROVE  request'[q].run \in Governed'
    BY <2>1, <2>4, <2>7 DEF Gated
  <2>8. ASSUME NEW q \in Request
        PROVE  /\ run'[q].status # "absent" => request'[q].pc # "new"
               /\ run'[q].status = "approval_required" => q \in Governed'
               /\ draft'[q].status = "approval_required" =>
                    request'[q].run \in Governed'
               /\ draft'[q].approval # "none" => request'[q].run \in Governed'
               /\ approval'[q] # "absent" => q \in Governed'
    BY <1>0, <2>1, <2>4 DEF Gated
  <2> QED BY <2>5, <2>6, <2>7, <2>8 DEF Gated
<1>4. ASSUME NEW q \in Request, RequestNext(q) \/ Abort(q)
      PROVE  Gated'
  <2>1. /\ \A p \in Request : Same(p)
        /\ \A p \in Request \ {q} : request'[p] = request[p]
        /\ \A p \in Request \ {q} : draft'[p] = draft[p]
    BY <1>4, Identity, NextPc, ApprovalDrafts DEF TypeInv
  <2>2. request[q].pc # "new"
    BY <1>4, UnderWay
  <2>3. \A p \in Request : request[p].run \in Governed => request'[p].run \in Governed'
    BY <1>0, <2>1 DEF Same
  <2>4. /\ run \in [Request -> RunRow] /\ approval \in [Request -> ApprovalStatus]
    BY DEF TypeInv, TypeOK
  <2>5. ASSUME NEW p \in Request
        PROVE  /\ request'[p].pc = "new" \/ request'[p].op = "refusal" =>
                    request'[p].run = Nil
               /\ request'[p].run \in Request =>
                    request'[request'[p].run].pc # "new"
    BY <2>1 DEF Same, Gated
  <2>6. ASSUME NEW s \in Request
        PROVE  \/ run'[s] = run[s]
               \/ /\ s = request[q].run
                  /\ run'[s].status = draft[q].status
                  /\ draft[q].status # "none"
    <3>1. CASE run' = run
      BY <3>1
    <3>2. ASSUME NEW row, draft[q].status # "none", row.status = draft[q].status,
                 run' = [run EXCEPT ![request[q].run] = row]
          PROVE  \/ run'[s] = run[s]
                 \/ /\ s = request[q].run
                    /\ run'[s].status = draft[q].status
                    /\ draft[q].status # "none"
      BY <2>4, <3>2
    <3>3. \/ run' = run
          \/ /\ draft[q].status # "none"
             /\ \E row : /\ row.status = draft[q].status
                         /\ run' = [run EXCEPT ![request[q].run] = row]
      BY <1>4, RunWrites
    <3> QED BY <3>1, <3>2, <3>3
  <2>7. ASSUME NEW s \in Request
        PROVE  /\ run'[s].status # "absent" => request'[s].pc # "new"
               /\ run'[s].status = "approval_required" => s \in Governed'
    <3>0. request[s].pc # "new" => request'[s].pc # "new"
      BY <2>1 DEF Same
    <3>1. CASE run'[s] = run[s]
      BY <1>0, <3>0, <3>1 DEF Gated
    <3>2. CASE /\ s = request[q].run
               /\ run'[s].status = draft[q].status
               /\ draft[q].status # "none"
      BY <1>0, <3>0, <3>2 DEF Gated
    <3> QED BY <2>6, <3>1, <3>2
  <2>8. ASSUME NEW p \in Request, draft'[p].status = "approval_required"
        PROVE  request'[p].run \in Governed'
    <3>1. CASE draft[p].status = "approval_required"
      BY <2>3, <3>1 DEF Gated
    <3>2. CASE /\ p = q /\ request[q].op = "start"
               /\ request[q].policy = "approval"
      <4>1. request[q].run = q
        BY <2>2, <3>2 DEF Approved
      <4> QED BY <2>1, <2>2, <3>2, <4>1 DEF Governed, NeedsApproval, Same
    <3> QED BY <1>4, <2>1, <2>8, <3>1, <3>2, StatusWays
  <2>9. ASSUME NEW p \in Request, request'[p].op \in {"approve", "reject"},
               request'[p].pc \in {"find_approval", "insert_approval"}
        PROVE  request'[p].run \in Governed'
    <3>1. request[p].op = request'[p].op
      BY <2>1 DEF Same
    <3>2. CASE request[p].pc \in {"find_approval", "insert_approval"}
      BY <2>3, <2>9, <3>1, <3>2 DEF Gated
    <3>3. CASE p = q /\ run[request[q].run].status = "approval_required"
      <4>1. request[q].run \in Request
        BY <2>2, <2>9, <3>1, <3>3 DEF TypeInv, Named
      <4> QED BY <2>3, <3>3, <4>1 DEF Gated
    <3> QED BY <1>4, <2>1, <2>9, <3>1, <3>2, <3>3, LooksForApproval
  <2>10. ASSUME NEW p \in Request, draft'[p].approval # "none"
         PROVE  request'[p].run \in Governed'
    <3>1. CASE draft[p].approval # "none"
      BY <2>3, <3>1 DEF Gated
    <3>2. CASE /\ p = q /\ request[q].op \in {"approve", "reject"}
               /\ request[q].pc = "insert_approval"
      BY <2>3, <3>2 DEF Gated
    <3>3. CASE p = q /\ request[q].op = "activate" /\ request[q].pc = "consume"
      <4>1. request[q].run \in Request
        BY <2>2, <3>3 DEF TypeInv, Named
      <4>2. Approvals(request[q].run)
        BY <3>3 DEF Approved, Activating
      <4>3. request[q].run \in Governed
        BY <4>1, <4>2 DEF Approvals, Gated
      <4> QED BY <2>3, <3>3, <4>3
    <3> QED BY <1>4, <2>1, <2>10, <3>1, <3>2, <3>3, ApprovalWays
  <2>11. ASSUME NEW s \in Request, approval'[s] # "absent"
         PROVE  s \in Governed'
    <3>1. CASE approval[s] # "absent"
      BY <1>0, <3>1 DEF Gated
    <3>2. CASE s = request[q].run /\ draft[q].approval # "none"
      BY <1>0, <3>2 DEF Gated
    <3> QED BY <1>4, <2>4, <2>11, <3>1, <3>2, TableWrites
  <2> QED BY <2>5, <2>7, <2>8, <2>9, <2>10, <2>11 DEF Gated
<1> QED BY <1>1, <1>2, <1>3, <1>4 DEF Next

(* What a commit makes of the row of the run and of its approval. *)
LEMMA OnlyCommits ==
  ASSUME NEW q \in Request, RequestNext(q) \/ Abort(q), ~Commit(q)
  PROVE  UNCHANGED tables
BY DEF RequestNext, Abort, FindCommand, InsertCommand, InsertRun, CancelLoad,
     StopWorkflow, Mark, ApprovalLoadRun, FindApproval, InsertApproval,
     LoadApproval, ActivateLoadRun, Consume, MarkActivating, DispatchFails,
     DispatchRun, tables

LEMMA CommitWrites ==
  ASSUME TypeInv, NEW q \in Request, Commit(q), NEW s \in Request
  PROVE  /\ s # request[q].run => run'[s] = run[s] /\ approval'[s] = approval[s]
         /\ s = request[q].run =>
              /\ run'[s].status = IF draft[q].status = "none"
                                  THEN run[s].status ELSE draft[q].status
              /\ approval'[s] = IF draft[q].approval = "none"
                                THEN approval[s] ELSE draft[q].approval
<1>0. /\ run \in [Request -> RunRow]
      /\ approval \in [Request -> ApprovalStatus]
  BY DEF TypeInv, TypeOK
<1>1. approval' = IF draft[q].approval = "none" THEN approval
                  ELSE [approval EXCEPT ![request[q].run] = draft[q].approval]
  BY DEF Commit
<1>2. CASE draft[q].status = "none"
  BY <1>0, <1>1, <1>2 DEF Commit
<1>3. CASE draft[q].status # "none"
  <2> DEFINE row == [status |-> draft[q].status,
                     ref |-> IF draft[q].ref = Nil
                             THEN run[request[q].run].ref ELSE draft[q].ref]
  <2>1. run' = [run EXCEPT ![request[q].run] = row]
    BY <1>3 DEF Commit
  <2>2. row.status = draft[q].status
    OBVIOUS
  <2> HIDE DEF row
  <2> QED BY <1>0, <1>1, <1>3, <2>1, <2>2
<1> QED BY <1>2, <1>3

LEMMA TogetherStep ==
  ASSUME TypeInv, Held, Approved, Orderly, Gated, Together, [Next]_vars
  PROVE  Together'
<1>1. CASE UNCHANGED vars
  BY <1>1 DEF vars, tables, Together, NeedsApproval
<1>2. ASSUME NEW w \in Request, WorkflowEnds(w)
      PROVE  Together'
  BY <1>2 DEF WorkflowEnds, tables, Together, NeedsApproval
<1>3. ASSUME NEW a \in Request, Arrive(a)
      PROVE  Together'
  <2>1. /\ request[a].pc = "new"
        /\ request'[a].pc \notin {"activating", "dispatch", "commit"}
        /\ \A p \in Request \ {a} : request'[p] = request[p]
        /\ UNCHANGED <<run, approval, draft>>
    BY <1>3, Arrival DEF TypeInv, tables
  <2>2. draft[a].status # "active" /\ run[a].status # "active"
    BY <2>1 DEF Orderly, Gated
  <2>3. ASSUME NEW p \in Request
        PROVE  /\ request'[p].op = "activate" =>
                    /\ request'[p].pc \in {"activating", "dispatch", "commit"} =>
                         draft'[p].approval = "consumed"
                    /\ request'[p].pc = "commit" => draft'[p].status = "active"
               /\ draft'[p].status = "active" =>
                    \/ request'[p].op = "activate"
                    \/ request'[p].op = "start" /\ request'[p].policy = "direct"
               /\ NeedsApproval(p)' /\ run'[p].status = "active" =>
                    approval'[p] = "consumed"
    BY <2>1, <2>2 DEF Together, NeedsApproval
  <2> QED BY <2>3 DEF Together
<1>4. ASSUME NEW q \in Request, RequestNext(q) \/ Abort(q)
      PROVE  Together'
  <2>1. /\ \A p \in Request : Same(p)
        /\ \A p \in Request \ {q} : request'[p] = request[p]
        /\ \A p \in Request \ {q} : draft'[p] = draft[p]
    BY <1>4, Identity, NextPc, ApprovalDrafts DEF TypeInv
  <2>2. request[q].pc # "new"
    BY <1>4, UnderWay
  <2>3. ASSUME NEW p \in Request, request'[p].op = "activate",
               request'[p].pc \in {"activating", "dispatch", "commit"}
        PROVE  /\ draft'[p].approval = "consumed"
               /\ request'[p].pc = "commit" => draft'[p].status = "active"
    <3>1. request[p].op = "activate"
      BY <2>1, <2>3 DEF Same
    <3>2. CASE p = q
      BY <1>4, <2>3, <3>1, <3>2, ActivationDrafts
    <3>3. CASE p # q
      BY <2>1, <2>3, <3>3 DEF Together
    <3> QED BY <3>2, <3>3
  <2>4. ASSUME NEW p \in Request, draft'[p].status = "active"
        PROVE  \/ request'[p].op = "activate"
               \/ request'[p].op = "start" /\ request'[p].policy = "direct"
    <3>1. CASE draft[p].status = "active"
      BY <2>1, <3>1 DEF Together, Same
    <3>2. CASE /\ p = q /\ request[q].pc = "dispatch"
               /\ request[q].op \in {"start", "activate"}
      BY <2>1, <2>2, <3>2 DEF Approved, Same
    <3> QED BY <1>4, <2>1, <2>4, <3>1, <3>2, StatusWays
  <2>5. ASSUME NEW s \in Request, NeedsApproval(s)', run'[s].status = "active"
        PROVE  approval'[s] = "consumed"
    <3>0. NeedsApproval(s)
      BY <2>1, <2>2, <2>5 DEF NeedsApproval, Same
    <3>1. CASE run[s].status = "active"
      <4>1. approval[s] = "consumed"
        BY <3>0, <3>1 DEF Together
      <4> QED BY <1>4, <4>1, ConsumedStays
    <3>2. CASE /\ Commit(q) /\ s = request[q].run
               /\ draft[q].status = "active"
      <4>1. request[q].pc = "commit"
        BY <3>2 DEF Commit
      <4>2. CASE request[q].op = "activate"
        <5>1. draft[q].approval = "consumed"
          BY <4>1, <4>2 DEF Together
        <5> QED BY <3>2, <5>1, CommitWrites
      <4>3. CASE request[q].op = "start" /\ request[q].policy = "direct"
        <5>1. s = q
          BY <2>2, <3>2, <4>3 DEF Approved
        <5> QED BY <3>0, <4>3, <5>1 DEF NeedsApproval
      <4> QED BY <3>2, <4>2, <4>3 DEF Together
    <3>3. run[s].status = "active" \/ Commit(q)
      BY <1>4, <2>5, OnlyCommits DEF tables
    <3>4. CASE Commit(q) /\ run[s].status # "active"
      BY <2>5, <3>2, <3>4, CommitWrites
    <3> QED BY <3>1, <3>3, <3>4
  <2> QED BY <2>3, <2>4, <2>5 DEF Together
<1> QED BY <1>1, <1>2, <1>3, <1>4 DEF Next

LEMMA PromiseInitial ==
  ASSUME Init
  PROVE  PromiseInv
<1>1. TypeInv /\ Orderly
  BY TypeInit, OrderlyInit
<1>2. Held /\ Approved /\ Backed /\ Gated /\ Together
  BY NilAssumption DEF Init, Held, Approved, Backed, Gated, Together, NoDraft,
     NoRun, Activating
<1> QED BY <1>1, <1>2 DEF PromiseInv

LEMMA PromiseStep ==
  ASSUME PromiseInv, [Next]_vars
  PROVE  PromiseInv'
BY TypeStep, HeldStep, ApprovedStep, BackedStep, OrderlyStep, GatedStep,
   TogetherStep DEF PromiseInv

(* Before its commit a request changes nothing the Principal is promised,
   except that an activation may begin what he has approved. *)
LEMMA OpenTransaction ==
  ASSUME PromiseInv, NEW q \in Request, RequestNext(q) \/ Abort(q), ~Commit(q)
  PROVE  \/ UNCHANGED <<Decision, Begun, Used, Active>>
         \/ \E r \in Request : Promise!Begin(r)
<1> USE DEF PromiseInv
<1>1. approval' = approval /\ run' = run
  BY OnlyCommits DEF tables
<1>2. \A p \in Request : Same(p)
  BY Identity DEF TypeInv
<1>3. UNCHANGED <<Decision, Used, Active>>
  BY <1>1, <1>2 DEF Decision, Used, Active, NeedsApproval, Same
<1>4. \A p \in Request : workflow[p] # "none" => workflow'[p] # "none"
  BY WorkflowsStand
<1>5. CASE \A p \in Request : workflow'[p] # "none" => workflow[p] # "none"
  BY <1>2, <1>3, <1>4, <1>5 DEF Begun, NeedsApproval, Same
<1>6. CASE /\ request[q].pc = "dispatch" /\ request[q].op = "start"
           /\ \A p \in Request \ {q} : workflow'[p] # "none" => workflow[p] # "none"
  <2>1. request[q].run = q /\ ~NeedsApproval(q)
    BY <1>6 DEF Approved, NeedsApproval
  <2> QED BY <1>2, <1>3, <1>4, <1>6, <2>1 DEF Begun, NeedsApproval, Same
<1>7. CASE /\ request[q].pc = "dispatch" /\ request[q].op = "activate"
           /\ workflow'[q] # "none"
           /\ \A p \in Request \ {q} : workflow'[p] # "none" => workflow[p] # "none"
  <2> DEFINE r == request[q].run
  <2>1. Approvals(r)
    BY <1>7 DEF Approved, Activating
  <2>2. r \in Request
    BY <1>7 DEF TypeInv, Named
  <2>3. r \in Governed
    BY <2>1, <2>2 DEF Approvals, Gated
  <2>4. Begun' = Begun \cup {r}
    BY <1>2, <1>4, <1>7, <2>2, <2>3 DEF Begun, Governed, NeedsApproval, Same
  <2>5. Decision[r] = "approved"
    BY <2>1, <2>2 DEF Decision, Approvals
  <2> QED BY <1>3, <2>2, <2>4, <2>5 DEF Promise!Begin
<1> QED BY <1>5, <1>6, <1>7, Started

(* The commit of a decision decides, that of an activation activates, and
   any other at most takes the run out of ACTIVE. *)
LEMMA CommitsPromise ==
  ASSUME PromiseInv, NEW q \in Request, Commit(q)
  PROVE  \/ UNCHANGED <<Decision, Begun, Used, Active>>
         \/ \E r \in Request : \/ Promise!Decide(r)
                               \/ Promise!Activate(r)
                               \/ Promise!Leave(r)
<1> USE DEF PromiseInv
<1> DEFINE r == request[q].run
           d == draft[q]
<1>0. /\ RequestNext(q) /\ request[q].pc = "commit" /\ d \in Draft
      /\ workflow' = workflow
  BY DEF RequestNext, Commit, TypeInv, TypeOK
<1>1. \A p \in Request : Same(p)
  BY <1>0, Identity DEF TypeInv
<1>2. Begun' = Begun
  BY <1>0, <1>1 DEF Begun, NeedsApproval, Same
<1>3. \A s \in Request : NeedsApproval(s)' <=> NeedsApproval(s)
  BY <1>1 DEF NeedsApproval, Same
<1>4. ASSUME NEW s \in Request
      PROVE  /\ s # r => run'[s] = run[s] /\ approval'[s] = approval[s]
             /\ s = r =>
                  /\ run'[s].status = IF d.status = "none"
                                      THEN run[s].status ELSE d.status
                  /\ approval'[s] = IF d.approval = "none"
                                    THEN approval[s] ELSE d.approval
  BY CommitWrites
<1>5. ASSUME d.status = "active", d.approval # "consumed", r \in Request
      PROVE  ~NeedsApproval(r)
  <2>1. request[q].op = "start" /\ request[q].policy = "direct"
    BY <1>0, <1>5 DEF Together
  <2>2. r = q
    BY <1>0, <2>1 DEF Approved
  <2> QED BY <2>1, <2>2 DEF NeedsApproval
<1>6. CASE d.approval = "none"
  <2>1. \A s \in Request : approval'[s] = approval[s]
    BY <1>4, <1>6
  <2>2. Decision' = Decision /\ Used' = Used
    BY <2>1 DEF Decision, Used
  <2>3. Active' \in {Active, Active \ {r}}
    BY <1>3, <1>4, <1>5, <1>6 DEF Active
  <2>4. r \notin Request => Active \ {r} = Active
    BY DEF Active
  <2> QED BY <1>2, <2>2, <2>3, <2>4 DEF Promise!Leave
<1>7. CASE d.approval \in {"pending", "rejected"}
  <2>1. r \in Request /\ r \in Governed /\ approval[r] = "absent"
    BY <1>7 DEF Gated, Held, Governed
  <2>2. Used' = Used
    BY <1>4, <1>7, <2>1 DEF Used
  <2>3. run[r].status # "active" /\ d.status # "active"
    BY <1>5, <1>7, <2>1 DEF Together, Governed
  <2>4. Active' = Active
    BY <1>3, <1>4, <2>3 DEF Active
  <2>5. Decision[r] = "open"
    BY <2>1 DEF Decision
  <2>6. PICK c \in {"approved", "rejected"} :
          c = "rejected" <=> d.approval = "rejected"
    OBVIOUS
  <2>7. Decision' = [Decision EXCEPT ![r] = c]
    BY <1>4, <1>7, <2>1, <2>6 DEF Decision
  <2>8. Promise!Decide(r)
    BY <1>2, <2>2, <2>4, <2>5, <2>7 DEF Promise!Decide
  <2> QED BY <2>1, <2>8
<1>8. CASE d.approval = "consumed"
  <2>1. /\ request[q].op = "activate" /\ workflow[q] # "none"
        /\ d.status = "active"
    BY <1>0, <1>8 DEF Backed, Together
  <2>2. r \in Governed /\ Approvals(r)
    BY <1>0, <1>8, <2>1 DEF Gated, Approved, Activating
  <2>3. r \in Request /\ NeedsApproval(r)
    BY <2>2 DEF Governed
  <2>4. r \in Begun
    BY <2>1, <2>3 DEF Begun
  <2>5. Decision' = Decision
    BY <1>4, <1>8, <2>2 DEF Decision, Approvals
  <2>6. Used' = Used \cup {r}
    BY <1>4, <1>8, <2>3 DEF Used
  <2>7. Active' = Active \cup {r}
    BY <1>3, <1>4, <2>1, <2>3 DEF Active
  <2>8. Promise!Activate(r)
    BY <1>2, <2>4, <2>5, <2>6, <2>7 DEF Promise!Activate
  <2> QED BY <2>3, <2>8
<1> QED BY <1>0, <1>6, <1>7, <1>8 DEF Draft

LEMMA PromiseRefinesInit == Init => Promise!ApprovalInit
BY DEF Init, NoRun, Decision, Begun, Used, Active, Promise!ApprovalInit

LEMMA PromiseRefinesNext ==
  ASSUME PromiseInv, [Next]_vars
  PROVE  [Promise!ApprovalNext]_<<Decision, Begun, Used, Active>>
<1> USE DEF PromiseInv
<1>1. CASE UNCHANGED vars
  BY <1>1 DEF vars, tables, Decision, Begun, Used, Active, NeedsApproval
<1>2. ASSUME NEW w \in Request, WorkflowEnds(w)
      PROVE  UNCHANGED <<Decision, Begun, Used, Active>>
  <2>1. \A p \in Request : workflow'[p] # "none" <=> workflow[p] # "none"
    BY <1>2 DEF WorkflowEnds, TypeInv, TypeOK
  <2> QED BY <1>2, <2>1 DEF WorkflowEnds, tables, Decision, Begun, Used,
             Active, NeedsApproval
<1>3. ASSUME NEW a \in Request, Arrive(a)
      PROVE  UNCHANGED <<Decision, Begun, Used, Active>>
  <2>1. /\ request[a].pc = "new"
        /\ \A p \in Request \ {a} : request'[p] = request[p]
        /\ UNCHANGED <<run, approval, workflow, draft>>
    BY <1>3, Arrival DEF TypeInv, tables
  <2>2. UNCHANGED <<Decision, Used>>
    BY <2>1 DEF Decision, Used
  <2>3. run[a].status # "active" /\ workflow[a] = "none"
    BY <2>1 DEF Gated, Backed, Ends
  <2>4. Active' = Active
    BY <2>1, <2>3 DEF Active, NeedsApproval
  <2>5. \A q \in Request : workflow[q] # "none" =>
          request[q].run # a /\ request'[q] = request[q]
    BY <2>1, <2>3 DEF Gated
  <2>6. Begun' = Begun
    BY <2>1, <2>5 DEF Begun, NeedsApproval
  <2> QED BY <2>2, <2>4, <2>6
<1>4. ASSUME NEW q \in Request, Commit(q)
      PROVE  [Promise!ApprovalNext]_<<Decision, Begun, Used, Active>>
  BY <1>4, CommitsPromise DEF Promise!ApprovalNext
<1>5. ASSUME NEW q \in Request, RequestNext(q) \/ Abort(q), ~Commit(q)
      PROVE  [Promise!ApprovalNext]_<<Decision, Begun, Used, Active>>
  BY <1>5, OpenTransaction DEF Promise!ApprovalNext
<1> QED BY <1>1, <1>2, <1>3, <1>4, <1>5 DEF Next

(* Whatever requests, transactions and failures do, what the tables and the
   engine's store show of a run that needs an approval is one decision that
   stands, no execution without it, and CONSUMED and ACTIVE in one step, for
   an execution that has begun. *)
THEOREM DecisionsAreKept == Spec => KeepsDecision
<1>1. Init => PromiseInv
  BY PromiseInitial
<1>2. PromiseInv /\ [Next]_vars => PromiseInv'
  BY PromiseStep
<1>3. PromiseInv /\ [Next]_vars =>
        [Promise!ApprovalNext]_<<Decision, Begun, Used, Active>>
  BY PromiseRefinesNext
<1> QED BY <1>1, <1>2, <1>3, PromiseRefinesInit, PTL
        DEF Spec, KeepsDecision, Promise!ApprovalSpec, Promise!approvalVars
=============================================================================
