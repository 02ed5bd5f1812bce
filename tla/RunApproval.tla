----------------------------- MODULE RunApproval -----------------------------
(***************************************************************************)
(* What Mission Control promises the Principal about a run that needs an   *)
(* approval, without requests, transactions or failures: one decision,     *)
(* which stands; no execution begins before it is APPROVED; the approval   *)
(* is used and the run becomes ACTIVE in one step, and only for an         *)
(* execution that has begun.  GovernedRun implements it.                   *)
(***************************************************************************)
CONSTANT Run

VARIABLES
  decision,  \* [Run -> {"open", "approved", "rejected"}]
  begun,     \* the runs of which an execution has begun
  used,      \* the runs whose approval is used up
  active     \* the runs shown as ACTIVE

approvalVars == <<decision, begun, used, active>>

ApprovalInit ==
  /\ decision = [r \in Run |-> "open"]
  /\ begun = {}
  /\ used = {}
  /\ active = {}

Decide(r) ==
  /\ decision[r] = "open"
  /\ \E d \in {"approved", "rejected"} :
       decision' = [decision EXCEPT ![r] = d]
  /\ UNCHANGED <<begun, used, active>>

Begin(r) ==
  /\ decision[r] = "approved"
  /\ begun' = begun \cup {r}
  /\ UNCHANGED <<decision, used, active>>

Activate(r) ==
  /\ r \in begun
  /\ used' = used \cup {r}
  /\ active' = active \cup {r}
  /\ UNCHANGED <<decision, begun>>

Leave(r) ==
  /\ active' = active \ {r}
  /\ UNCHANGED <<decision, begun, used>>

ApprovalNext == \E r \in Run : Decide(r) \/ Begin(r) \/ Activate(r) \/ Leave(r)

ApprovalSpec == ApprovalInit /\ [][ApprovalNext]_approvalVars
=============================================================================
