-------------------------- MODULE SideEffectsProofs --------------------------
(***************************************************************************)
(* What execute_idempotent_side_effect guarantees for every set of callers *)
(* and requests and every number of stalls and timeouts.                   *)
(***************************************************************************)
EXTENDS SideEffects, TLAPS

-----------------------------------------------------------------------------
(* Types, and the row's bookkeeping                                        *)

(* Only the row in progress has an owner; a receipt names a mutation. *)
RowCoherent ==
  /\ row.owner # Nil => row.status = "in_progress"
  /\ row.status = "in_progress" => row.owner \in Call
  /\ row.status = "succeeded" => row.result # 0

(* The calls that have seen the row hold its request. *)
Checked == {"claim", "check", "verify", "send", "executing", "mark_unknown",
            "reconcile", "reclaim", "complete"}

CallsCoherent ==
  \A c \in Call :
    /\ call[c].pc \in Checked \cup {"load"} => row.status # "absent"
    /\ call[c].pc \in Checked => call[c].request = row.request
    /\ call[c].pc \in {"reclaim", "complete"} => call[c].result # 0
    /\ c \in flight \/ answer[c] # 0 => /\ call[c].pc # "new"
                                       /\ call[c].request = row.request
                                       /\ row.status # "absent"

Inv == TypeOK /\ RowCoherent /\ CallsCoherent

LEMMA Pcs == Steps \cup Waits \cup Ends \subseteq Pc
  BY DEF Pc

LEMMA GotoCalls ==
  ASSUME call \in [Call -> CallState], NEW c \in Call, NEW p \in Pc, Goto(c, p)
  PROVE  /\ call' \in [Call -> CallState]
         /\ \A d \in Call : /\ call'[d].pc = IF d = c THEN p ELSE call[d].pc
                            /\ call'[d].request = call[d].request
                            /\ call'[d].result = call[d].result
  BY DEF Goto, CallState

LEMMA ResultCalls ==
  ASSUME call \in [Call -> CallState], NEW c \in Call, NEW p \in Pc, NEW m \in Nat,
         call' = [call EXCEPT ![c] = [@ EXCEPT !.pc = p, !.result = m]]
  PROVE  /\ call' \in [Call -> CallState]
         /\ \A d \in Call : /\ call'[d].pc = IF d = c THEN p ELSE call[d].pc
                            /\ call'[d].request = call[d].request
                            /\ call'[d].result = IF d = c THEN m ELSE call[d].result
  BY DEF CallState

(* mark_side_effect_unknown takes the row from its owner, or does nothing. *)
LEMMA MarkUnknownEffect ==
  ASSUME row \in Row, NEW c \in Call, row' = MarkUnknownRow(c)
  PROVE  /\ row' \in Row
         /\ row'.request = row.request
         /\ \/ row' = row
            \/ /\ row.owner = c
               /\ row'.status = "unknown" /\ row'.owner = Nil
<1>1. CASE row.owner = c
  <2>1. row' = [row EXCEPT !.status = "unknown", !.owner = Nil, !.lease = "none"]
    BY <1>1 DEF MarkUnknownRow
  <2>2. QED
    BY <1>1, <2>1 DEF Row, SideEffectStatus
<1>2. CASE row.owner # c
  <2>1. row' = row
    BY <1>2 DEF MarkUnknownRow
  <2>2. QED
    BY <2>1
<1>3. QED
  BY <1>1, <1>2

LEMMA FoundPositive == TypeOK => Found \subseteq Nat \ {0}
  BY DEF TypeOK, Found

LEMMA InitInv == Init => Inv
  BY DEF Init, Inv, TypeOK, Row, CallState, Pc, SideEffectStatus, RowCoherent,
         CallsCoherent, Checked

(* A step of a call that has loaded its row and leaves the row alone. *)
LEMMA QuietStep ==
  ASSUME Inv, NEW c \in Call, NEW p \in Pc, NEW m \in Nat,
         \/ call[c].pc \in Checked
         \/ /\ call[c].pc = "load" /\ flight' = flight
            /\ p \in Checked => call[c].request = row.request,
         p # "new",
         call' = [call EXCEPT ![c] = [@ EXCEPT !.pc = p, !.result = m]],
         p \in {"reclaim", "complete"} => m # 0,
         row' = row, answer' = answer, flight' \subseteq flight \cup {c},
         hook' \in BOOLEAN, UNCHANGED <<mutations, stalls>>, timeouts' \in Nat
  PROVE  Inv'
<1> USE DEF Inv, TypeOK
<1>1. TypeOK'
  BY ResultCalls
<1>2. RowCoherent'
  BY DEF RowCoherent
<1>3. CallsCoherent'
  <2> SUFFICES ASSUME NEW d \in Call
               PROVE  /\ call'[d].pc \in Checked \cup {"load"} => row.status # "absent"
                      /\ call'[d].pc \in Checked => call'[d].request = row.request
                      /\ call'[d].pc \in {"reclaim", "complete"} => call'[d].result # 0
                      /\ d \in flight' \/ answer[d] # 0 =>
                           /\ call'[d].pc # "new"
                           /\ call'[d].request = row.request
                           /\ row.status # "absent"
    BY DEF CallsCoherent
  <2>1. call'[d].request = call[d].request
    BY ResultCalls
  <2>2. CASE d = c
    <3>1. call'[c].pc = p /\ call'[c].result = m
      BY DEF CallState
    <3>2. /\ row.status # "absent"
          /\ p \in Checked => call[c].request = row.request
          /\ c \in flight' \/ answer[c] # 0 => call[c].request = row.request
      BY DEF CallsCoherent
    <3>3. QED
      BY <2>1, <2>2, <3>1, <3>2
  <2>3. CASE d # c
    <3>1. /\ call'[d] = call[d]
          /\ d \in flight' => d \in flight
      BY <2>3
    <3>2. QED
      BY <3>1 DEF CallsCoherent
  <2>4. QED
    BY <2>2, <2>3
<1>4. QED
  BY <1>1, <1>2, <1>3

LEMMA GotoIsResult ==
  ASSUME call \in [Call -> CallState], NEW c \in Call, NEW p, Goto(c, p)
  PROVE  /\ call' = [call EXCEPT ![c] = [@ EXCEPT !.pc = p,
                                                  !.result = call[c].result]]
         /\ call[c].result \in Nat
  BY DEF Goto, CallState

LEMMA CallStep ==
  ASSUME Inv, NEW c \in Call, CallNext(c)
  PROVE  Inv'
<1> USE DEF Inv, TypeOK
<1>a. {"load", "claim", "check", "verify", "send", "executing",
       "mark_unknown", "reconcile", "reclaim", "complete", "returned", "conflict",
       "timed_out", "raised"} \subseteq Pc
  BY DEF Pc, Steps, Waits, Ends
<1>b. call[c].request \in Request \cup {Nil}
  BY DEF CallState
<1>1. CASE ClaimSideEffect(c)
  <2>1. row' \in Row /\ (row.status = "absent" => row.owner = Nil /\ row'.owner = Nil)
    BY <1>1, <1>b DEF ClaimSideEffect, Row, SideEffectStatus, RowCoherent
  <2>2. IF row.status = "absent" THEN row'.status = "pending" ELSE row' = row
    BY <1>1 DEF ClaimSideEffect, Row
  <2>3. RowCoherent'
    BY <2>1, <2>2 DEF RowCoherent
  <2>4. CallsCoherent'
    BY <1>1, <1>a, <2>2, GotoCalls
       DEF ClaimSideEffect, CallsCoherent, Checked
  <2>5. QED
    BY <1>1, <1>a, <2>1, <2>3, <2>4, GotoCalls DEF ClaimSideEffect
<1>q. ASSUME NEW p \in Pc \ {"new", "reclaim", "complete"}, Goto(c, p),
             \/ call[c].pc \in Checked
             \/ /\ call[c].pc = "load" /\ flight' = flight
                /\ p \in Checked => call[c].request = row.request,
             row' = row, answer' = answer, flight' \subseteq flight \cup {c},
             hook' \in BOOLEAN, UNCHANGED <<mutations, stalls>>,
             timeouts' \in Nat
      PROVE  Inv'
  <2>1. /\ call' = [call EXCEPT ![c] = [@ EXCEPT !.pc = p,
                                                 !.result = call[c].result]]
        /\ call[c].result \in Nat
    BY <1>q, GotoIsResult
  <2>2. p # "new" /\ p \notin {"reclaim", "complete"} /\ p \in Pc
    BY <1>q
  <2>3. QED
    BY <1>q, <2>1, <2>2, QuietStep
<1>2. CASE Load(c)
  <2>1. UNCHANGED <<row, flight, answer, mutations, hook, stalls, timeouts>>
        /\ call[c].pc = "load"
    BY <1>2 DEF Load
  <2>2. CASE call' = [call EXCEPT ![c] = [@ EXCEPT !.pc = "returned",
                                                  !.result = row.result]]
    <3>1. row.result \in Nat
      BY DEF Row
    <3>2. QED
      BY <1>a, <2>1, <2>2, <3>1, QuietStep DEF Checked
  <2>3. CASE Goto(c, "conflict")
    BY <1>a, <1>q, <2>1, <2>3 DEF Checked
  <2>4. CASE Goto(c, "claim") /\ row.request = call[c].request
    BY <1>a, <1>q, <2>1, <2>4
  <2>5. QED
    BY <1>2, <2>2, <2>3, <2>4 DEF Load, Goto
<1>c. ASSUME row' = ClaimedBy(c)
      PROVE  /\ row' \in Row
             /\ row'.status = "in_progress" /\ row'.owner = c
             /\ row'.request = row.request
  BY <1>c DEF ClaimedBy, Row, SideEffectStatus
<1>d. Claimable => row.status # "absent"
  BY DEF Claimable
<1>3. CASE ClaimExecution(c)
  <2>1. CASE row' = ClaimedBy(c) /\ Goto(c, "check")
    BY <1>3, <1>a, <1>c, <2>1, GotoCalls
       DEF ClaimExecution, RowCoherent, CallsCoherent, Checked
  <2>2. CASE row' = row /\ Goto(c, "load")
    BY <1>3, <1>a, <2>2, GotoCalls
       DEF ClaimExecution, RowCoherent, CallsCoherent, Checked
  <2>3. QED
    BY <1>3, <2>1, <2>2 DEF ClaimExecution
<1>4. CASE Check(c)
  BY <1>4, <1>a, <1>q DEF Check, Checked
<1>5. CASE Verify(c)
  <2>1. /\ call[c].pc \in Checked
        /\ UNCHANGED <<row, flight, answer, mutations, hook, stalls>>
    BY <1>5 DEF Verify, Checked
  <2>2. ASSUME NEW m \in Found, UNCHANGED timeouts,
               call' = [call EXCEPT ![c] = [@ EXCEPT !.pc = "complete",
                                                     !.result = m]]
        PROVE  Inv'
    BY <1>a, <2>1, <2>2, FoundPositive, QuietStep
  <2>3. CASE Goto(c, "send") /\ UNCHANGED timeouts
    BY <1>a, <1>q, <2>1, <2>3
  <2>4. CASE TimesOut(c)
    BY <1>a, <1>q, <2>1, <2>4 DEF TimesOut
  <2>5. CASE Goto(c, "raised") /\ UNCHANGED timeouts
    BY <1>a, <1>q, <2>1, <2>5
  <2>6. QED
    BY <1>5, <2>2, <2>3, <2>4, <2>5 DEF Verify
<1>6. CASE Executed(c)
  <2>1. /\ call[c].pc \in Checked
        /\ UNCHANGED <<row, flight, answer, mutations, hook, stalls>>
    BY <1>6 DEF Executed, Checked
  <2>2. CASE /\ answer[c] # 0 /\ UNCHANGED timeouts
             /\ call' = [call EXCEPT ![c] = [@ EXCEPT !.pc = "complete",
                                                      !.result = answer[c]]]
    <3> DEFINE m == answer[c]
    <3>1. m \in Nat /\ m # 0 /\ "complete" \in Pc
      BY <1>a, <2>2
    <3>2. call' = [call EXCEPT ![c] = [@ EXCEPT !.pc = "complete",
                                               !.result = m]]
      BY <2>2
    <3>3. /\ flight' \subseteq flight \cup {c}
          /\ hook' \in BOOLEAN /\ timeouts' \in Nat
      BY <2>1, <2>2
    <3> HIDE DEF m
    <3>4. QED
      BY <2>1, <3>1, <3>2, <3>3, QuietStep
  <2>3. CASE TimesOut(c)
    BY <1>a, <1>q, <2>1, <2>3 DEF TimesOut
  <2>4. CASE Goto(c, "raised") /\ UNCHANGED timeouts
    BY <1>a, <1>q, <2>1, <2>4
  <2>5. QED
    BY <1>6, <2>2, <2>3, <2>4 DEF Executed
<1>e. ASSUME row' = MarkUnknownRow(c)
      PROVE  /\ row' \in Row
             /\ row'.request = row.request
             /\ row'.status = "absent" => row.status = "absent"
             /\ row' = row \/ (row'.status = "unknown" /\ row'.owner = Nil)
  <2>1. row \in Row
    OBVIOUS
  <2>2. /\ row' \in Row
        /\ row'.request = row.request
        /\ row' = row \/ (row'.status = "unknown" /\ row'.owner = Nil)
    BY <1>e, <2>1, MarkUnknownEffect
  <2>3. row'.status = "absent" => row.status = "absent"
    BY <2>2
  <2>4. QED
    BY <2>2, <2>3
<1>7. CASE MarkUnknown(c)
  <2>1. Goto(c, "reconcile") /\ row' = MarkUnknownRow(c)
    BY <1>7 DEF MarkUnknown
  <2>2. QED
    BY <1>7, <1>a, <1>e, <2>1, GotoCalls
       DEF MarkUnknown, RowCoherent, CallsCoherent, Checked
<1>8. CASE Reconcile(c)
  <2>1. /\ call[c].pc \in Checked
        /\ UNCHANGED <<row, flight, answer, mutations, hook, stalls, timeouts>>
    BY <1>8 DEF Reconcile, Checked
  <2>2. ASSUME NEW m \in Found,
               call' = [call EXCEPT ![c] = [@ EXCEPT !.pc = "reclaim",
                                                     !.result = m]]
        PROVE  Inv'
    BY <1>a, <2>1, <2>2, FoundPositive, QuietStep
  <2>3. ASSUME NEW p \in {"timed_out", "raised"}, Goto(c, p)
        PROVE  Inv'
    BY <1>a, <1>q, <2>1, <2>3
  <2>4. QED
    BY <1>8, <2>2, <2>3 DEF Reconcile
<1>9. CASE Reclaim(c)
  <2>1. CASE row' = ClaimedBy(c) /\ Goto(c, "complete")
    BY <1>9, <1>a, <1>c, <2>1, GotoCalls
       DEF Reclaim, RowCoherent, CallsCoherent, Checked
  <2>2. CASE row' = row /\ Goto(c, "load")
    BY <1>9, <1>a, <2>2, GotoCalls
       DEF Reclaim, RowCoherent, CallsCoherent, Checked
  <2>3. QED
    BY <1>9, <2>1, <2>2 DEF Reclaim
<1>10. CASE Complete(c)
  <2>0. UNCHANGED <<flight, answer, mutations, stalls, timeouts>>
    BY <1>10 DEF Complete
  <2>1. CASE hook' = FALSE /\ row' = MarkUnknownRow(c) /\ Goto(c, "raised")
    <3>1. RowCoherent' /\ TypeOK'
      BY <2>0, <1>a, <1>e, <2>1, GotoCalls DEF RowCoherent
    <3>2. row'.request = row.request /\ (row'.status = "absent" => row.status = "absent")
      BY <1>e, <2>1
    <3>3. CallsCoherent'
      BY <2>0, <1>a, <2>1, <3>2, GotoCalls DEF CallsCoherent, Checked
    <3>4. QED
      BY <3>1, <3>3
  <2>2. CASE /\ row' = [row EXCEPT !.status = "succeeded", !.owner = Nil,
                                   !.lease = "none", !.result = call[c].result]
             /\ Goto(c, "returned") /\ UNCHANGED hook
    <3>1. call[c].result \in Nat \ {0}
      BY <1>10 DEF Complete, CallsCoherent, CallState
    <3>2. /\ row' \in Row
          /\ row'.status = "succeeded" /\ row'.owner = Nil
          /\ row'.result = call[c].result /\ row'.request = row.request
      BY <2>2, <3>1 DEF Row, SideEffectStatus
    <3>3. QED
      BY <1>10, <1>a, <2>2, <3>1, <3>2, GotoCalls
         DEF Complete, RowCoherent, CallsCoherent, Checked
  <2>3. CASE Goto(c, "raised") /\ UNCHANGED <<row, hook>>
    BY <1>10, <1>a, <2>3, GotoCalls
       DEF Complete, RowCoherent, CallsCoherent, Checked
  <2>4. QED
    BY <1>10, <2>1, <2>2, <2>3 DEF Complete
<1>11. CASE SendRequest(c)
  BY <1>11, <1>a, <1>q DEF SendRequest, Checked
<1>12. QED
  BY <1>1, <1>2, <1>3, <1>4, <1>5, <1>6, <1>7, <1>8, <1>9, <1>10, <1>11
     DEF CallNext

LEMMA OtherStep ==
  ASSUME Inv, [Next]_vars, ~\E c \in Call : CallNext(c)
  PROVE  Inv'
<1> USE DEF Inv, TypeOK
<1>1. ASSUME NEW c \in Call, ProviderNext(c)
      PROVE  Inv'
  <2>1. CASE Land(c)
    BY <2>1 DEF Land, RowCoherent, CallsCoherent
  <2>2. CASE Drop(c)
    BY <2>2 DEF Drop, RowCoherent, CallsCoherent
  <2>3. QED
    BY <1>1, <2>1, <2>2 DEF ProviderNext
<1>2. ASSUME NEW c \in Call, Crash(c)
      PROVE  Inv'
  BY <1>2, GotoCalls DEF Crash, Pc, Ends, RowCoherent, CallsCoherent, Checked,
                         Steps, Waits
<1>3. ASSUME NEW c \in Call, NEW r \in Request, Invoke(c, r)
      PROVE  Inv'
  <2>1. /\ call' \in [Call -> CallState]
        /\ call'[c].pc = "insert"
        /\ \A d \in Call : d # c => call'[d] = call[d]
    BY <1>3 DEF Invoke, CallState, Pc, Steps
  <2>2. c \notin flight /\ answer[c] = 0
    BY <1>3 DEF Invoke, CallsCoherent
  <2>3. QED
    BY <1>3, <2>1, <2>2 DEF Invoke, RowCoherent, CallsCoherent, Checked
<1>4. CASE ExpireLease
  <2>1. /\ row' \in Row /\ row'.status = row.status /\ row'.owner = row.owner
        /\ row'.request = row.request /\ row'.result = row.result
    BY <1>4 DEF ExpireLease, Row
  <2>2. stalls' \in Nat
    BY <1>4 DEF ExpireLease
  <2>3. QED
    BY <1>4, <2>1, <2>2 DEF ExpireLease, RowCoherent, CallsCoherent
<1>5. CASE UNCHANGED vars
  BY <1>5 DEF vars, RowCoherent, CallsCoherent
<1>6. QED
  BY <1>1, <1>2, <1>3, <1>4, <1>5 DEF Next

LEMMA AlwaysInv == Spec => []Inv
<1>1. Inv /\ [Next]_vars => Inv'
  BY CallStep, OtherStep
<1>2. QED
  BY InitInv, <1>1, PTL DEF Spec

(* Every variable keeps its type. *)
THEOREM SideEffectTypes == Spec => []TypeOK
<1>1. Inv => TypeOK
  BY DEF Inv
<1>2. QED
  BY AlwaysInv, <1>1, PTL

(* A caller that reuses the key for another request never reaches the
   provider, in any interleaving. *)
THEOREM ConflictsStayOut == Spec => []SentIsStored
<1>1. Inv => SentIsStored
  BY DEF Inv, CallsCoherent, SentIsStored
<1>2. QED
  BY AlwaysInv, <1>1, PTL

-----------------------------------------------------------------------------
(* One receipt                                                             *)

(* Steps that decide nothing and return nobody. *)
LEMMA Undecided ==
  ASSUME TypeOK, row'.status = row.status, row'.result = row.result,
         \A c \in Call : /\ call'[c].pc = "returned" <=> call[c].pc = "returned"
                         /\ call[c].pc = "returned" =>
                              call'[c].result = call[c].result
  PROVE  UNCHANGED (Receipt!decidedVars)
  BY DEF Receipt!decidedVars

(* A row that is not decided stays undecided. *)
LEMMA StillUndecided ==
  ASSUME TypeOK, row.status # "succeeded", row'.status # "succeeded",
         \A c \in Call : /\ call'[c].pc = "returned" <=> call[c].pc = "returned"
                         /\ call[c].pc = "returned" =>
                              call'[c].result = call[c].result
  PROVE  UNCHANGED (Receipt!decidedVars)
  BY DEF Receipt!decidedVars

LEMMA CompleteDecides ==
  ASSUME Inv, NEW c \in Call, Complete(c)
  PROVE  [Receipt!DecidedNext]_(Receipt!decidedVars)
<1> USE DEF Inv, TypeOK
<1>1. call[c].pc = "complete" /\ call[c].result \in Nat \ {0}
  BY DEF Complete, CallsCoherent, CallState
<1>2. CASE row' = MarkUnknownRow(c) /\ Goto(c, "raised")
  <2>1. \/ row' = row
        \/ row.status # "succeeded" /\ row'.status # "succeeded"
    BY <1>2, MarkUnknownEffect, NilAssumption DEF RowCoherent
  <2>2. \A d \in Call : /\ call'[d].pc = "returned" <=> call[d].pc = "returned"
                        /\ call[d].pc = "returned" => call'[d].result = call[d].result
    BY <1>1, <1>2, GotoCalls, Pcs DEF Ends
  <2>3. QED
    BY <2>1, <2>2, Undecided, StillUndecided
<1>3. CASE Goto(c, "raised") /\ UNCHANGED <<row, hook>>
  <2>1. \A d \in Call : /\ call'[d].pc = "returned" <=> call[d].pc = "returned"
                        /\ call[d].pc = "returned" => call'[d].result = call[d].result
    BY <1>1, <1>3, GotoCalls, Pcs DEF Ends
  <2>2. QED
    BY <1>3, <2>1, Undecided
<1>4. CASE /\ row.owner = c
           /\ row' = [row EXCEPT !.status = "succeeded", !.owner = Nil,
                                 !.lease = "none", !.result = call[c].result]
           /\ Goto(c, "returned")
  <2>1. row.status # "succeeded" /\ row'.status = "succeeded"
        /\ row'.result = call[c].result
    BY <1>4, NilAssumption DEF RowCoherent, Row
  <2>2. \A d \in Call : /\ call'[d].pc = IF d = c THEN "returned" ELSE call[d].pc
                        /\ call'[d].result = call[d].result
    BY <1>4, GotoCalls, Pcs DEF Ends
  <2>3. Receipt!Decide(c)
    BY <1>1, <2>1, <2>2 DEF Receipt!Decide
  <2>4. QED
    BY <2>3 DEF Receipt!DecidedNext
<1>5. QED
  BY <1>2, <1>3, <1>4 DEF Complete

LEMMA LoadLearns ==
  ASSUME Inv, NEW c \in Call, Load(c)
  PROVE  [Receipt!DecidedNext]_(Receipt!decidedVars)
<1> USE DEF Inv, TypeOK
<1>1. call[c].pc = "load" /\ row' = row
  BY DEF Load
<1>2. CASE /\ row.status = "succeeded"
           /\ call' = [call EXCEPT ![c] = [@ EXCEPT !.pc = "returned",
                                                    !.result = row.result]]
  <2>1. row.result \in Nat \ {0}
    BY <1>2 DEF RowCoherent, Row
  <2>2. \A d \in Call : /\ call'[d].pc = IF d = c THEN "returned" ELSE call[d].pc
                        /\ call'[d].result = IF d = c THEN row.result ELSE call[d].result
    <3>1. "returned" \in Pc /\ row.result \in Nat
      BY <2>1 DEF Pc, Ends
    <3>2. QED
      BY <1>2, <3>1 DEF CallState
  <2>3. Receipt!Learn(c)
    BY <1>1, <1>2, <2>1, <2>2 DEF Receipt!Learn
  <2>4. QED
    BY <2>3 DEF Receipt!DecidedNext
<1>3. ASSUME NEW p \in {"conflict", "claim"}, Goto(c, p)
      PROVE  UNCHANGED (Receipt!decidedVars)
  <2>1. p \in Pc
    BY DEF Pc, Steps, Ends
  <2>2. \A d \in Call : /\ call'[d].pc = "returned" <=> call[d].pc = "returned"
                        /\ call[d].pc = "returned" => call'[d].result = call[d].result
    BY <1>1, <1>3, <2>1, GotoCalls
  <2>3. QED
    BY <1>1, <2>2, Undecided
<1>4. QED
  BY <1>2, <1>3 DEF Load, Goto

(* The other steps of a call: the row stays undecided, or as it is. *)
LEMMA RestUndecided ==
  ASSUME Inv, [Next]_vars, ~\E c \in Call : Load(c) \/ Complete(c)
  PROVE  UNCHANGED (Receipt!decidedVars)
<1> USE DEF Inv, TypeOK
<1>1. ASSUME NEW c \in Call, NEW p \in Pc \ {"returned"}, call[c].pc # "returned",
             \/ Goto(c, p)
             \/ \E m \in Nat : call' = [call EXCEPT ![c] =
                                         [@ EXCEPT !.pc = p, !.result = m]]
      PROVE  \A d \in Call :
               /\ call'[d].pc = "returned" <=> call[d].pc = "returned"
               /\ call[d].pc = "returned" => call'[d].result = call[d].result
  <2>1. CASE Goto(c, p)
    BY <1>1, <2>1, GotoCalls
  <2>2. ASSUME NEW m \in Nat,
               call' = [call EXCEPT ![c] = [@ EXCEPT !.pc = p, !.result = m]]
        PROVE  \A d \in Call : /\ call'[d].pc = IF d = c THEN p ELSE call[d].pc
                               /\ call'[d].result = IF d = c THEN m
                                                    ELSE call[d].result
    BY <2>2 DEF CallState
  <2>3. QED
    BY <1>1, <2>1, <2>2
<1>2. \/ row' = row
      \/ row.status # "succeeded" /\ row'.status # "succeeded"
  <2>1. ASSUME NEW c \in Call, row' = ClaimedBy(c), Claimable
        PROVE  row.status # "succeeded" /\ row'.status # "succeeded"
    BY <2>1 DEF ClaimedBy, Claimable, Row
  <2>2. ASSUME NEW c \in Call, row' = MarkUnknownRow(c)
        PROVE  \/ row' = row
               \/ row.status # "succeeded" /\ row'.status # "succeeded"
    BY <2>2, MarkUnknownEffect, NilAssumption DEF RowCoherent
  <2>3. ASSUME NEW c \in Call, ClaimSideEffect(c)
        PROVE  \/ row' = row
               \/ row.status # "succeeded" /\ row'.status # "succeeded"
    BY <2>3 DEF ClaimSideEffect, Row
  <2>4. CASE ExpireLease
    BY <2>4 DEF ExpireLease, Row
  <2>5. QED
    BY <2>1, <2>2, <2>3, <2>4
       DEF Next, CallNext, Load, Complete, ClaimExecution, Check, Verify,
           SendRequest, Executed, MarkUnknown, Reconcile, Reclaim, ProviderNext, Land,
           Drop, Crash, Invoke, vars
<1>3. \A d \in Call : /\ call'[d].pc = "returned" <=> call[d].pc = "returned"
                      /\ call[d].pc = "returned" => call'[d].result = call[d].result
  <2>1. CASE call' = call
    BY <2>1
  <2>2. ASSUME NEW c \in Call, CallNext(c)
        PROVE  /\ call[c].pc # "returned"
               /\ \E p \in Pc \ {"returned"} :
                    \/ Goto(c, p)
                    \/ \E m \in Nat : call' = [call EXCEPT ![c] =
                                         [@ EXCEPT !.pc = p, !.result = m]]
    <3>1. {"load", "check", "verify", "send", "executing", "mark_unknown",
           "reconcile", "reclaim", "complete", "timed_out", "raised"}
            \subseteq Pc \ {"returned"}
      BY DEF Pc, Steps, Waits, Ends
    <3>2. Found \subseteq Nat
      BY FoundPositive
    <3>3. CASE ClaimSideEffect(c) \/ ClaimExecution(c) \/ Check(c)
               \/ SendRequest(c) \/ MarkUnknown(c) \/ Reclaim(c)
      BY <3>1, <3>3 DEF ClaimSideEffect, ClaimExecution, Check, SendRequest,
                        MarkUnknown, Reclaim
    <3>4. CASE Verify(c)
      BY <3>1, <3>2, <3>4 DEF Verify, TimesOut
    <3>5. CASE Executed(c)
      BY <3>1, <3>5 DEF Executed, TimesOut
    <3>6. CASE Reconcile(c)
      BY <3>1, <3>2, <3>6 DEF Reconcile
    <3>7. QED
      BY <2>2, <3>3, <3>4, <3>5, <3>6 DEF CallNext
  <2>3. CASE \E c \in Call : CallNext(c)
    BY <2>2, <2>3, <1>1
  <2>4. ASSUME NEW c \in Call, Crash(c)
        PROVE  call[c].pc # "returned" /\ Goto(c, "dead") /\ "dead" \in Pc
    BY <2>4 DEF Crash, Steps, Waits, Pc, Ends
  <2>5. ASSUME NEW c \in Call, NEW r \in Request, Invoke(c, r), NEW d \in Call
        PROVE  /\ call'[d].pc = "returned" <=> call[d].pc = "returned"
               /\ call[d].pc = "returned" => call'[d].result = call[d].result
    BY <2>5 DEF Invoke, CallState
  <2>6. QED
    BY <1>1, <2>1, <2>3, <2>4, <2>5
       DEF Next, ProviderNext, Land, Drop, ExpireLease, vars
<1>4. QED
  BY <1>2, <1>3, Undecided, StillUndecided

(* The protocol implements DecidedOnce: the key gets one receipt, and every
   caller that returns has read or written that one, however many leases
   expire under slow owners and however late the provider answers. *)
THEOREM OneReceiptForAll == Spec => OneReceipt
<1>1. Init => Receipt!DecidedInit
  BY DEF Init, Receipt!DecidedInit
<1>2. Inv /\ [Next]_vars => [Receipt!DecidedNext]_(Receipt!decidedVars)
  BY CompleteDecides, LoadLearns, RestUndecided
<1>3. QED
  BY AlwaysInv, <1>1, <1>2, PTL DEF Spec, OneReceipt, Receipt!DecidedOnceSpec

-----------------------------------------------------------------------------
(* One mutation                                                            *)

(* The assumptions on the environment under which the key is mutated once. *)
Reliable == Verifies = TRUE /\ Prompt = TRUE

Live(c) == row.owner = c /\ row.lease = "live"

(* The calls between their claim and their receipt or UNKNOWN mark. *)
Holders == {"check", "verify", "send", "executing", "mark_unknown", "complete"}

Exclusive ==
  /\ \A c \in Call : call[c].pc \in Holders => Live(c)
  /\ \A c \in Call : call[c].pc = "send" => mutations = 0
  /\ \A c \in flight : /\ Live(c)
                       /\ mutations = 0
                       /\ call[c].pc \in {"executing", "dead"}
  /\ \A c \in Call : answer[c] # 0 => mutations # 0
  /\ mutations <= 1

(* A step of the owner that leaves none of its requests in flight. *)
LEMMA OwnerStep ==
  ASSUME TypeOK, Exclusive, NEW c \in Call, Live(c),
         c \notin flight, UNCHANGED <<flight, answer, mutations>>,
         \A d \in Call : d # c => call'[d].pc = call[d].pc,
         call'[c].pc \in Holders => Live(c)',
         call'[c].pc = "send" => mutations = 0
  PROVE  Exclusive'
<1>1. flight = {}
  BY DEF TypeOK, Exclusive, Live
<1>2. \A d \in Call : d # c => call[d].pc \notin Holders
  BY DEF Exclusive, Live
<1>3. QED
  BY <1>1, <1>2 DEF Exclusive

(* A step of a call while nobody holds the row. *)
LEMMA FreeStep ==
  ASSUME TypeOK, Exclusive, NEW c \in Call, \A d \in Call : ~Live(d),
         UNCHANGED <<flight, answer, mutations>>,
         \A d \in Call : d # c => call'[d].pc = call[d].pc,
         call'[c].pc \in Holders => Live(c)', call'[c].pc # "send"
  PROVE  Exclusive'
<1>1. flight = {} /\ \A d \in Call : call[d].pc \notin Holders
  BY DEF TypeOK, Exclusive
<1>2. QED
  BY <1>1 DEF Exclusive, Holders

(* A step of a call that is not between claim and receipt. *)
LEMMA OutsiderStep ==
  ASSUME TypeOK, Exclusive, NEW c \in Call,
         call[c].pc \notin {"executing", "dead"}, call'[c].pc \notin Holders,
         UNCHANGED <<row, flight, answer, mutations>>,
         \A d \in Call : d # c => call'[d].pc = call[d].pc
  PROVE  Exclusive'
<1>1. \A d \in flight : d # c
  BY DEF Exclusive
<1>2. \A d \in Call : Live(d)' <=> Live(d)
  BY DEF Live
<1>3. QED
  BY <1>1, <1>2 DEF TypeOK, Exclusive, Holders

LEMMA ClaimableIsFree ==
  ASSUME Inv, Claimable, NEW d \in Call
  PROVE  ~Live(d)
  BY NilAssumption DEF Inv, RowCoherent, Claimable, Live

LEMMA ExclusiveStep ==
  ASSUME Reliable, Inv, Inv', Exclusive, [Next]_vars, stalls' = 0
  PROVE  Exclusive'
<1> USE DEF Inv
<1>a. TypeOK
  OBVIOUS
<1>b. ASSUME NEW c \in Call, NEW p \in Pc, Goto(c, p)
      PROVE  /\ call'[c].pc = p
             /\ \A d \in Call : d # c => call'[d].pc = call[d].pc
  BY <1>b, GotoCalls DEF TypeOK
<1>d. {"load", "claim", "check", "verify", "send", "executing",
       "mark_unknown", "reconcile", "reclaim", "complete", "returned", "conflict",
       "timed_out", "raised", "dead"} \subseteq Pc
  BY DEF Pc, Steps, Waits, Ends
<1>e. ASSUME NEW c \in Call, call[c].pc \in Holders
      PROVE  Live(c) /\ (call[c].pc # "executing" => c \notin flight)
  BY <1>e DEF Exclusive, Holders
<1>f. ASSUME NEW c \in Call, row' = ClaimedBy(c)
      PROVE  Live(c)'
  BY <1>f, <1>a DEF ClaimedBy, Live, TypeOK, Row
<1>1. ASSUME NEW c \in Call, ClaimSideEffect(c)
      PROVE  Exclusive'
  <2>1. /\ call[c].pc = "insert" /\ Goto(c, "load")
        /\ UNCHANGED <<flight, answer, mutations>>
    BY <1>1 DEF ClaimSideEffect
  <2>2. call'[c].pc = "load" /\ \A d \in Call : d # c => call'[d].pc = call[d].pc
    BY <1>b, <1>d, <2>1
  <2>3. CASE row.status = "absent"
    <3>1. \A d \in Call : ~Live(d)
      BY <2>3, NilAssumption DEF RowCoherent, Live
    <3>2. QED
      BY <1>a, <2>1, <2>2, <3>1, FreeStep DEF Holders
  <2>4. CASE row.status # "absent"
    <3>1. row' = row
      BY <1>1, <2>4 DEF ClaimSideEffect
    <3>2. QED
      BY <1>a, <2>1, <2>2, <3>1, OutsiderStep DEF Holders
  <2>5. QED
    BY <2>3, <2>4
<1>2. ASSUME NEW c \in Call, Load(c)
      PROVE  Exclusive'
  <2>1. call[c].pc = "load" /\ UNCHANGED <<row, flight, answer, mutations>>
    BY <1>2 DEF Load
  <2>2. \E p \in {"conflict", "claim", "returned"} :
          /\ call'[c].pc = p
          /\ \A d \in Call : d # c => call'[d].pc = call[d].pc
    BY <1>2, <1>a DEF Load, TypeOK, CallState
  <2>3. QED
    BY <1>a, <2>1, <2>2, OutsiderStep DEF Holders
<1>3. ASSUME NEW c \in Call, ClaimExecution(c) \/ Reclaim(c)
      PROVE  Exclusive'
  <2>1. /\ call[c].pc \in {"claim", "reclaim"}
        /\ UNCHANGED <<flight, answer, mutations>>
    BY <1>3 DEF ClaimExecution, Reclaim
  <2>2. ASSUME Claimable, row' = ClaimedBy(c), NEW p \in Pc \ {"send"},
               Goto(c, p)
        PROVE  Exclusive'
    BY <1>a, <1>b, <1>f, <2>1, <2>2, ClaimableIsFree, FreeStep
  <2>3. CASE UNCHANGED row /\ Goto(c, "load")
    BY <1>a, <1>b, <1>d, <2>1, <2>3, OutsiderStep DEF Holders
  <2>4. QED
    BY <1>3, <1>d, <2>2, <2>3 DEF ClaimExecution, Reclaim
<1>4. ASSUME NEW c \in Call, Check(c)
      PROVE  Exclusive'
  <2>1. /\ Live(c) /\ c \notin flight
        /\ UNCHANGED <<row, flight, answer, mutations>>
    BY <1>4, <1>e DEF Check, Holders
  <2>2. Live(c)'
    BY <2>1 DEF Live
  <2>3. /\ call'[c].pc # "send"
        /\ \A d \in Call : d # c => call'[d].pc = call[d].pc
    BY <1>4, <1>b, <1>d DEF Check
  <2>4. QED
    BY <1>a, <2>1, <2>2, <2>3, OwnerStep
<1>5. ASSUME NEW c \in Call, Verify(c)
      PROVE  Exclusive'
  <2>1. /\ Live(c) /\ c \notin flight
        /\ UNCHANGED <<row, flight, answer, mutations>>
    BY <1>5, <1>e DEF Verify, Holders
  <2>2. Live(c)'
    BY <2>1 DEF Live
  <2>3. \A d \in Call : d # c => call'[d].pc = call[d].pc
    <3>1. ASSUME NEW m \in Found,
                 call' = [call EXCEPT ![c] = [@ EXCEPT !.pc = "complete",
                                                       !.result = m]]
          PROVE  \A d \in Call : d # c => call'[d].pc = call[d].pc
      BY <3>1, <1>a DEF TypeOK
    <3>2. CASE Goto(c, "send") \/ TimesOut(c) \/ Goto(c, "raised")
      BY <3>2, <1>b, <1>d DEF TimesOut
    <3>3. QED
      BY <1>5, <3>1, <3>2 DEF Verify
  <2>4. call'[c].pc = "send" => mutations = 0
    <3>1. CASE Found = {}
      BY <3>1, <1>a DEF Found, Reliable, TypeOK
    <3>2. ASSUME NEW m \in Found,
                 call' = [call EXCEPT ![c] = [@ EXCEPT !.pc = "complete",
                                                       !.result = m]]
          PROVE  call'[c].pc # "send"
      BY <3>2, <1>a DEF TypeOK, CallState
    <3>3. CASE TimesOut(c) \/ Goto(c, "raised")
      BY <3>3, <1>b, <1>d DEF TimesOut
    <3>4. QED
      BY <1>5, <3>1, <3>2, <3>3 DEF Verify
  <2>5. QED
    BY <1>a, <2>1, <2>2, <2>3, <2>4, OwnerStep
<1>6. ASSUME NEW c \in Call, Executed(c)
      PROVE  Exclusive'
  <2>1. Live(c) /\ UNCHANGED <<row, flight, answer, mutations>>
    BY <1>6, <1>e DEF Executed, Holders
  <2>2. Live(c)'
    BY <2>1 DEF Live
  <2>3. c \notin flight
    BY <1>6 DEF Executed, MayGiveUp, Reliable, Exclusive
  <2>4. /\ call'[c].pc # "send"
        /\ \A d \in Call : d # c => call'[d].pc = call[d].pc
    <3>1. CASE call' = [call EXCEPT ![c] = [@ EXCEPT !.pc = "complete",
                                                     !.result = answer[c]]]
      BY <3>1, <1>a DEF TypeOK, CallState
    <3>2. CASE TimesOut(c) \/ Goto(c, "raised")
      BY <3>2, <1>b, <1>d DEF TimesOut
    <3>3. QED
      BY <1>6, <3>1, <3>2 DEF Executed
  <2>5. QED
    BY <1>a, <2>1, <2>2, <2>3, <2>4, OwnerStep
<1>s. ASSUME NEW c \in Call, SendRequest(c)
      PROVE  Exclusive'
  <2>1. /\ Live(c) /\ mutations = 0 /\ c \notin flight
        /\ UNCHANGED <<row, answer, mutations>>
    BY <1>s, <1>e DEF SendRequest, Exclusive, Holders
  <2>2. \A d \in Call : Live(d)' <=> Live(d)
    BY <2>1 DEF Live
  <2>3. flight' = {c}
    <3>1. flight = {}
      BY <2>1, <1>a DEF Exclusive, Live, TypeOK
    <3>2. QED
      BY <1>s, <3>1 DEF SendRequest
  <2>4. /\ call'[c].pc = "executing"
        /\ \A d \in Call : d # c => call'[d].pc = call[d].pc
    BY <1>s, <1>b, <1>d DEF SendRequest
  <2>5. \A d \in Call : d # c => call[d].pc \notin Holders
    BY <2>1 DEF Exclusive, Live
  <2>6. QED
    BY <2>1, <2>2, <2>3, <2>4, <2>5 DEF Exclusive, Holders
<1>7. ASSUME NEW c \in Call, MarkUnknown(c)
      PROVE  Exclusive'
  <2>1. Live(c) /\ c \notin flight /\ UNCHANGED <<flight, answer, mutations>>
    BY <1>7, <1>e DEF MarkUnknown, Holders
  <2>2. /\ call'[c].pc \notin Holders
        /\ \A d \in Call : d # c => call'[d].pc = call[d].pc
    BY <1>7, <1>b, <1>d DEF MarkUnknown, Holders
  <2>3. QED
    BY <1>a, <2>1, <2>2, OwnerStep DEF Holders
<1>8. ASSUME NEW c \in Call, Reconcile(c)
      PROVE  Exclusive'
  <2>1. /\ call[c].pc = "reconcile"
        /\ UNCHANGED <<row, flight, answer, mutations>>
    BY <1>8 DEF Reconcile
  <2>2. /\ call'[c].pc \notin Holders
        /\ \A d \in Call : d # c => call'[d].pc = call[d].pc
    <3>1. ASSUME NEW m \in Found,
                 call' = [call EXCEPT ![c] = [@ EXCEPT !.pc = "reclaim",
                                                       !.result = m]]
          PROVE  /\ call'[c].pc = "reclaim"
                 /\ \A d \in Call : d # c => call'[d].pc = call[d].pc
      BY <3>1, <1>a DEF TypeOK, CallState
    <3>2. CASE Goto(c, "timed_out") \/ Goto(c, "raised")
      BY <3>2, <1>b, <1>d DEF Holders
    <3>3. QED
      BY <1>8, <3>1, <3>2 DEF Reconcile, Holders
  <2>3. QED
    BY <1>a, <2>1, <2>2, OutsiderStep
<1>9. ASSUME NEW c \in Call, Complete(c)
      PROVE  Exclusive'
  <2>1. Live(c) /\ c \notin flight /\ UNCHANGED <<flight, answer, mutations>>
    BY <1>9, <1>e DEF Complete, Holders
  <2>2. /\ call'[c].pc \notin Holders
        /\ \A d \in Call : d # c => call'[d].pc = call[d].pc
    BY <1>9, <1>b, <1>d DEF Complete, Holders
  <2>3. QED
    BY <1>a, <2>1, <2>2, OwnerStep DEF Holders
<1>10. ASSUME NEW c \in Call, ProviderNext(c)
       PROVE  Exclusive'
  <2>1. \A d \in Call : Live(d)' <=> Live(d)
    BY <1>10 DEF ProviderNext, Land, Drop, Live
  <2>2. CASE Land(c)
    <3>1. /\ flight' = {} /\ mutations' = 1
      BY <2>2 DEF Land, Exclusive, Live
    <3>2. \A d \in Call : call[d].pc # "send"
      BY <2>2 DEF Land, Exclusive, Live, Holders
    <3>3. QED
      BY <2>1, <2>2, <3>1, <3>2 DEF Land, Exclusive
  <2>3. CASE Drop(c)
    BY <1>a, <2>1, <2>3 DEF Drop, Exclusive, TypeOK
  <2>4. QED
    BY <1>10, <2>2, <2>3 DEF ProviderNext
<1>11. ASSUME NEW c \in Call, Crash(c)
       PROVE  Exclusive'
  <2>1. \A d \in Call : Live(d)' <=> Live(d)
    BY <1>11 DEF Crash, Live
  <2>2. /\ call'[c].pc = "dead"
        /\ \A d \in Call : d # c => call'[d].pc = call[d].pc
        /\ UNCHANGED <<row, flight, answer, mutations>>
    BY <1>11, <1>b, <1>d DEF Crash
  <2>3. QED
    BY <1>a, <2>1, <2>2 DEF Exclusive, Holders, TypeOK
<1>12. ASSUME NEW c \in Call, NEW r \in Request, Invoke(c, r)
       PROVE  Exclusive'
  <2>1. call[c].pc = "new" /\ UNCHANGED <<row, flight, answer, mutations>>
    BY <1>12 DEF Invoke
  <2>2. /\ call'[c].pc = "insert"
        /\ \A d \in Call : d # c => call'[d].pc = call[d].pc
    BY <1>12, <1>a DEF Invoke, TypeOK, CallState
  <2>3. QED
    BY <1>a, <2>1, <2>2, OutsiderStep DEF Holders
<1>13. CASE ExpireLease
  <2>0. call[row.owner].pc \in Ends
    <3>1. stalls \in Nat /\ stalls + 1 # 0
      BY <1>a DEF TypeOK
    <3>2. QED
      BY <1>13, <3>1 DEF ExpireLease
  <2>1. /\ UNCHANGED <<call, flight, answer, mutations>>
        /\ row.owner \in Call /\ row.owner \notin flight
        /\ call[row.owner].pc \in Ends
    BY <1>13, <1>a, <2>0 DEF ExpireLease, MayGiveUp, Reliable, RowCoherent, TypeOK
  <2>2. \A d \in Call : call[d].pc \notin Holders
    BY <2>1 DEF Exclusive, Live, Holders, Ends
  <2>3. flight = {}
    BY <2>1 DEF Exclusive, Live
  <2>4. QED
    BY <2>1, <2>2, <2>3 DEF Exclusive
<1>14. CASE UNCHANGED vars
  BY <1>14 DEF vars, Exclusive, Live
<1>15. QED
  BY <1>1, <1>2, <1>3, <1>4, <1>5, <1>6, <1>s, <1>7, <1>8, <1>9, <1>10,
     <1>11, <1>12, <1>13, <1>14 DEF Next, CallNext

(* A lease that expired under its owner is never forgotten. *)
LEMMA StallsStay ==
  ASSUME TypeOK, [Next]_vars, stalls' = 0
  PROVE  stalls = 0
<1>1. CASE ExpireLease
  BY <1>1 DEF ExpireLease, TypeOK
<1>2. ASSUME NEW c \in Call, CallNext(c) PROVE stalls' = stalls
  BY <1>2 DEF CallNext, ClaimSideEffect, Load, ClaimExecution, Check, Verify, SendRequest,
              Executed, MarkUnknown, Reconcile, Reclaim, Complete
<1>3. ASSUME NEW c \in Call, ProviderNext(c) \/ Crash(c) \/ \E r \in Request : Invoke(c, r)
      PROVE  stalls' = stalls
  BY <1>3 DEF ProviderNext, Land, Drop, Crash, Invoke
<1>4. QED
  BY <1>1, <1>2, <1>3 DEF Next, vars

Guarded == stalls = 0 => Exclusive

LEMMA AlwaysGuarded ==
  ASSUME Verifies = TRUE, Prompt = TRUE
  PROVE  Spec => []Guarded
<1>1. Reliable
  BY DEF Reliable
<1>2. Init => Guarded
  BY DEF Init, Guarded, Exclusive, Holders
<1>3. Inv /\ Inv' /\ Guarded /\ [Next]_vars => Guarded'
  BY <1>1, ExclusiveStep, StallsStay DEF Inv, Guarded
<1>4. QED
  BY AlwaysInv, <1>2, <1>3, PTL DEF Spec

(* The key's mutation is made at most once, however many callers race,
   crash, time out or lose their receipt, until a lease has expired while its
   owner was at work, if the provider can verify the key and a request lands
   or is lost before its caller stops waiting. *)
THEOREM MutatedOnce ==
  ASSUME Verifies = TRUE, Prompt = TRUE
  PROVE  Spec => []OneUntilStalled
<1>1. Guarded => OneUntilStalled
  BY DEF Guarded, Exclusive, OneMutation, OneUntilStalled
<1>2. QED
  BY AlwaysGuarded, <1>1, PTL

-----------------------------------------------------------------------------
(* No retry of what was made                                               *)

(* Only a caller whose verification has been answered sends. *)
LEMMA SentBySender ==
  ASSUME [Next]_vars
  PROVE  flight' \subseteq flight \/ \E c \in Call : call[c].pc = "send"
<1>1. ASSUME NEW d \in Call,
             \/ ProviderNext(d) \/ Crash(d) \/ \E r \in Request : Invoke(d, r)
             \/ CallNext(d) /\ ~SendRequest(d)
      PROVE  flight' \subseteq flight
  BY <1>1 DEF CallNext, ClaimSideEffect, Load, ClaimExecution, Check, Verify,
     Executed, MarkUnknown, Reconcile, Reclaim, Complete, Crash, ProviderNext,
     Land, Drop, Invoke
<1>2. CASE ExpireLease \/ UNCHANGED vars
  BY <1>2 DEF ExpireLease, vars
<1> QED BY <1>1, <1>2 DEF Next, SendRequest

(* The caller sends on an answer that is old: between verify_or_reconcile
   and provider.execute anybody may step.  Under the assumptions of
   MutatedOnce that answer still holds when the request leaves, whoever
   crashes, times out or takes over: once the mutation is made nothing more
   is sent, until a lease has expired under an owner at work.  A request that
   lands after its caller gave up (Prompt = FALSE) may come between answer
   and send; nothing is claimed of that case. *)
THEOREM NoRetryOfWhatIsMade ==
  ASSUME Verifies = TRUE, Prompt = TRUE
  PROVE  Spec => NothingSentOnceMade
<1>1. Guarded /\ [Next]_vars =>
        [stalls = 0 /\ mutations # 0 => flight' \subseteq flight]_vars
  BY SentBySender DEF Guarded, Exclusive
<1> QED BY AlwaysGuarded, <1>1, PTL DEF Spec, NothingSentOnceMade

-----------------------------------------------------------------------------
(* Why every call ends: the row comes free                                 *)

(* From its claim to its receipt the owner waits for nobody's row. *)
OwnerAtWork ==
  \A c \in Call : row.owner = c =>
    call[c].pc \in {"check", "verify", "send", "executing", "mark_unknown",
                    "complete"} \cup Ends

(* How many steps of its own the owner has before it at most. *)
OwnSteps(c) ==
  CASE call[c].pc = "check"     -> 5
    [] call[c].pc = "verify"    -> 4
    [] call[c].pc = "send"      -> 3
    [] call[c].pc = "executing" -> 2
    [] call[c].pc \in {"mark_unknown", "complete"} -> 1
    [] OTHER -> 0

(* A step leaves the owner as it is, takes the row from it or takes it on. *)
OwnerGoesOn(c) ==
  row.owner = c => \/ call'[c] = call[c]
                   \/ row'.owner # c
                   \/ OwnSteps(c)' < OwnSteps(c)

LEMMA OwnerSteps ==
  ASSUME Inv, OwnerAtWork, [Next]_vars
  PROVE  OwnerAtWork' /\ \A c \in Call : OwnerGoesOn(c)
<1> DEFINE Goal == OwnerAtWork' /\ \A c \in Call : OwnerGoesOn(c)
<1>0. call \in [Call -> CallState] /\ row \in Row
  BY DEF Inv, TypeOK
(* A step of a call that leaves the row alone. *)
<1>1. ASSUME NEW c \in Call, row'.owner = row.owner,
             \A d \in Call \ {c} : call'[d] = call[d],
             row.owner = c =>
               /\ call'[c].pc \in {"verify", "send", "executing",
                                   "mark_unknown", "complete"} \cup Ends
               /\ OwnSteps(c)' < OwnSteps(c)
      PROVE  Goal
  BY <1>1 DEF OwnerAtWork, OwnerGoesOn
(* A step that makes its call the owner, or nobody. *)
<1>2. ASSUME NEW c \in Call, row.owner # c \/ row'.owner # c,
             row'.owner = Nil \/ (row'.owner = c /\ call'[c].pc \in {"check", "complete"}),
             \A d \in Call \ {c} : call'[d] = call[d]
      PROVE  Goal
  BY <1>2, NilAssumption DEF OwnerAtWork, OwnerGoesOn
<1>3. ASSUME NEW c \in Call, ClaimSideEffect(c) PROVE Goal
  <2>1. row'.owner = row.owner
    BY <1>0, <1>3 DEF ClaimSideEffect, Row
  <2> QED BY <1>0, <1>1, <1>3, <2>1 DEF ClaimSideEffect, Goto, OwnerAtWork, Ends
<1>4. ASSUME NEW c \in Call, Load(c) PROVE Goal
  <2>1. row.owner # c
    BY <1>4 DEF Load, OwnerAtWork, Ends
  <2>2. row' = row /\ \A d \in Call \ {c} : call'[d] = call[d]
    BY <1>0, <1>4 DEF Load
  <2> QED BY <1>1, <2>1, <2>2
<1>5. ASSUME NEW c \in Call, ClaimExecution(c) \/ Reclaim(c) PROVE Goal
  <2>1. row.owner # c
    BY <1>5 DEF ClaimExecution, Reclaim, OwnerAtWork, Ends
  <2>2. \A d \in Call \ {c} : call'[d] = call[d]
    BY <1>0, <1>5 DEF ClaimExecution, Reclaim, Goto
  <2>3. CASE row' = ClaimedBy(c) /\ (Goto(c, "check") \/ Goto(c, "complete"))
    <3>1. row'.owner = c
      BY <1>0, <2>3 DEF ClaimedBy, Row
    <3>2. call'[c].pc \in {"check", "complete"}
      BY <1>0, <2>3 DEF Goto, CallState
    <3> QED BY <1>2, <2>1, <2>2, <3>1, <3>2
  <2>4. CASE row' = row
    BY <1>1, <2>1, <2>2, <2>4
  <2> QED BY <1>5, <2>3, <2>4 DEF ClaimExecution, Reclaim
<1>6. ASSUME NEW c \in Call,
             NEW p \in Ends \cup {"verify", "send", "executing", "mark_unknown",
                                 "complete"},
             row' = row, \A d \in Call \ {c} : call'[d] = call[d],
             call'[c].pc = p,
             \/ call[c].pc \in {"executing", "verify"} /\
                p \in Ends \cup {"mark_unknown", "complete"}
             \/ call[c].pc = "verify" /\ p = "send"
             \/ call[c].pc = "send" /\ p = "executing"
             \/ call[c].pc = "check" /\ p \in Ends \cup {"verify"}
             \/ call[c].pc = "complete" /\ p \in Ends
      PROVE  Goal
  <2>1. OwnSteps(c)' < OwnSteps(c)
    BY <1>6 DEF OwnSteps, Ends
  <2> QED BY <1>1, <1>6, <2>1
<1>7. ASSUME NEW c \in Call, Check(c) PROVE Goal
  <2>1. /\ call'[c].pc \in {"verify", "raised"} /\ row' = row
        /\ \A d \in Call \ {c} : call'[d] = call[d]
    BY <1>0, <1>7 DEF Check, Goto, CallState
  <2> QED BY <1>6, <1>7, <2>1 DEF Check, Ends
<1>s. ASSUME NEW c \in Call, SendRequest(c) PROVE Goal
  <2>1. /\ call'[c].pc = "executing" /\ row' = row
        /\ \A d \in Call \ {c} : call'[d] = call[d]
    BY <1>0, <1>s DEF SendRequest, Goto, CallState
  <2> QED BY <1>6, <1>s, <2>1 DEF SendRequest
<1>8. ASSUME NEW c \in Call, Verify(c) \/ Executed(c) PROVE Goal
  <2>1. PICK p \in {"raised", "send", "mark_unknown", "complete"} :
          /\ p = "send" => Verify(c)
          /\ \/ Goto(c, p)
             \/ \E m : call' = [call EXCEPT ![c] =
                                  [@ EXCEPT !.pc = p, !.result = m]]
    BY <1>8 DEF Verify, Executed, TimesOut
  <2>2. /\ call'[c].pc = p /\ \A d \in Call \ {c} : call'[d] = call[d]
    BY <1>0, <2>1 DEF Goto, CallState
  <2>3. /\ row' = row
        /\ call[c].pc = "verify" \/ (call[c].pc = "executing" /\ ~Verify(c))
    BY <1>8 DEF Verify, Executed
  <2> QED BY <1>6, <2>1, <2>2, <2>3 DEF Ends
<1>9. ASSUME NEW c \in Call, MarkUnknown(c) PROVE Goal
  <2>1. \A d \in Call \ {c} : call'[d] = call[d]
    BY <1>0, <1>9 DEF MarkUnknown, Goto
  <2>2. (row' = row /\ row.owner # c) \/ row'.owner = Nil
    BY <1>0, <1>9 DEF MarkUnknown, MarkUnknownRow, Row
  <2> QED BY <1>1, <1>2, <2>1, <2>2, NilAssumption
<1>10. ASSUME NEW c \in Call, Reconcile(c) PROVE Goal
  <2>1. row.owner # c
    BY <1>10 DEF Reconcile, OwnerAtWork, Ends
  <2>2. row' = row /\ \A d \in Call \ {c} : call'[d] = call[d]
    BY <1>0, <1>10 DEF Reconcile, Goto
  <2> QED BY <1>1, <2>1, <2>2
<1>11. ASSUME NEW c \in Call, Complete(c) PROVE Goal
  <2>1. \A d \in Call \ {c} : call'[d] = call[d]
    BY <1>0, <1>11 DEF Complete, Goto
  <2>2. (row' = row /\ row.owner # c) \/ row'.owner = Nil
    BY <1>0, <1>11 DEF Complete, MarkUnknownRow, Row
  <2> QED BY <1>1, <1>2, <2>1, <2>2, NilAssumption
<1>12. ASSUME NEW c \in Call, Crash(c) PROVE Goal
  <2>1. /\ row' = row /\ call'[c].pc = "dead"
        /\ \A d \in Call \ {c} : call'[d] = call[d]
    BY <1>0, <1>12 DEF Crash, Goto, CallState
  <2>2. row.owner = c => OwnSteps(c)' < OwnSteps(c)
    BY <1>12, <2>1 DEF Crash, OwnerAtWork, OwnSteps, Ends, Steps, Waits
  <2> QED BY <1>1, <2>1, <2>2 DEF Ends
<1>13. ASSUME NEW c \in Call, NEW r \in Request, Invoke(c, r) PROVE Goal
  <2>1. row.owner # c
    BY <1>13 DEF Invoke, OwnerAtWork, Ends
  <2>2. row' = row /\ \A d \in Call \ {c} : call'[d] = call[d]
    BY <1>0, <1>13 DEF Invoke
  <2> QED BY <1>1, <2>1, <2>2
<1>14. ASSUME NEW c \in Call, ProviderNext(c) PROVE Goal
  BY <1>14 DEF ProviderNext, Land, Drop, OwnerAtWork, OwnerGoesOn
<1>15. CASE ExpireLease
  <2>1. row'.owner = row.owner /\ call' = call
    BY <1>0, <1>15 DEF ExpireLease, Row
  <2> QED BY <2>1 DEF OwnerAtWork, OwnerGoesOn
<1>16. CASE UNCHANGED vars
  BY <1>16 DEF vars, OwnerAtWork, OwnerGoesOn
<1> QED BY <1>3, <1>4, <1>5, <1>7, <1>s, <1>8, <1>9, <1>10, <1>11, <1>12,
           <1>13, <1>14, <1>15, <1>16 DEF Next, CallNext

(* The safety half of EveryCallEnds: whoever has the row never waits for
   it, and each of its steps takes it nearer to giving the row up or to its
   end, where the lease runs out. *)
THEOREM OwnersComeToTheirEnd ==
  Spec => []OwnerAtWork /\ [][\A c \in Call : OwnerGoesOn(c)]_vars
<1>1. Init => OwnerAtWork
  BY NilAssumption DEF Init, OwnerAtWork
<1>2. Inv /\ OwnerAtWork /\ [Next]_vars =>
        OwnerAtWork' /\ [\A c \in Call : OwnerGoesOn(c)]_vars
  BY OwnerSteps
<1> QED BY AlwaysInv, <1>1, <1>2, PTL DEF Spec
=============================================================================
