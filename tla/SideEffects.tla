----------------------------- MODULE SideEffects -----------------------------
(***************************************************************************)
(* execute_idempotent_side_effect of orchestration/durable_execution.py:   *)
(* several callers, in processes of their own, want one external mutation  *)
(* under one idempotency key.  Every SQL statement is one atomic step;     *)
(* every await of the provider is open to the steps of all others.         *)
(*                                                                         *)
(* The provider is external.  It applies a request it receives, possibly   *)
(* after the caller has given up; a timeout or an error tells the caller   *)
(* nothing about that.                                                     *)
(***************************************************************************)
EXTENDS Naturals

CONSTANTS
  Call,      \* invocations of execute_idempotent_side_effect for the key
  Request,   \* normalized request hashes
  Nil,
  Verifies,  \* the provider can tell whether the key has been applied
  Prompt,    \* a request lands or is lost before its caller stops waiting
  MaxStalls, \* bound: leases that expire while their owner is alive
  MaxTimeouts \* bound: calls of the provider that end in a TimeoutError

ASSUME NilAssumption == Nil \notin Call
ASSUME EnvironmentAssumption == Verifies \in BOOLEAN /\ Prompt \in BOOLEAN
ASSUME BoundsAssumption == MaxStalls \in Nat /\ MaxTimeouts \in Nat

VARIABLES
  row,       \* the row of the key in side_effects
  call,      \* the invocations
  flight,    \* the calls whose provider.execute request has not landed
  answer,    \* [Call -> Nat]: the mutation its request made, 0 if none
  mutations, \* how many times the provider has applied the mutation
  hook,      \* fail_receipt_once is still set on the provider
  stalls,
  timeouts

vars == <<row, call, flight, answer, mutations, hook, stalls, timeouts>>

Waits == {"verify", "executing", "reconcile"}
Steps == {"insert", "load", "claim", "check", "send", "mark_unknown",
          "reclaim", "complete"}
Ends  == {"returned", "conflict", "timed_out", "raised", "dead"}
Pc    == {"new"} \cup Steps \cup Waits \cup Ends

SideEffectStatus == {"absent", "pending", "in_progress", "unknown",
                     "succeeded"}

Row == [status  : SideEffectStatus,
        request : Request \cup {Nil},
        owner   : Call \cup {Nil},
        lease   : {"none", "live", "expired"},
        result  : Nat]

(* result is execution.result_reference: the mutation it stands for. *)
CallState == [pc : Pc, request : Request \cup {Nil}, result : Nat]

TypeOK ==
  /\ row \in Row
  /\ call \in [Call -> CallState]
  /\ flight \subseteq Call
  /\ answer \in [Call -> Nat]
  /\ mutations \in Nat
  /\ hook \in BOOLEAN
  /\ stalls \in Nat
  /\ timeouts \in Nat

Init ==
  /\ row = [status |-> "absent", request |-> Nil, owner |-> Nil,
            lease |-> "none", result |-> 0]
  /\ call = [c \in Call |-> [pc |-> "new", request |-> Nil, result |-> 0]]
  /\ flight = {}
  /\ answer = [c \in Call |-> 0]
  /\ mutations = 0
  /\ hook \in BOOLEAN
  /\ stalls = 0
  /\ timeouts = 0

-----------------------------------------------------------------------------
Goto(c, pc) == call' = [call EXCEPT ![c].pc = pc]

Invoke(c, r) ==
  /\ call[c].pc = "new"
  /\ call' = [call EXCEPT ![c] = [@ EXCEPT !.pc = "insert", !.request = r]]
  /\ UNCHANGED <<row, flight, answer, mutations, hook, stalls, timeouts>>

(* claim_side_effect: INSERT OR IGNORE. *)
ClaimSideEffect(c) ==
  /\ call[c].pc = "insert"
  /\ Goto(c, "load")
  /\ row' = IF row.status = "absent"
            THEN [row EXCEPT !.status = "pending",
                             !.request = call[c].request]
            ELSE row
  /\ UNCHANGED <<flight, answer, mutations, hook, stalls, timeouts>>

(* Mutant: the request hash is not compared. *)
LoadAnyRequest(c) ==
  /\ call[c].pc = "load"
  /\ call' = IF row.status = "succeeded"
             THEN [call EXCEPT ![c] = [@ EXCEPT !.pc = "returned",
                                                !.result = row.result]]
             ELSE [call EXCEPT ![c].pc = "claim"]
  /\ UNCHANGED <<row, flight, answer, mutations, hook, stalls, timeouts>>

(* The head of the loop: refuse a conflicting request, replay a result. *)
Load(c) ==
  /\ call[c].pc = "load"
  /\ call' = IF row.request # call[c].request
             THEN [call EXCEPT ![c].pc = "conflict"]
             ELSE IF row.status = "succeeded"
             THEN [call EXCEPT ![c] = [@ EXCEPT !.pc = "returned",
                                                !.result = row.result]]
             ELSE [call EXCEPT ![c].pc = "claim"]
  /\ UNCHANGED <<row, flight, answer, mutations, hook, stalls, timeouts>>

(* Mutant: an expired lease is not taken over. *)
ClaimableNoTakeover == row.status \in {"pending", "unknown"}

(* The WHERE clause of claim_side_effect_execution. *)
Claimable ==
  \/ row.status \in {"pending", "unknown"}
  \/ row.status = "in_progress" /\ row.lease = "expired"

ClaimedBy(c) == [row EXCEPT !.status = "in_progress", !.owner = c,
                            !.lease = "live"]

(* A caller that does not get the row sleeps and looks again. *)
ClaimExecution(c) ==
  /\ call[c].pc = "claim"
  /\ \/ Claimable /\ row' = ClaimedBy(c) /\ Goto(c, "check")
     \/ ~Claimable /\ UNCHANGED row /\ Goto(c, "load")
  /\ UNCHANGED <<flight, answer, mutations, hook, stalls, timeouts>>

(* The second load looks at the status, not at the owner. *)
Check(c) ==
  /\ call[c].pc = "check"
  /\ Goto(c, IF row.status = "in_progress" THEN "verify" ELSE "raised")
  /\ UNCHANGED <<row, flight, answer, mutations, hook, stalls, timeouts>>

-----------------------------------------------------------------------------
(* The provider                                                            *)

(* What verify_or_reconcile may find: a mutation made under the key. *)
Found == IF Verifies THEN 1..mutations ELSE {}

(* The caller gives up waiting: a prompt provider has dealt with its
   request by then. *)
MayGiveUp(c) == Prompt => c \notin flight

(* The await ends in a TimeoutError. *)
TimesOut(c) ==
  /\ timeouts < MaxTimeouts
  /\ timeouts' = timeouts + 1
  /\ Goto(c, "mark_unknown")

(* Mutant: the caller does not ask the provider first. *)
VerifyBlind(c) ==
  /\ call[c].pc = "verify"
  /\ Goto(c, "send")
  /\ UNCHANGED <<row, flight, answer, mutations, hook, stalls, timeouts>>

(* await provider.verify_or_reconcile, before anything is sent: the provider
   looks, and finding nothing is what permits provider.execute.  Its answer
   is old by the time the caller goes on. *)
Verify(c) ==
  /\ call[c].pc = "verify"
  /\ \/ \E m \in Found :
          /\ call' = [call EXCEPT ![c] = [@ EXCEPT !.pc = "complete",
                                                   !.result = m]]
          /\ UNCHANGED timeouts
     \/ Found = {} /\ Goto(c, "send") /\ UNCHANGED timeouts
     \/ TimesOut(c)
     \/ Goto(c, "raised") /\ UNCHANGED timeouts
  /\ UNCHANGED <<row, flight, answer, mutations, hook, stalls>>

(* provider.execute: the request is on its way. *)
SendRequest(c) ==
  /\ call[c].pc = "send"
  /\ flight' = flight \cup {c}
  /\ Goto(c, "executing")
  /\ UNCHANGED <<row, answer, mutations, hook, stalls, timeouts>>

Land(c) ==
  /\ c \in flight
  /\ flight' = flight \ {c}
  /\ mutations' = mutations + 1
  /\ answer' = [answer EXCEPT ![c] = mutations + 1]
  /\ UNCHANGED <<row, call, hook, stalls, timeouts>>

Drop(c) ==
  /\ c \in flight
  /\ flight' = flight \ {c}
  /\ UNCHANGED <<row, call, answer, mutations, hook, stalls, timeouts>>

(* await provider.execute: an answer, a TimeoutError, another exception. *)
Executed(c) ==
  /\ call[c].pc = "executing"
  /\ \/ /\ answer[c] # 0
        /\ call' = [call EXCEPT ![c] = [@ EXCEPT !.pc = "complete",
                                                 !.result = answer[c]]]
        /\ UNCHANGED timeouts
     \/ MayGiveUp(c) /\ TimesOut(c)
     \/ MayGiveUp(c) /\ Goto(c, "raised") /\ UNCHANGED timeouts
  /\ UNCHANGED <<row, flight, answer, mutations, hook, stalls>>

-----------------------------------------------------------------------------
(* Mutant: a statement that loses the lease columns. *)
MarkUnknownRowBare(c) == [status |-> "unknown", request |-> row.request]

(* mark_side_effect_unknown: only the owner's row changes. *)
MarkUnknownRow(c) ==
  IF row.owner = c
  THEN [row EXCEPT !.status = "unknown", !.owner = Nil, !.lease = "none"]
  ELSE row

MarkUnknown(c) ==
  /\ call[c].pc = "mark_unknown"
  /\ row' = MarkUnknownRow(c)
  /\ Goto(c, "reconcile")
  /\ UNCHANGED <<flight, answer, mutations, hook, stalls, timeouts>>

(* The verification after a timeout: finding nothing ends the call. *)
Reconcile(c) ==
  /\ call[c].pc = "reconcile"
  /\ \/ \E m \in Found : call' = [call EXCEPT ![c] =
                                   [@ EXCEPT !.pc = "reclaim", !.result = m]]
     \/ Found = {} /\ Goto(c, "timed_out")
     \/ Goto(c, "raised")
  /\ UNCHANGED <<row, flight, answer, mutations, hook, stalls, timeouts>>

Reclaim(c) ==
  /\ call[c].pc = "reclaim"
  /\ \/ Claimable /\ row' = ClaimedBy(c) /\ Goto(c, "complete")
     \/ ~Claimable /\ UNCHANGED row /\ Goto(c, "load")
  /\ UNCHANGED <<flight, answer, mutations, hook, stalls, timeouts>>

(* Mutant: the receipt is written whoever owns the row. *)
CompleteUnowned(c) ==
  /\ call[c].pc = "complete"
  /\ row' = [row EXCEPT !.status = "succeeded", !.owner = Nil,
                        !.lease = "none", !.result = call[c].result]
  /\ Goto(c, "returned")
  /\ UNCHANGED <<flight, answer, mutations, hook, stalls, timeouts>>

(* complete_side_effect, or the receipt loss a provider can simulate. *)
Complete(c) ==
  /\ call[c].pc = "complete"
  /\ \/ /\ hook
        /\ hook' = FALSE
        /\ row' = MarkUnknownRow(c)
        /\ Goto(c, "raised")
     \/ /\ ~hook /\ row.owner = c
        /\ row' = [row EXCEPT !.status = "succeeded", !.owner = Nil,
                              !.lease = "none", !.result = call[c].result]
        /\ Goto(c, "returned")
        /\ UNCHANGED hook
     \/ /\ ~hook /\ row.owner # c
        /\ Goto(c, "raised")
        /\ UNCHANGED <<row, hook>>
  /\ UNCHANGED <<flight, answer, mutations, stalls, timeouts>>

-----------------------------------------------------------------------------
Crash(c) ==
  /\ call[c].pc \in Steps \cup Waits
  /\ Goto(c, "dead")
  /\ UNCHANGED <<row, flight, answer, mutations, hook, stalls, timeouts>>

(* lease_expires_at falls behind the clock. *)
ExpireLease ==
  LET over == call[row.owner].pc \in Ends IN
  /\ row.status = "in_progress"
  /\ row.lease = "live"
  /\ MayGiveUp(row.owner)
  /\ over \/ stalls < MaxStalls
  /\ stalls' = IF over THEN stalls ELSE stalls + 1
  /\ row' = [row EXCEPT !.lease = "expired"]
  /\ UNCHANGED <<call, flight, answer, mutations, hook, timeouts>>

CallNext(c) ==
  \/ ClaimSideEffect(c) \/ Load(c) \/ ClaimExecution(c) \/ Check(c)
  \/ Verify(c) \/ SendRequest(c) \/ Executed(c) \/ MarkUnknown(c)
  \/ Reconcile(c) \/ Reclaim(c) \/ Complete(c)

ProviderNext(c) == Land(c) \/ Drop(c)

Next ==
  \/ \E c \in Call : CallNext(c) \/ ProviderNext(c) \/ Crash(c)
                     \/ \E r \in Request : Invoke(c, r)
  \/ ExpireLease

Spec == Init /\ [][Next]_vars

(* A process that is alive goes on, the provider deals with what it got,
   and clocks advance. *)
Fairness ==
  /\ \A c \in Call : WF_vars(CallNext(c)) /\ WF_vars(ProviderNext(c))
  /\ WF_vars(ExpireLease)

FairSpec == Spec /\ Fairness

-----------------------------------------------------------------------------
(* Properties                                                              *)

(* One receipt for all: the key is decided once, and every caller that
   returns has the decided result, also when leases expire under slow
   owners and late answers arrive. *)
Receipt == INSTANCE DecidedOnce
             WITH decided <- IF row.status = "succeeded" THEN row.result
                             ELSE 0,
                  learned <- [c \in Call |-> IF call[c].pc = "returned"
                                             THEN call[c].result ELSE 0]

OneReceipt == Receipt!DecidedOnceSpec

(* One external mutation per key, the purpose of the whole protocol
   ("assert provider.mutation_count == 1").  It takes a provider that can
   verify, requests that land before their caller gives up and leases that
   outlast their owners' work. *)
OneMutation == mutations <= 1

(* What the code achieves of it: no second mutation until a lease has expired
   under an owner that is at work, whoever crashes, times out or loses its
   receipt. *)
OneUntilStalled == stalls = 0 => OneMutation

(* Only requests equal to the stored one reach the provider. *)
SentIsStored ==
  \A c \in Call : c \in flight \/ answer[c] # 0 =>
    call[c].request = row.request

(* "Timeouts and acknowledgement loss become UNKNOWN and are reconciled;
   they are never treated as permission for an automatic blind retry":
   once a call has timed out without learning that its mutation was made,
   nothing more is sent. *)
NoBlindRetry ==
  [][\A c, d \in Call : call[d].pc = "timed_out" /\ answer[d] # 0
                           => c \notin flight' \ flight]_vars

(* What the code achieves of that, under the assumptions of OneUntilStalled:
   once the mutation is made nothing more is sent, though every caller sends
   on an answer of the provider that is old. *)
NothingSentOnceMade ==
  [][stalls = 0 /\ mutations # 0 => flight' \subseteq flight]_vars

(* Every caller gets a result or an exception: nobody waits for ever for a
   row whose owner raised, crashed or lost its receipt. *)
EveryCallEnds ==
  \A c \in Call : call[c].pc = "insert" ~> call[c].pc \in Ends
=============================================================================
