----------------------- MODULE MissionLifecycleProofs -----------------------
(***************************************************************************)
(* What the durable missions guarantee for every set of missions and every *)
(* number of saves that raise and processes that die.                      *)
(***************************************************************************)
EXTENDS MissionLifecycle, TLAPS

(* Records as the manager builds them. *)
Shape(rec) ==
  /\ rec.state = "absent" => ~rec.intent
  /\ rec.state \in {"EXECUTION_INTENT_RECORDED", "EXECUTING",
                    "RECONCILIATION_REQUIRED"} => rec.intent
  /\ ~rec.intent => rec.outcome = "none"
  /\ rec.state \in {"EXECUTION_INTENT_RECORDED", "EXECUTING"} =>
       rec.outcome = "none"
  /\ rec.state = "RECONCILIATION_REQUIRED" => rec.outcome = "UNKNOWN"

(* Nothing leads from here to EXECUTING. *)
OnRecord(rec) ==
  rec.intent /\ rec.state \notin {"absent", "EXECUTION_INTENT_RECORDED"}

Known(rec) == rec.outcome \in {"COMPLETED", "FAILED"}

Shapes == \A m \in Mission : Shape(mem[m]) /\ Shape(disk[m])

(* The store is behind memory, never elsewhere. *)
Behind ==
  \A m \in Mission :
    up /\ Known(disk[m]) => mem[m].outcome = disk[m].outcome

(* A mission under contact, or contacted, is past execution everywhere. *)
Once ==
  \A m \in Mission :
    /\ contacts[m] > 0 \/ m \in calling =>
         OnRecord(disk[m]) /\ (up => OnRecord(mem[m]))
    /\ contacts[m] \in {0, 1}
    /\ m \in calling => /\ contacts[m] = 0 /\ up
                        /\ mem[m].outcome = "none"
                        /\ disk[m].outcome = "none"

Inherited ==
  \A m \in inherited :
    /\ up
    /\ OnRecord(mem[m])
    /\ recovered /\ InFlight(mem[m]) => \E r \in Reason : item[m][r] # "none"

Indexed ==
  \A m \in Mission : \A r \in Reason : Unresolved(m, r) => byEffect[m] = r

Down == ~up => ~recovered

IInv == MissionTypeOK /\ Shapes /\ Behind /\ Once /\ Inherited /\ Indexed /\ Down

LEMMA InitIInv == MissionInit => IInv
<1> SUFFICES ASSUME MissionInit PROVE IInv
  OBVIOUS
<1>1. Absent \in Record /\ Shape(Absent) /\ ~Known(Absent)
  BY DEF Absent, Record, SideEffectClass, Shape, Known
<1>2. item \in [Mission -> [Reason -> {"none"}]]
  BY DEF MissionInit, EmptyItems
<1>3. MissionTypeOK
  <2>1. item \in [Mission -> [Reason ->
                     {"none", "QUEUED", "UNDER_REVIEW", "RESOLVED"}]]
    BY <1>2
  <2>2. QED
    BY <1>1, <2>1 DEF MissionInit, MissionTypeOK, EmptyByEffect
<1>4. Shapes /\ Behind /\ Once /\ Inherited /\ Down
  BY <1>1 DEF MissionInit, Shapes, Behind, Once, Inherited, Down
<1>5. Indexed
  BY <1>2 DEF Indexed, Unresolved
<1>6. QED
  BY <1>3, <1>4, <1>5 DEF IInv

(* A call of the manager with one save: what the new record must satisfy. *)
LEMMA StoreStep ==
  ASSUME IInv, NEW m \in Mission, NEW rec \in Record, NEW saved \in BOOLEAN,
         up, Store(m, rec, saved), Bookkeeping, calling' \subseteq Mission,
         Shape(rec),
         OnRecord(mem[m]) => OnRecord(rec),
         Known(mem[m]) => rec.outcome = mem[m].outcome,
         \A n \in Mission \ {m} : n \in calling' => n \in calling,
         m \in calling' => /\ OnRecord(rec) /\ rec.outcome = "none"
                           /\ \/ m \in calling
                              \/ /\ contacts[m] = 0 /\ saved,
         m \in inherited /\ InFlight(rec) => InFlight(mem[m])
  PROVE  IInv'
<1> USE DEF IInv
<1>1. /\ mem' \in [Mission -> Record]
      /\ disk' \in [Mission -> Record]
      /\ mem'[m] = rec
      /\ \A n \in Mission \ {m} : mem'[n] = mem[n] /\ disk'[n] = disk[n]
      /\ disk'[m] = IF saved THEN rec ELSE disk[m]
      /\ up' /\ faults' \in Nat
      /\ UNCHANGED <<item, byEffect, contacts, inherited, recovered>>
  BY DEF MissionTypeOK, Store, Bookkeeping, Faults
<1>2. MissionTypeOK'
  BY <1>1 DEF MissionTypeOK
<1>3. Shapes'
  BY <1>1 DEF Shapes
<1>4. Behind'
  <2>1. ASSUME NEW n \in Mission, Known(disk'[n])
        PROVE  mem'[n].outcome = disk'[n].outcome
    <3>1. CASE n = m /\ ~saved
      BY <1>1, <2>1, <3>1 DEF Behind, Known
    <3>2. CASE n = m /\ saved
      BY <1>1, <3>2
    <3>3. CASE n # m
      BY <1>1, <2>1, <3>3 DEF Behind
    <3>4. QED
      BY <3>1, <3>2, <3>3
  <2>2. QED
    BY <2>1 DEF Behind
<1>5. Once'
  <2>1. ASSUME NEW n \in Mission, n # m
        PROVE  /\ contacts'[n] > 0 \/ n \in calling' =>
                    OnRecord(disk'[n]) /\ (up' => OnRecord(mem'[n]))
               /\ contacts'[n] \in {0, 1}
               /\ n \in calling' => /\ contacts'[n] = 0 /\ up'
                                    /\ mem'[n].outcome = "none"
                                    /\ disk'[n].outcome = "none"
    BY <1>1, <2>1 DEF Once
  <2>2. contacts[m] > 0 \/ m \in calling' => OnRecord(rec) /\ OnRecord(disk'[m])
    BY <1>1 DEF Once
  <2>3. m \in calling' => /\ contacts[m] = 0
                          /\ rec.outcome = "none"
                          /\ disk'[m].outcome = "none"
    BY <1>1 DEF Once
  <2>4. QED
    BY <1>1, <2>1, <2>2, <2>3 DEF Once
<1>6. Inherited'
  BY <1>1 DEF Inherited, MissionTypeOK
<1>7. Indexed' /\ Down'
  BY <1>1 DEF Indexed, Unresolved, Down
<1>8. QED
  BY <1>2, <1>3, <1>4, <1>5, <1>6, <1>7

(* The calls of the manager with one save. *)
LEMMA RequestStep ==
  ASSUME IInv, NEW m \in Mission, NEW class \in Classes, NEW saved \in BOOLEAN,
         RequestMission(m, class, saved)
  PROVE  IInv'
<1> DEFINE rec == [Absent EXCEPT !.state = "REQUESTED", !.class = class]
<1>1. /\ rec \in Record /\ Shape(rec) /\ ~InFlight(rec)
      /\ rec.state = "REQUESTED"
  BY ClassAssumption
     DEF Absent, Record, SideEffectClass, MissionLifecycleState, Shape, InFlight
<1>2. /\ up /\ mem[m].state = "absent" /\ calling' = calling
      /\ Store(m, rec, saved) /\ Bookkeeping
  BY DEF RequestMission, In
<1>3. ~mem[m].intent /\ mem[m].outcome = "none"
  BY <1>2 DEF IInv, Shapes, Shape
<1>4. m \notin calling /\ ~OnRecord(mem[m]) /\ ~Known(mem[m])
  BY <1>2, <1>3 DEF IInv, Once, OnRecord, Known
<1>5. calling \subseteq Mission
  BY DEF IInv, MissionTypeOK
<1> HIDE DEF rec
<1>6. QED
  BY <1>1, <1>2, <1>4, <1>5, StoreStep

LEMMA StateStep ==
  ASSUME IInv, NEW m \in Mission, NEW saved \in BOOLEAN,
         NEW s \in {"AWAITING_APPROVAL", "APPROVED", "CANCELLED"},
         up, mem[m].state # "absent", calling' = calling,
         Store(m, [mem[m] EXCEPT !.state = s], saved), Bookkeeping
  PROVE  IInv'
<1> DEFINE rec == [mem[m] EXCEPT !.state = s]
<1>1. mem[m] \in Record /\ Shape(mem[m]) /\ calling \subseteq Mission
  BY DEF IInv, MissionTypeOK, Shapes
<1>2. /\ rec \in Record /\ rec.state = s
      /\ rec.intent = mem[m].intent /\ rec.outcome = mem[m].outcome
  BY <1>1 DEF Record, MissionLifecycleState
<1>3. /\ Shape(rec) /\ ~InFlight(rec)
      /\ OnRecord(mem[m]) => OnRecord(rec)
  BY <1>1, <1>2 DEF Shape, InFlight, OnRecord
<1>4. m \in calling => OnRecord(rec) /\ rec.outcome = "none"
  BY <1>2, <1>3 DEF IInv, Once
<1>5. Store(m, rec, saved)
  OBVIOUS
<1> HIDE DEF rec
<1>6. QED
  BY <1>1, <1>2, <1>3, <1>4, <1>5, StoreStep

LEMMA ExecutingStep ==
  ASSUME IInv, NEW m \in Mission, NEW saved \in BOOLEAN, Executing(m, saved)
  PROVE  IInv'
<1> DEFINE rec == [mem[m] EXCEPT !.state = "EXECUTING"]
<1>1. mem[m] \in Record /\ Shape(mem[m]) /\ calling \subseteq Mission
  BY DEF IInv, MissionTypeOK, Shapes
<1>2. /\ up /\ mem[m].state = "EXECUTION_INTENT_RECORDED"
      /\ Store(m, rec, saved) /\ Bookkeeping
      /\ calling' = IF saved THEN calling \cup {m} ELSE calling
  BY DEF Executing, In
<1>3. /\ rec \in Record /\ rec.state = "EXECUTING"
      /\ rec.intent = mem[m].intent /\ rec.outcome = mem[m].outcome
  BY <1>1 DEF Record, MissionLifecycleState
<1>4. Shape(rec) /\ OnRecord(rec) /\ rec.outcome = "none"
  BY <1>1, <1>2, <1>3 DEF Shape, OnRecord
<1>5. ~OnRecord(mem[m])
  BY <1>2 DEF OnRecord
<1>6. contacts[m] = 0 /\ m \notin inherited
  BY <1>2, <1>5 DEF IInv, Once, Inherited
<1> HIDE DEF rec
<1>7. QED
  BY <1>1, <1>2, <1>3, <1>4, <1>5, <1>6, StoreStep

LEMMA AfterOutcomeRecord ==
  ASSUME NEW m \in Mission, mem[m] \in Record, mem[m].state = "EXECUTING",
         Shape(mem[m]), NEW outcome \in {"COMPLETED", "FAILED", "UNKNOWN"},
         NEW reason \in Reported
  PROVE  LET rec == AfterOutcome(m, outcome, reason)
         IN  /\ rec \in Record /\ Shape(rec) /\ OnRecord(rec)
<1>1. mem[m].intent /\ reason \in {"unknown", "timeout"}
  BY ReportedAssumption DEF Shape
<1>2. CASE outcome = "UNKNOWN" /\ mem[m].class = "consequential"
  BY <1>1, <1>2 DEF AfterOutcome, Record, Shape, OnRecord, MissionLifecycleState
<1>3. CASE ~(outcome = "UNKNOWN" /\ mem[m].class = "consequential")
  <2>1. AfterOutcome(m, outcome, reason) =
          [mem[m] EXCEPT
             !.state = IF outcome = "COMPLETED" THEN "COMPLETED" ELSE "FAILED",
             !.outcome = outcome]
    BY <1>3 DEF AfterOutcome
  <2>2. QED
    BY <1>1, <2>1 DEF Record, Shape, OnRecord, MissionLifecycleState
<1>4. QED
  BY <1>2, <1>3

LEMMA OutcomeStep ==
  ASSUME IInv, NEW m \in Mission, NEW saved \in BOOLEAN,
         NEW outcome \in {"COMPLETED", "FAILED", "UNKNOWN"},
         NEW reason \in Reported, RecordOutcome(m, outcome, reason, saved)
  PROVE  IInv'
<1> DEFINE rec == AfterOutcome(m, outcome, reason)
<1>1. mem[m] \in Record /\ Shape(mem[m]) /\ calling \subseteq Mission
  BY DEF IInv, MissionTypeOK, Shapes
<1>2. /\ up /\ mem[m].state = "EXECUTING"
      /\ Store(m, rec, saved) /\ Bookkeeping
      /\ calling' = calling \ {m}
  BY DEF RecordOutcome, In
<1>3. mem[m].outcome = "none" /\ InFlight(mem[m]) /\ ~Known(mem[m])
  BY <1>1, <1>2 DEF Shape, InFlight, Known
<1>4. rec \in Record /\ Shape(rec) /\ OnRecord(rec)
  BY <1>1, <1>2, AfterOutcomeRecord
<1> HIDE DEF rec
<1>5. QED
  BY <1>1, <1>2, <1>3, <1>4, StoreStep

LEMMA ResolveMissionStep ==
  ASSUME IInv, NEW m \in Mission, NEW saved \in BOOLEAN,
         NEW outcome \in {"COMPLETED", "FAILED"},
         ReconcileResolve(m, outcome, saved)
  PROVE  IInv'
<1> DEFINE rec == [mem[m] EXCEPT !.state = outcome, !.outcome = outcome,
                                 !.status = "RESOLVED"]
<1>1. mem[m] \in Record /\ Shape(mem[m]) /\ calling \subseteq Mission
  BY DEF IInv, MissionTypeOK, Shapes
<1>2. /\ up /\ mem[m].state = "RECONCILIATION_REQUIRED"
      /\ Store(m, rec, saved) /\ Bookkeeping /\ calling' = calling
  BY DEF ReconcileResolve, In
<1>3. mem[m].outcome = "UNKNOWN" /\ mem[m].intent /\ m \notin calling
  BY <1>1, <1>2 DEF IInv, Once, Shape
<1>4. /\ rec \in Record /\ rec.state = outcome
      /\ rec.intent = mem[m].intent /\ rec.outcome = outcome
  BY <1>1 DEF Record, MissionLifecycleState
<1>5. Shape(rec) /\ OnRecord(rec) /\ ~InFlight(rec) /\ ~Known(mem[m])
  BY <1>3, <1>4 DEF Shape, OnRecord, InFlight, Known
<1> HIDE DEF rec
<1>6. QED
  BY <1>1, <1>2, <1>3, <1>4, <1>5, StoreStep

(* The remaining steps of the manager *)
LEMMA IntentStep ==
  ASSUME IInv, NEW m \in Mission, NEW saves \in 0..2, RecordIntent(m, saves)
  PROVE  IInv'
<1> USE DEF IInv
<1>1. /\ mem[m] \in Record /\ disk[m] \in Record
      /\ Shape(mem[m]) /\ Shape(disk[m])
  BY DEF MissionTypeOK, Shapes
<1>2. /\ up /\ mem[m].state \in {"APPROVED", "EXECUTION_INTENT_RECORDED"}
      /\ ~mem[m].intent /\ mem[m].outcome = "none"
  BY <1>1 DEF RecordIntent, CanRecordIntent, In, Shape
<1>3. /\ WithIntent(m) \in Record /\ Shape(WithIntent(m))
      /\ WithIntent(m).outcome = "none" /\ ~InFlight(WithIntent(m))
      /\ IntentReady(m) \in Record /\ Shape(IntentReady(m))
      /\ IntentReady(m).outcome = "none" /\ ~InFlight(IntentReady(m))
  BY <1>1, <1>2 DEF WithIntent, IntentReady, Record, Shape, InFlight,
                    MissionLifecycleState
<1>4. contacts[m] = 0 /\ m \notin calling /\ m \notin inherited
  BY <1>2 DEF Once, OnRecord, Inherited
<1>5. PICK ram, row \in Record :
         /\ mem' = [mem EXCEPT ![m] = ram]
         /\ disk' = [disk EXCEPT ![m] = row]
         /\ Shape(ram) /\ ram.outcome = "none"
         /\ Shape(row) /\ (row.outcome = "none" \/ row = disk[m])
  <2>1. CASE saves = 0
    <3>1. disk' = [disk EXCEPT ![m] = disk[m]]
      BY <2>1 DEF RecordIntent, MissionTypeOK
    <3>2. mem' = [mem EXCEPT ![m] = WithIntent(m)]
      BY <2>1 DEF RecordIntent
    <3>3. QED
      BY <1>1, <1>3, <3>1, <3>2
  <2>2. CASE saves = 1
    <3>1. /\ mem' = [mem EXCEPT ![m] = IntentReady(m)]
          /\ disk' = [disk EXCEPT ![m] = WithIntent(m)]
      BY <2>2 DEF RecordIntent
    <3>2. QED
      BY <1>3, <3>1
  <2>3. CASE saves = 2
    <3>1. /\ mem' = [mem EXCEPT ![m] = IntentReady(m)]
          /\ disk' = [disk EXCEPT ![m] = IntentReady(m)]
      BY <2>3 DEF RecordIntent
    <3>2. QED
      BY <1>3, <3>1
  <2>4. QED
    BY <2>1, <2>2, <2>3
<1>6. /\ mem' \in [Mission -> Record] /\ disk' \in [Mission -> Record]
      /\ mem'[m] = ram /\ disk'[m] = row
      /\ \A n \in Mission \ {m} : mem'[n] = mem[n] /\ disk'[n] = disk[n]
      /\ UNCHANGED <<up, calling, item, byEffect, contacts, inherited, recovered>>
      /\ faults' \in Nat
  BY <1>5 DEF RecordIntent, Bookkeeping, Faults, MissionTypeOK
<1>7. ~Known(disk[m])
  BY <1>2 DEF Behind, Known
<1>8. MissionTypeOK' /\ Shapes'
  BY <1>5, <1>6 DEF MissionTypeOK, Shapes
<1>9. Behind'
  BY <1>5, <1>6, <1>7 DEF Behind, Known
<1>10. Once'
  BY <1>4, <1>6 DEF Once
<1>11. Inherited' /\ Indexed' /\ Down'
  BY <1>4, <1>6 DEF Inherited, Indexed, Unresolved, MissionTypeOK, Down
<1>12. QED
  BY <1>8, <1>9, <1>10, <1>11

LEMMA ContactStep == ASSUME IInv, NEW m \in Mission, Contact(m) PROVE IInv'
<1> USE DEF IInv, Contact
<1>1. MissionTypeOK'
  BY DEF MissionTypeOK
<1>2. Shapes' /\ Behind'
  BY DEF Shapes, Behind
<1>3. contacts[m] = 0 /\ contacts' \in [Mission -> Nat] /\ contacts'[m] = 1
  BY DEF Once, MissionTypeOK
<1>4. Once'
  BY <1>3 DEF Once, MissionTypeOK
<1>5. Inherited' /\ Indexed' /\ Down'
  BY DEF Inherited, Indexed, Unresolved, Down
<1>6. QED
  BY <1>1, <1>2, <1>4, <1>5

(* The reconciliation queue: items are added, and moved on, never removed. *)
LEMMA QueueStep ==
  ASSUME IInv, UNCHANGED <<manager, contacts, inherited>>, faults' \in Nat,
         recovered' \in BOOLEAN, recovered' => up \/ recovered,
         item' \in [Mission -> [Reason ->
                       {"none", "QUEUED", "UNDER_REVIEW", "RESOLVED"}]],
         byEffect' \in [Mission -> Reason \cup {NoReason}],
         \A m \in Mission, r \in Reason :
           item[m][r] # "none" => item'[m][r] # "none",
         \A m \in inherited :
           recovered' /\ InFlight(mem[m]) =>
             recovered \/ \E r \in Reason : item'[m][r] # "none",
         Indexed'
  PROVE  IInv'
<1> USE DEF IInv, manager
<1>1. MissionTypeOK'
  BY DEF MissionTypeOK
<1>2. Shapes' /\ Behind' /\ Once'
  BY DEF Shapes, Behind, Once
<1>3. Inherited' /\ Down'
  BY DEF Inherited, MissionTypeOK, Down
<1>4. QED
  BY <1>1, <1>2, <1>3

LEMMA EnqueueEffect ==
  ASSUME MissionTypeOK, Indexed, NEW missions \in SUBSET Mission, EnqueueItem(missions)
  PROVE  /\ item' \in [Mission -> [Reason ->
                          {"none", "QUEUED", "UNDER_REVIEW", "RESOLVED"}]]
         /\ byEffect' \in [Mission -> Reason \cup {NoReason}]
         /\ \A m \in Mission, r \in Reason :
              item[m][r] # "none" => item'[m][r] # "none"
         /\ \A m \in missions : \E r \in Reason : item'[m][r] # "none"
         /\ Indexed'
<1> DEFINE new == {m \in missions : Adds(m)}
<1>1. \A m \in Mission : ReasonOf(m) \in Reason
  BY DEF ReasonOf, Reason
<1>2. /\ \A m \in Mission :
           /\ item'[m] = IF m \in new THEN [item[m] EXCEPT ![ReasonOf(m)] = "QUEUED"]
                                       ELSE item[m]
           /\ byEffect'[m] = IF m \in new THEN ReasonOf(m) ELSE byEffect[m]
      /\ item' = [m \in Mission |-> item'[m]]
      /\ byEffect' = [m \in Mission |-> byEffect'[m]]
  BY DEF EnqueueItem
<1>3. ASSUME NEW m \in Mission
      PROVE  /\ item'[m] \in [Reason ->
                   {"none", "QUEUED", "UNDER_REVIEW", "RESOLVED"}]
             /\ byEffect'[m] \in Reason \cup {NoReason}
             /\ \A r \in Reason : item[m][r] # "none" => item'[m][r] # "none"
             /\ m \in missions => \E r \in Reason : item'[m][r] # "none"
             /\ \A r \in Reason :
                  item'[m][r] \in {"QUEUED", "UNDER_REVIEW"} => byEffect'[m] = r
  <2>1. /\ item[m] \in [Reason -> {"none", "QUEUED", "UNDER_REVIEW", "RESOLVED"}]
        /\ byEffect[m] \in Reason \cup {NoReason}
    BY DEF MissionTypeOK
  <2>2. \A r \in Reason :
          item[m][r] \in {"QUEUED", "UNDER_REVIEW"} => byEffect[m] = r
    BY DEF Indexed, Unresolved
  <2>3. CASE m \in new
    <3>1. /\ item'[m] = [item[m] EXCEPT ![ReasonOf(m)] = "QUEUED"]
          /\ byEffect'[m] = ReasonOf(m)
      BY <1>2, <2>3
    <3>2. byEffect[m] = NoReason \/ ~(item[m][byEffect[m]] \in {"QUEUED", "UNDER_REVIEW"})
      BY <2>3 DEF Adds, Unresolved
    <3>3. \A r \in Reason : ~(item[m][r] \in {"QUEUED", "UNDER_REVIEW"})
      BY <2>2, <3>2, NoReasonAssumption
    <3>4. QED
      BY <1>1, <2>1, <3>1, <3>3
  <2>4. CASE m \notin new
    <3>1. item'[m] = item[m] /\ byEffect'[m] = byEffect[m]
      BY <1>2, <2>4
    <3>2. ASSUME m \in missions PROVE \E r \in Reason : item[m][r] # "none"
      <4>1. ~Adds(m)
        BY <2>4, <3>2
      <4>2. \/ byEffect[m] # NoReason /\ item[m][byEffect[m]] \in {"QUEUED", "UNDER_REVIEW"}
            \/ item[m][ReasonOf(m)] # "none"
        BY <4>1 DEF Adds, Unresolved
      <4>3. QED
        BY <1>1, <2>1, <4>2
    <3>3. QED
      BY <2>1, <2>2, <3>1, <3>2
  <2>5. QED
    BY <2>3, <2>4
<1>4. Indexed'
  BY <1>3 DEF Indexed, Unresolved
<1>5. QED
  BY <1>2, <1>3, <1>4

LEMMA RecoverStep == ASSUME IInv, RecoverAfterRestart PROVE IInv'
<1>1. MissionTypeOK /\ Indexed /\ Shapes /\ Inherited
  BY DEF IInv
<1>2. EnqueueItem({m \in Mission : NeedsEntry(m)})
  BY DEF RecoverAfterRestart
<1>3. ASSUME NEW m \in inherited, InFlight(mem[m])
      PROVE  m \in Mission /\ NeedsEntry(m)
  BY <1>1, <1>3 DEF NeedsEntry, InFlight, Shapes, Shape, MissionTypeOK
<1>4. /\ UNCHANGED <<manager, contacts, inherited>>
      /\ faults' \in Nat /\ recovered' \in BOOLEAN /\ up
  BY <1>1 DEF RecoverAfterRestart, MissionTypeOK
<1> DEFINE missions == {m \in Mission : NeedsEntry(m)}
<1>5. missions \in SUBSET Mission /\ EnqueueItem(missions)
      /\ \A m \in inherited : InFlight(mem[m]) => m \in missions
  BY <1>2, <1>3
<1> HIDE DEF missions
<1>6. QED
  BY <1>1, <1>4, <1>5, EnqueueEffect, QueueStep

LEMMA RecoveryFailsStep == ASSUME IInv, RecoveryFails PROVE IInv'
<1>1. PICK missions \in SUBSET {m \in Mission : NeedsEntry(m) /\ Adds(m)} :
         EnqueueItem(missions)
  BY DEF RecoveryFails
<1>2. missions \in SUBSET Mission
  OBVIOUS
<1>3. /\ UNCHANGED <<manager, contacts, inherited, recovered>>
      /\ faults' \in Nat /\ recovered' \in BOOLEAN
  BY DEF RecoveryFails, IInv, MissionTypeOK, Faults
<1>4. MissionTypeOK /\ Indexed
  BY DEF IInv
<1>5. QED
  BY <1>1, <1>2, <1>3, <1>4, EnqueueEffect, QueueStep

LEMMA ItemStep ==
  ASSUME IInv, NEW m \in Mission, NEW r \in Reason, NEW s \in {"UNDER_REVIEW", "RESOLVED"},
         Unresolved(m, r), item' = [item EXCEPT ![m][r] = s],
         UNCHANGED <<manager, byEffect, contacts, inherited, recovered, faults>>
  PROVE  IInv'
<1>1. MissionTypeOK /\ Indexed
  BY DEF IInv
<1>2. item' \in [Mission -> [Reason ->
                   {"none", "QUEUED", "UNDER_REVIEW", "RESOLVED"}]]
  BY <1>1 DEF MissionTypeOK
<1>3. ASSUME NEW n \in Mission, NEW t \in Reason
      PROVE  item'[n][t] = IF n = m /\ t = r THEN s ELSE item[n][t]
  BY <1>1 DEF MissionTypeOK
<1>4. Indexed'
  BY <1>1, <1>3 DEF Indexed, Unresolved
<1>5. /\ byEffect' \in [Mission -> Reason \cup {NoReason}]
      /\ recovered' \in BOOLEAN /\ faults' \in Nat
  BY <1>1 DEF MissionTypeOK
<1>6. QED
  BY <1>2, <1>3, <1>4, <1>5, QueueStep

(* Processes *)
LEMMA EndStep ==
  ASSUME IInv, ProcessEnds, disk' \in [Mission -> Record],
         \A m \in Mission : /\ Shape(disk'[m])
                            /\ disk'[m] = disk[m] \/ contacts[m] = 0
  PROVE  IInv'
<1> USE DEF IInv, ProcessEnds
<1>1. Absent \in Record /\ Shape(Absent) /\ ~Known(Absent)
  BY DEF Absent, Record, SideEffectClass, Shape, Known
<1>2. /\ item' \in [Mission -> [Reason -> {"none"}]]
      /\ byEffect' \in [Mission -> {NoReason}]
      /\ faults' \in Nat
  BY DEF EmptyItems, EmptyByEffect, Faults, MissionTypeOK
<1>3. MissionTypeOK'
  <2>1. item' \in [Mission -> [Reason ->
                     {"none", "QUEUED", "UNDER_REVIEW", "RESOLVED"}]]
    BY <1>2
  <2>2. QED
    BY <1>1, <1>2, <2>1 DEF MissionTypeOK
<1>4. Shapes' /\ Behind' /\ Inherited' /\ Down'
  BY <1>1 DEF Shapes, Behind, Inherited, Down
<1>5. Once'
  BY DEF Once, MissionTypeOK
<1>6. Indexed'
  BY <1>2 DEF Indexed, Unresolved
<1>7. QED
  BY <1>3, <1>4, <1>5, <1>6

LEMMA CrashInIntentStep ==
  ASSUME IInv, NEW m \in Mission, CrashInIntent(m) PROVE IInv'
<1>1. mem[m] \in Record /\ Shape(mem[m]) /\ disk \in [Mission -> Record]
      /\ \A n \in Mission : Shape(disk[n])
  BY DEF IInv, MissionTypeOK, Shapes
<1>2. /\ up /\ mem[m].state \in {"APPROVED", "EXECUTION_INTENT_RECORDED"}
      /\ ~mem[m].intent /\ mem[m].outcome = "none"
  BY <1>1 DEF CrashInIntent, CanRecordIntent, In, Shape
<1>3. WithIntent(m) \in Record /\ Shape(WithIntent(m))
  BY <1>1, <1>2 DEF WithIntent, Record, Shape
<1>4. ~(contacts[m] > 0)
  BY <1>2 DEF IInv, Once, OnRecord
<1>5. contacts[m] = 0
  BY <1>4 DEF IInv, Once
<1>6. disk' = [disk EXCEPT ![m] = WithIntent(m)]
  BY DEF CrashInIntent
<1>7. /\ disk' \in [Mission -> Record]
      /\ \A n \in Mission : /\ Shape(disk'[n])
                            /\ disk'[n] = disk[n] \/ contacts[n] = 0
  BY <1>1, <1>3, <1>5, <1>6
<1>8. ProcessEnds
  BY DEF CrashInIntent
<1>9. QED
  BY <1>7, <1>8, EndStep

LEMMA RestartStep == ASSUME IInv, Restart PROVE IInv'
<1> USE DEF IInv, Restart
<1>1. MissionTypeOK'
  BY DEF MissionTypeOK
<1>2. Shapes' /\ Behind'
  BY DEF Shapes, Behind
<1>3. calling = {}
  BY DEF Once, MissionTypeOK
<1>4. Once'
  BY <1>3 DEF Once, MissionTypeOK
<1>5. Inherited'
  <2>1. ASSUME NEW m \in Mission, InFlight(disk[m]) PROVE OnRecord(disk[m])
    BY <2>1 DEF Shapes, Shape, InFlight, OnRecord
  <2>2. ~recovered
    BY DEF Down
  <2>3. QED
    BY <2>1, <2>2 DEF Inherited
<1>6. Indexed' /\ Down'
  BY DEF Indexed, Unresolved, Down
<1>7. QED
  BY <1>1, <1>2, <1>4, <1>5, <1>6

LEMMA ManagerStep ==
  ASSUME IInv, NEW m \in Mission, ManagerNext(m) PROVE IInv'
<1>1. ASSUME NEW saved \in BOOLEAN, NEW class \in Classes,
             RequestMission(m, class, saved)
      PROVE  IInv'
  BY <1>1, RequestStep
<1>2. ASSUME NEW saved \in BOOLEAN, AwaitingApproval(m, saved) PROVE IInv'
  BY <1>2, StateStep DEF AwaitingApproval, In, MissionLifecycleState
<1>3. ASSUME NEW saved \in BOOLEAN, Approved(m, saved) PROVE IInv'
  BY <1>3, StateStep DEF Approved, In
<1>4. ASSUME NEW saved \in BOOLEAN, Executing(m, saved) PROVE IInv'
  BY <1>4, ExecutingStep
<1>5. ASSUME NEW saved \in BOOLEAN,
             NEW outcome \in {"COMPLETED", "FAILED", "UNKNOWN"},
             NEW reason \in Reported, RecordOutcome(m, outcome, reason, saved)
      PROVE  IInv'
  BY <1>5, OutcomeStep
<1>6. ASSUME NEW saved \in BOOLEAN, CancelMission(m, saved) PROVE IInv'
  BY <1>6, StateStep DEF CancelMission, In, MissionLifecycleState
<1>7. ASSUME NEW saved \in BOOLEAN, NEW outcome \in {"COMPLETED", "FAILED"},
             ReconcileResolve(m, outcome, saved)
      PROVE  IInv'
  BY <1>7, ResolveMissionStep
<1>8. ASSUME NEW saves \in 0..2, RecordIntent(m, saves) PROVE IInv'
  BY <1>8, IntentStep
<1>9. ASSUME CrashInIntent(m) PROVE IInv'
  BY <1>9, CrashInIntentStep
<1>10. QED
  BY <1>1, <1>2, <1>3, <1>4, <1>5, <1>6, <1>7, <1>8, <1>9 DEF ManagerNext

LEMMA CrashStep == ASSUME IInv, Crash PROVE IInv'
<1>1. ProcessEnds /\ disk' = disk
  BY DEF Crash
<1>2. disk \in [Mission -> Record] /\ \A m \in Mission : Shape(disk[m])
  BY DEF IInv, MissionTypeOK, Shapes
<1>3. QED
  BY <1>1, <1>2, EndStep

LEMMA NextStep == ASSUME IInv, [MissionNext]_missionVars PROVE IInv'
<1>1. ASSUME NEW m \in Mission, ManagerNext(m) PROVE IInv'
  BY <1>1, ManagerStep
<1>2. ASSUME NEW m \in Mission, Contact(m) PROVE IInv'
  BY <1>2, ContactStep
<1>3. CASE RecoverAfterRestart
  BY <1>3, RecoverStep
<1>4. CASE RecoveryFails
  BY <1>4, RecoveryFailsStep
<1>5. ASSUME NEW m \in Mission, NEW r \in Reason, BeginReview(m, r) PROVE IInv'
  BY <1>5, ItemStep DEF BeginReview, Unresolved
<1>6. ASSUME NEW m \in Mission, NEW r \in Reason, Resolve(m, r) PROVE IInv'
  BY <1>6, ItemStep DEF Resolve
<1>7. CASE Crash
  BY <1>7, CrashStep
<1>8. CASE Restart
  BY <1>8, RestartStep
<1>9. CASE UNCHANGED missionVars
  BY <1>9 DEF IInv, missionVars, MissionTypeOK, Shapes, Behind, Once, Inherited, Indexed,
              Unresolved, Down
<1>10. QED
  BY <1>1, <1>2, <1>3, <1>4, <1>5, <1>6, <1>7, <1>8, <1>9 DEF MissionNext, ReconciliationNext

LEMMA Invariance == MissionSpec => []IInv
<1>1. QED
  BY InitIInv, NextStep, PTL DEF MissionSpec

-----------------------------------------------------------------------------
(* Every variable keeps its type. *)
THEOREM MissionTypes == MissionSpec => []MissionTypeOK
<1>1. IInv => MissionTypeOK
  BY DEF IInv
<1>2. QED
  BY <1>1, Invariance, PTL

(* What the external system has been contacted for is on record, past the
   state from which a successor could execute: executing() in
   durable_mission.py saves before it returns. *)
THEOREM ContactsOnRecord == MissionSpec => []ContactOnRecord
<1>1. IInv => ContactOnRecord
  BY DEF IInv, Once, OnRecord, ContactOnRecord
<1>2. QED
  BY <1>1, Invariance, PTL

(* recover_after_restart leaves no mission that the process has found in
   flight without an item. *)
THEOREM InheritedAreQueued == MissionSpec => []InheritedQueued
<1>1. IInv => InheritedQueued
  BY DEF IInv, Inherited, InheritedQueued
<1>2. QED
  BY <1>1, Invariance, PTL

(* enqueue keeps one active item per effect. *)
THEOREM ActiveItemsAreOne == MissionSpec => []OneActiveItem
<1>1. IInv => OneActiveItem
  BY DEF IInv, Indexed, OneActiveItem
<1>2. QED
  BY <1>1, Invariance, PTL

-----------------------------------------------------------------------------
(* The refinement of AccountedEffect                                       *)

(* The store may learn an outcome, once. *)
LEMMA DiskStep ==
  ASSUME IInv, NEW m \in Mission, NEW row \in Record,
         disk' = [disk EXCEPT ![m] = row], contacts' = contacts,
         Known(disk[m]) => row.outcome = disk[m].outcome
  PROVE  [Account!AccountNext]_(Account!accountVars)
<1>1. disk \in [Mission -> Record]
  BY DEF IInv, MissionTypeOK
<1>2. \A n \in Mission : disk'[n] = IF n = m THEN row ELSE disk[n]
  BY <1>1
<1>3. Settled' = [n \in Mission |-> IF n = m
                    THEN IF Known(row) THEN row.outcome ELSE "none"
                    ELSE Settled[n]]
  BY <1>2 DEF Settled, Known
<1>4. CASE Known(disk[m]) \/ ~Known(row)
  <2>1. (IF Known(row) THEN row.outcome ELSE "none") = Settled[m]
    BY <1>4 DEF Settled, Known
  <2>2. Settled = [n \in Mission |-> Settled[n]]
    BY DEF Settled
  <2>3. Settled' = Settled
    BY <1>3, <2>1, <2>2
  <2>4. QED
    BY <2>3 DEF Account!accountVars
<1>5. CASE ~Known(disk[m]) /\ Known(row)
  <2>1. Settled[m] = "none"
    BY <1>5 DEF Settled, Known
  <2>2. Settled' = [Settled EXCEPT ![m] = row.outcome]
    BY <1>3, <1>5 DEF Settled
  <2>3. Account!Settle(m)
    BY <1>5, <2>1, <2>2 DEF Account!Settle, Known
  <2>4. QED
    BY <2>3 DEF Account!AccountNext
<1>6. QED
  BY <1>4, <1>5

LEMMA StoreAccount ==
  ASSUME IInv, NEW m \in Mission, NEW rec \in Record, NEW saved \in BOOLEAN, up,
         Store(m, rec, saved), Bookkeeping,
         Known(mem[m]) => rec.outcome = mem[m].outcome
  PROVE  [Account!AccountNext]_(Account!accountVars)
<1>1. Known(disk[m]) => rec.outcome = disk[m].outcome
  BY DEF IInv, Behind, Known
<1>2. contacts' = contacts
  BY DEF Bookkeeping
<1>3. CASE saved
  <2>1. disk' = [disk EXCEPT ![m] = rec]
    BY <1>3 DEF Store
  <2>2. QED
    BY <1>1, <1>2, <2>1, DiskStep
<1>4. CASE ~saved
  BY <1>2, <1>4 DEF Store, Account!accountVars, Settled
<1>5. QED
  BY <1>3, <1>4

LEMMA ManagerAccount ==
  ASSUME IInv, NEW m \in Mission, ManagerNext(m)
  PROVE  [Account!AccountNext]_(Account!accountVars)
<1>1. /\ mem[m] \in Record /\ Shape(mem[m])
      /\ disk \in [Mission -> Record] /\ Shape(disk[m])
  BY DEF IInv, MissionTypeOK, Shapes
<1>2. ASSUME NEW saved \in BOOLEAN, NEW class \in Classes,
             RequestMission(m, class, saved)
      PROVE  [Account!AccountNext]_(Account!accountVars)
  <2> DEFINE rec == [Absent EXCEPT !.state = "REQUESTED", !.class = class]
  <2>1. rec \in Record
    BY ClassAssumption DEF Absent, Record, SideEffectClass, MissionLifecycleState
  <2>2. ~Known(mem[m])
    BY <1>1, <1>2 DEF RequestMission, In, Shape, Known
  <2>3. up /\ Store(m, rec, saved) /\ Bookkeeping
    BY <1>2 DEF RequestMission, In
  <2> HIDE DEF rec
  <2>4. QED
    BY <2>1, <2>2, <2>3, StoreAccount
<1>3. ASSUME NEW saved \in BOOLEAN, NEW s \in MissionLifecycleState, up,
             Store(m, [mem[m] EXCEPT !.state = s], saved), Bookkeeping
      PROVE  [Account!AccountNext]_(Account!accountVars)
  <2> DEFINE rec == [mem[m] EXCEPT !.state = s]
  <2>1. rec \in Record /\ rec.outcome = mem[m].outcome
    BY <1>1 DEF Record
  <2>2. Store(m, rec, saved)
    BY <1>3
  <2> HIDE DEF rec
  <2>3. QED
    BY <1>3, <2>1, <2>2, StoreAccount
<1>4. ASSUME NEW saved \in BOOLEAN,
             \/ AwaitingApproval(m, saved) \/ Approved(m, saved)
             \/ Executing(m, saved) \/ CancelMission(m, saved)
      PROVE  [Account!AccountNext]_(Account!accountVars)
  BY <1>3, <1>4 DEF AwaitingApproval, Approved, Executing, CancelMission, In,
                    MissionLifecycleState
<1>5. ASSUME NEW saved \in BOOLEAN,
             NEW outcome \in {"COMPLETED", "FAILED", "UNKNOWN"},
             NEW reason \in Reported, RecordOutcome(m, outcome, reason, saved)
      PROVE  [Account!AccountNext]_(Account!accountVars)
  <2>1. AfterOutcome(m, outcome, reason) \in Record /\ ~Known(mem[m])
    BY <1>1, <1>5, AfterOutcomeRecord DEF RecordOutcome, In, Shape, Known
  <2>2. QED
    BY <1>5, <2>1, StoreAccount DEF RecordOutcome, In
<1>6. ASSUME NEW saved \in BOOLEAN, NEW outcome \in {"COMPLETED", "FAILED"},
             ReconcileResolve(m, outcome, saved)
      PROVE  [Account!AccountNext]_(Account!accountVars)
  <2> DEFINE rec == [mem[m] EXCEPT !.state = outcome, !.outcome = outcome,
                                   !.status = "RESOLVED"]
  <2>1. rec \in Record /\ ~Known(mem[m])
    BY <1>1, <1>6 DEF ReconcileResolve, In, Shape, Known, Record,
                      MissionLifecycleState
  <2>2. up /\ Store(m, rec, saved) /\ Bookkeeping
    BY <1>6 DEF ReconcileResolve, In
  <2> HIDE DEF rec
  <2>3. QED
    BY <2>1, <2>2, StoreAccount
<1>7. ASSUME CanRecordIntent(m)
      PROVE  /\ ~Known(disk[m])
             /\ WithIntent(m) \in Record /\ IntentReady(m) \in Record
  <2>1. up /\ mem[m].outcome = "none"
    BY <1>1, <1>7 DEF CanRecordIntent, In, Shape
  <2>2. ~Known(disk[m])
    BY <2>1 DEF IInv, Behind, Known
  <2>3. QED
    BY <1>1, <2>2 DEF WithIntent, IntentReady, Record, MissionLifecycleState
<1>8. ASSUME NEW saves \in 0..2, RecordIntent(m, saves)
      PROVE  [Account!AccountNext]_(Account!accountVars)
  <2>1. contacts' = contacts /\ CanRecordIntent(m)
    BY <1>8 DEF RecordIntent, Bookkeeping
  <2>2. CASE saves = 0
    BY <1>8, <2>1, <2>2 DEF RecordIntent, Account!accountVars, Settled
  <2>3. CASE saves = 1
    <3>1. disk' = [disk EXCEPT ![m] = WithIntent(m)]
      BY <1>8, <2>3 DEF RecordIntent
    <3>2. QED
      BY <1>7, <2>1, <3>1, DiskStep
  <2>4. CASE saves = 2
    <3>1. disk' = [disk EXCEPT ![m] = IntentReady(m)]
      BY <1>8, <2>4 DEF RecordIntent
    <3>2. QED
      BY <1>7, <2>1, <3>1, DiskStep
  <2>5. QED
    BY <2>2, <2>3, <2>4
<1>9. ASSUME CrashInIntent(m)
      PROVE  [Account!AccountNext]_(Account!accountVars)
  BY <1>7, <1>9, DiskStep DEF CrashInIntent, ProcessEnds
<1>10. QED
  BY <1>2, <1>4, <1>5, <1>6, <1>8, <1>9 DEF ManagerNext

LEMMA AccountStep ==
  ASSUME IInv, [MissionNext]_missionVars PROVE [Account!AccountNext]_(Account!accountVars)
<1>1. ASSUME NEW m \in Mission, ManagerNext(m)
      PROVE  [Account!AccountNext]_(Account!accountVars)
  BY <1>1, ManagerAccount
<1>2. ASSUME NEW m \in Mission, Contact(m)
      PROVE  [Account!AccountNext]_(Account!accountVars)
  <2>1. contacts[m] = 0 /\ Settled[m] = "none"
    BY <1>2 DEF Contact, IInv, Once, Settled
  <2>2. contacts' = [contacts EXCEPT ![m] = 1] /\ Settled' = Settled
    BY <1>2, <2>1 DEF Contact, Settled, IInv, MissionTypeOK
  <2>3. Account!ContactOnce(m)
    BY <2>1, <2>2 DEF Account!ContactOnce
  <2>4. QED
    BY <2>3 DEF Account!AccountNext
<1>3. CASE ReconciliationNext \/ Crash \/ Restart \/ UNCHANGED missionVars
  <2>1. contacts' = contacts /\ disk' = disk
    BY <1>3 DEF ReconciliationNext, RecoverAfterRestart, RecoveryFails, BeginReview,
                Resolve, manager, Crash, ProcessEnds, Restart, missionVars
  <2>2. QED
    BY <2>1 DEF Account!accountVars, Settled
<1>4. QED
  BY <1>1, <1>2, <1>3 DEF MissionNext

(* The manager implements AccountedEffect: one contact per mission and one
   settled outcome in the store, whatever fails and however often the process
   is replaced. *)
THEOREM ManagerKeepsAccount == MissionSpec => KeepsAccount
<1>1. MissionInit => Account!AccountInit
  <2>1. ASSUME MissionInit PROVE Settled = [m \in Mission |-> "none"]
    <3>1. \A m \in Mission : disk[m].outcome = "none"
      BY <2>1 DEF MissionInit, Absent
    <3>2. QED
      BY <3>1 DEF Settled
  <2>2. QED
    BY <2>1 DEF MissionInit, Account!AccountInit
<1>2. QED
  BY <1>1, Invariance, AccountStep, PTL DEF MissionSpec, KeepsAccount, Account!AccountSpec
=============================================================================
