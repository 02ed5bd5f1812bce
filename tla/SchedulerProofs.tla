---------------------------- MODULE SchedulerProofs ----------------------------
(***************************************************************************)
(* What the scheduler guarantees for every set of tasks, priorities and    *)
(* readers, and for any number of timers.                                  *)
(***************************************************************************)
EXTENDS TaskQueue, TaskTimers, TLAPS

-----------------------------------------------------------------------------
(* The task queue                                                          *)

(* What counts is in the heap, under its own task. *)
IndexedInHeap ==
  \A t \in QTask : index[t] # NoTask => index[t] \in heap /\ index[t].task = t

(* Every entry has a number of its own, up to the last one given. *)
NumberedOnce ==
  /\ \A e \in heap : e.seq <= seq
  /\ \A e, f \in heap : e.seq = f.seq => e = f

(* A reader falls asleep on an empty heap only, and is woken by every entry. *)
SleepersHaveNoHeap == \A c \in Reader : reader[c] = "waiting" => heap = {}

QueueInv ==
  QueueTypeOK /\ IndexedInHeap /\ NumberedOnce /\ SleepersHaveNoHeap

LEMMA QueueInitial == QueueInit => QueueInv
BY DEF QueueInit, QueueInv, QueueTypeOK, IndexedInHeap, NumberedOnce,
       SleepersHaveNoHeap

(* The entry that Insert adds. *)
NewEntry(t, p) == [task |-> t, priority |-> p, seq |-> seq + 1]

LEMMA NewEntryTyped ==
  ASSUME QueueInv, NEW t \in QTask, NEW p \in Priority
  PROVE  NewEntry(t, p) \in Entry /\ NewEntry(t, p) # NoTask
BY NoTaskAssumption DEF NewEntry, Entry, QueueInv, QueueTypeOK

LEMMA InsertKeeps ==
  ASSUME QueueInv, NEW t \in QTask, NEW p \in Priority, Insert(t, p),
         queueStatus' \in [QTask -> {"pending", "queued", "cancelled"}],
         UNCHANGED got
  PROVE  QueueInv'
<1> DEFINE new == NewEntry(t, p)
<1>1. new \in Entry /\ new # NoTask /\ new.task = t /\ new.seq = seq + 1
  BY NewEntryTyped DEF NewEntry
<1>2. /\ heap' = heap \cup {new}
      /\ index' = [index EXCEPT ![t] = new]
      /\ seq' = seq + 1
      /\ reader' = NotifyAll
  BY DEF Insert, NewEntry
<1>3. seq \in Nat /\ heap \subseteq Entry /\ index \in [QTask -> Entry \cup {NoTask}]
  BY DEF QueueInv, QueueTypeOK
<1> HIDE DEF new
<1>4. QueueTypeOK'
  <2>1. heap' \subseteq Entry /\ index' \in [QTask -> Entry \cup {NoTask}] /\ seq' \in Nat
    BY <1>1, <1>2, <1>3
  <2>2. reader' \in [Reader -> {"idle", "waiting", "woken", "late"}]
    BY <1>2 DEF NotifyAll, QueueInv, QueueTypeOK
  <2> QED BY <2>1, <2>2 DEF QueueTypeOK, QueueInv
<1>5. IndexedInHeap'
  BY <1>1, <1>2, <1>3 DEF IndexedInHeap, QueueInv
<1>6. NumberedOnce'
  <2>1. \A e \in heap : e.seq \in Nat /\ e.seq <= seq /\ e.seq # new.seq
    BY <1>1, <1>3 DEF QueueInv, NumberedOnce, Entry
  <2> QED BY <2>1, <1>1, <1>2, <1>3 DEF NumberedOnce, QueueInv
<1>7. SleepersHaveNoHeap'
  BY <1>2 DEF SleepersHaveNoHeap, NotifyAll, QueueInv, QueueTypeOK
<1> QED BY <1>4, <1>5, <1>6, <1>7 DEF QueueInv

(* A step that only takes entries out of the heap and the index. *)
LEMMA RemovalKeeps ==
  ASSUME QueueInv, heap' \subseteq heap, seq' = seq,
         \A t \in QTask : index'[t] # NoTask => index'[t] = index[t] /\ index[t] \in heap',
         index' \in [QTask -> Entry \cup {NoTask}],
         queueStatus' \in [QTask -> {"pending", "queued", "cancelled"}],
         reader' \in [Reader -> {"idle", "waiting", "woken", "late"}],
         got' \in [Reader -> QTask \cup {NoTask}],
         \A c \in Reader : reader'[c] = "waiting" => heap = {}
  PROVE  QueueInv'
<1>1. QueueTypeOK'
  BY DEF QueueInv, QueueTypeOK
<1>2. IndexedInHeap' /\ NumberedOnce' /\ SleepersHaveNoHeap'
  BY DEF QueueInv, IndexedInHeap, NumberedOnce, SleepersHaveNoHeap
<1> QED BY <1>1, <1>2 DEF QueueInv

LEMMA PopKeeps ==
  ASSUME QueueInv, NEW c \in Reader, Pop(c)
  PROVE  QueueInv'
<1>1. /\ QueueTypeOK
      /\ IndexedInHeap
      /\ SleepersHaveNoHeap
  BY DEF QueueInv
<1>2. /\ reader' \in [Reader -> {"idle", "waiting", "woken", "late"}]
      /\ \A d \in Reader : reader'[d] = "waiting" => heap = {}
      /\ seq' = seq
      /\ queueStatus' = queueStatus
  BY <1>1 DEF Pop, QueueTypeOK, SleepersHaveNoHeap
<1>3. CASE /\ \A e \in heap : ~Valid(e)
           /\ heap' = {}
           /\ got' = [got EXCEPT ![c] = NoTask]
           /\ UNCHANGED index
  <2>1. \A t \in QTask : index[t] = NoTask
    BY <1>1, <1>3 DEF IndexedInHeap, Valid
  <2> QED BY <1>1, <1>2, <1>3, <2>1, RemovalKeeps DEF QueueTypeOK
<1>4. ASSUME NEW e \in heap, Valid(e),
             \A f \in heap : Valid(f) => f = e \/ EntryBefore(e, f),
             heap' = {f \in heap : EntryBefore(e, f)},
             index' = [index EXCEPT ![e.task] = NoTask],
             got' = [got EXCEPT ![c] = e.task]
      PROVE QueueInv'
  <2>1. e \in Entry /\ e.task \in QTask
    BY <1>1 DEF QueueTypeOK, Entry
  <2>2. ASSUME NEW t \in QTask, index'[t] # NoTask
        PROVE  index'[t] = index[t] /\ index[t] \in heap'
    <3>1. t # e.task /\ index'[t] = index[t]
      BY <1>1, <1>4, <2>1, <2>2 DEF QueueTypeOK
    <3>2. index[t] \in heap /\ index[t].task = t
      BY <1>1, <2>2, <3>1 DEF IndexedInHeap
    <3>3. Valid(index[t]) /\ index[t] # e
      BY <3>1, <3>2 DEF Valid
    <3> QED BY <1>4, <3>1, <3>2, <3>3
  <2>3. /\ index' \in [QTask -> Entry \cup {NoTask}]
        /\ got' \in [Reader -> QTask \cup {NoTask}]
    BY <1>1, <1>4, <2>1 DEF QueueTypeOK
  <2> QED BY <1>1, <1>2, <1>4, <2>2, <2>3, RemovalKeeps DEF QueueTypeOK
<1> QED BY <1>3, <1>4 DEF Pop

LEMMA TaskQueueStep == ASSUME QueueInv, [QueueNext]_queueVars PROVE QueueInv'
<1>1. ASSUME NEW t \in QTask, NEW p \in Priority, Enqueue(t, p) PROVE QueueInv'
  <2>1. queueStatus' \in [QTask -> {"pending", "queued", "cancelled"}]
    BY <1>1 DEF Enqueue, QueueInv, QueueTypeOK
  <2> QED BY <1>1, <2>1, InsertKeeps DEF Enqueue
<1>2. ASSUME NEW t \in QTask, NEW p \in Priority, Promote(t, p) PROVE QueueInv'
  BY <1>2, InsertKeeps DEF Promote, QueueInv, QueueTypeOK
<1>3. CASE Drain
  <2>1. /\ reader' \in [Reader -> {"idle", "waiting", "woken", "late"}]
        /\ \A c \in Reader : reader'[c] # "waiting"
    BY <1>3 DEF Drain, NotifyAll, QueueInv, QueueTypeOK
  <2>2. index' = [t \in QTask |-> NoTask]
    BY <1>3 DEF Drain, QueueInv, IndexedInHeap
  <2>3. queueStatus' \in [QTask -> {"pending", "queued", "cancelled"}]
    BY <1>3 DEF Drain, QueueInv, QueueTypeOK
  <2>4. heap' = {} /\ UNCHANGED <<seq, got>>
    BY <1>3 DEF Drain
  <2> QED BY <2>1, <2>2, <2>3, <2>4, RemovalKeeps DEF QueueInv, QueueTypeOK
<1>4. ASSUME NEW c \in Reader, Dequeue(c) PROVE QueueInv'
  BY <1>4, PopKeeps DEF Dequeue
<1>5. ASSUME NEW c \in Reader, WaitExpires(c) \/ ReturnNone(c) PROVE QueueInv'
  BY <1>5 DEF WaitExpires, ReturnNone, QueueInv, QueueTypeOK, IndexedInHeap, NumberedOnce,
              SleepersHaveNoHeap
<1>6. ASSUME NEW c \in Reader, Wait(c) PROVE QueueInv'
  BY <1>6 DEF Wait, QueueInv, QueueTypeOK, IndexedInHeap, NumberedOnce,
              SleepersHaveNoHeap
<1>7. CASE UNCHANGED queueVars
  BY <1>7 DEF queueVars, QueueInv, QueueTypeOK, IndexedInHeap, NumberedOnce,
              SleepersHaveNoHeap
<1> QED BY <1>1, <1>2, <1>3, <1>4, <1>5, <1>6, <1>7 DEF QueueNext

LEMMA QueueInvariant == QueueSpec => []QueueInv
BY QueueInitial, TaskQueueStep, PTL DEF QueueSpec

(* Every variable of the queue keeps its type. *)
THEOREM QueueTypeCorrect == QueueSpec => []QueueTypeOK
<1>1. QueueInv => QueueTypeOK
  BY DEF QueueInv
<1> QED BY <1>1, QueueInvariant, PTL

(* No reader sleeps while a task waits, for every number of both. *)
THEOREM NoReaderSleepsOnWork == QueueSpec => []NoneSleepsOnWork
<1>1. QueueInv => NoneSleepsOnWork
  BY DEF QueueInv, NoneSleepsOnWork, IndexedInHeap, SleepersHaveNoHeap
<1> QED BY <1>1, QueueInvariant, PTL

(* The refinement of PriorityQueue: what waits and whose wait is over. *)

Counted == {index[t] : t \in {u \in QTask : index[u] # NoTask}}
Late == {c \in Reader : reader[c] = "late"}

LEMMA PutStep ==
  ASSUME QueueInv, NEW t \in QTask, NEW p \in Priority, Insert(t, p), UNCHANGED got
  PROVE  Promise!Put(t)
<1>0. Late' = Late
  BY DEF Late, Insert, NotifyAll, QueueInv, QueueTypeOK
<1> DEFINE new == NewEntry(t, p)
<1>1. new \in Entry /\ new # NoTask /\ new.task = t /\ new.seq = seq + 1
  BY NewEntryTyped DEF NewEntry
<1>2. index' = [index EXCEPT ![t] = new]
  BY DEF Insert, NewEntry
<1>3. /\ seq \in Nat
      /\ heap \subseteq Entry
      /\ index \in [QTask -> Entry \cup {NoTask}]
      /\ IndexedInHeap
      /\ NumberedOnce
  BY DEF QueueInv, QueueTypeOK
<1> HIDE DEF new
<1>4. \A e \in Counted : e.seq < new.seq
  <2>1. ASSUME NEW e \in Counted PROVE e.seq < new.seq
    <3>1. e \in heap
      BY <1>3 DEF Counted, IndexedInHeap
    <3>2. e.seq \in Nat /\ e.seq <= seq
      BY <1>3, <3>1 DEF NumberedOnce, Entry
    <3> QED BY <1>1, <1>3, <3>2
  <2> QED BY <2>1
<1>5. Counted' = {e \in Counted : e.task # t} \cup {new}
  <2>1. \A u \in QTask : index'[u] = IF u = t THEN new ELSE index[u]
    BY <1>2, <1>3
  <2>2. \A u \in QTask : index[u] # NoTask => index[u].task = u
    BY <1>3 DEF IndexedInHeap
  <2>3. Counted' = {index'[u] : u \in {v \in QTask : index'[v] # NoTask}}
    BY DEF Counted
  <2>4. ASSUME NEW e \in Counted' PROVE e \in {x \in Counted : x.task # t} \cup {new}
    <3>1. PICK u \in QTask : index'[u] # NoTask /\ e = index'[u]
      BY <2>3
    <3>2. CASE u = t
      BY <2>1, <3>1, <3>2
    <3>3. CASE u # t
      BY <2>1, <2>2, <3>1, <3>3 DEF Counted
    <3> QED BY <3>2, <3>3
  <2>5. ASSUME NEW e \in {x \in Counted : x.task # t} \cup {new} PROVE e \in Counted'
    <3>1. CASE e = new
      BY <1>1, <2>1, <2>3, <3>1
    <3>2. CASE e # new
      <4>1. e \in Counted /\ e.task # t
        BY <2>5, <3>2
      <4>2. PICK u \in QTask : index[u] # NoTask /\ e = index[u]
        BY <4>1 DEF Counted
      <4>3. u # t
        BY <2>2, <4>1, <4>2
      <4> QED BY <2>1, <2>3, <4>2, <4>3
    <3> QED BY <3>1, <3>2
  <2> QED BY <2>4, <2>5
<1>6. new \in Counted'
  BY <1>5
<1> QED BY <1>0, <1>1, <1>4, <1>5, <1>6 DEF Promise!Put, Counted, Late

LEMMA TakeStep ==
  ASSUME QueueInv, NEW c \in Reader, Dequeue(c)
  PROVE  Promise!Take(c) \/ Promise!GoEmpty(c)
<1>0. Pop(c) /\ c \notin Late /\ Late' = Late
  BY DEF Dequeue, Pop, Late, QueueInv, QueueTypeOK
<1>1. /\ heap \subseteq Entry
      /\ index \in [QTask -> Entry \cup {NoTask}]
      /\ IndexedInHeap
  BY DEF QueueInv, QueueTypeOK
<1>2. CASE /\ \A e \in heap : ~Valid(e)
           /\ got' = [got EXCEPT ![c] = NoTask]
           /\ UNCHANGED index
  <2>1. Counted = {} /\ Counted' = {}
    BY <1>1, <1>2 DEF IndexedInHeap, Valid, Counted
  <2>2. Late' = Late \ {c}
    BY <1>0
  <2> QED BY <1>2, <2>1, <2>2 DEF Promise!GoEmpty, Counted, Late
<1>3. ASSUME NEW e \in heap, Valid(e),
             \A f \in heap : Valid(f) => f = e \/ EntryBefore(e, f),
             index' = [index EXCEPT ![e.task] = NoTask],
             got' = [got EXCEPT ![c] = e.task]
      PROVE Promise!Take(c)
  <2>1. e \in Entry /\ e.task \in QTask /\ index[e.task] = e /\ e # NoTask
    BY <1>1, <1>3, NoTaskAssumption DEF Entry, Valid
  <2>2. e \in Counted
    BY <2>1 DEF Counted
  <2>3. ASSUME NEW f \in Counted \ {e} PROVE Promise!Before(e, f)
    <3>1. PICK t \in QTask : index[t] # NoTask /\ f = index[t]
      BY DEF Counted
    <3>2. f \in heap /\ Valid(f)
      BY <1>1, <3>1 DEF IndexedInHeap, Valid
    <3> QED BY <1>3, <2>3, <3>2 DEF EntryBefore, Promise!Before
  <2>4. Counted' = Counted \ {e}
    <3>1. Counted' = {index'[u] : u \in {v \in QTask : index'[v] # NoTask}}
      BY DEF Counted
    <3>2. \A u \in QTask : index'[u] = IF u = e.task THEN NoTask ELSE index[u]
      BY <1>1, <1>3, <2>1
    <3>3. \A u \in QTask : index[u] # NoTask => index[u].task = u
      BY <1>1 DEF IndexedInHeap
    <3>4. ASSUME NEW f \in Counted' PROVE f \in Counted \ {e}
      <4>1. PICK u \in QTask : index'[u] # NoTask /\ f = index'[u]
        BY <3>1
      <4>2. u # e.task /\ f = index[u]
        BY <3>2, <4>1
      <4> QED BY <3>3, <4>1, <4>2 DEF Counted
    <3>5. ASSUME NEW f \in Counted \ {e} PROVE f \in Counted'
      <4>1. PICK u \in QTask : index[u] # NoTask /\ f = index[u]
        BY DEF Counted
      <4>2. u # e.task
        BY <2>1, <3>5, <4>1
      <4> QED BY <3>1, <3>2, <4>1, <4>2
    <3> QED BY <3>4, <3>5
  <2> QED BY <1>0, <1>3, <2>2, <2>3, <2>4 DEF Promise!Take, Counted, Late
<1> QED BY <1>0, <1>2, <1>3 DEF Pop

LEMMA QueueRefinesInit == QueueInit => Promise!PriorityInit
BY DEF QueueInit, Promise!PriorityInit

LEMMA QueueRefinesNext ==
  ASSUME QueueInv, [QueueNext]_queueVars
  PROVE  [Promise!PriorityNext]_<<Counted, Late, got>>
<1>1. ASSUME NEW t \in QTask, NEW p \in Priority, Enqueue(t, p) \/ Promote(t, p)
      PROVE  Promise!PriorityNext
  <2>1. Promise!Put(t)
    BY <1>1, PutStep DEF Enqueue, Promote
  <2> QED BY <2>1 DEF Promise!PriorityNext
<1>2. ASSUME Drain PROVE Promise!PriorityNext
  <2>1. index' = [t \in QTask |-> NoTask] /\ UNCHANGED got
    BY <1>2 DEF Drain, QueueInv, IndexedInHeap
  <2>2. Counted' = {}
    BY <2>1 DEF Counted
  <2>3. Late' = Late
    BY <1>2 DEF Drain, NotifyAll, Late, QueueInv, QueueTypeOK
  <2> QED BY <2>1, <2>2, <2>3 DEF Promise!PriorityNext, Promise!TakeAll, Counted, Late
<1>3. ASSUME NEW c \in Reader, Dequeue(c) PROVE Promise!PriorityNext
  BY <1>3, TakeStep DEF Promise!PriorityNext
<1>4. ASSUME NEW c \in Reader, ReturnNone(c) PROVE Promise!PriorityNext
  <2>1. Counted' = Counted /\ got' = [got EXCEPT ![c] = NoTask]
    BY <1>4 DEF ReturnNone, Counted
  <2>2. Late' = Late \ {c}
    BY <1>4 DEF ReturnNone, Late, QueueInv, QueueTypeOK
  <2>3. Counted = {} \/ c \in Late
    BY <1>4 DEF ReturnNone, Late, Counted, QueueInv, IndexedInHeap
  <2>4. Promise!GoEmpty(c)
    BY <2>1, <2>2, <2>3 DEF Promise!GoEmpty, Counted, Late
  <2> QED BY <2>4 DEF Promise!PriorityNext
<1>5. ASSUME NEW c \in Reader, WaitExpires(c) PROVE Promise!PriorityNext
  <2>1. Late' = Late \cup {c} /\ Counted' = Counted /\ got' = got
    BY <1>5 DEF WaitExpires, Late, Counted, QueueInv, QueueTypeOK
  <2> QED BY <2>1 DEF Promise!PriorityNext, Promise!Expire, Counted, Late
<1>6. ASSUME NEW c \in Reader, Wait(c) PROVE UNCHANGED <<Counted, Late, got>>
  BY <1>6 DEF Wait, Counted, Late, QueueInv, QueueTypeOK
<1>7. CASE UNCHANGED queueVars
  BY <1>7 DEF queueVars, Counted, Late
<1> QED BY <1>1, <1>2, <1>3, <1>4, <1>5, <1>6, <1>7 DEF QueueNext

(* The heap with its invalid entries implements PriorityQueue: tasks leave it
   in the order of their priorities, each once. *)
THEOREM QueueKeepsOrder == QueueSpec => KeepsOrder
<1>1. QueueInv /\ [QueueNext]_queueVars =>
        [Promise!PriorityNext]_<<{index[t] : t \in {u \in QTask : index[u] # NoTask}},
                                 {c \in Reader : reader[c] = "late"}, got>>
  BY QueueRefinesNext DEF Counted, Late
<1> QED BY <1>1, QueueInvariant, QueueRefinesInit, PTL
        DEF QueueSpec, KeepsOrder, Promise!PrioritySpec

-----------------------------------------------------------------------------
(* The task timers                                                         *)

Armed(k, t) == chain[k].pc = "armed" /\ chain[k].task = t
At(c, pc, t) == api[c].pc = pc /\ api[c].task = t

(* Whoever is at work is at work on a task. *)
WorkHasTask ==
  /\ \A k \in Chain : chain[k].pc # "free" => chain[k].task \in Timed
  /\ \A k \in Chain : chain[k].pc = "fired" => chain[k].task \in Recurring
  /\ \A c \in Client :
       IF api[c].pc \in {"idle", "clear"}
         THEN api[c].task = NoTimed
         ELSE api[c].task \in Timed /\ taskStatus[api[c].task] # "none"

(* A call that has a timer to store has started it for its own task, and one
   that has a timer to stop has written the status that goes with it. *)
CallsHold ==
  \A c \in Client :
    /\ IF api[c].pc = "store"
         THEN /\ api[c].timer \in Chain
              /\ chain[api[c].timer].pc # "free" =>
                   chain[api[c].timer].task = api[c].task
         ELSE api[c].timer = NoChain
    /\ api[c].pc = "disarm" => api[c].wrote \in {"cancelled", "paused"}

(* What the call under way on a task has written stays behind the task, unless
   another call overlaps it. *)
CallAlone ==
  \A t \in Timed \ overlapped, c \in Client : api[c].task = t =>
    /\ \A d \in Client : api[d].task = t => c = d
    /\ told[t] = "nothing"
    /\ api[c].pc # "disarm" => taskStatus[t] # "paused"

(* The armed timer of a one-time task is the one in its slot, or about to be. *)
ArmedInSlot ==
  \A t \in OneTime \ overlapped, k \in Chain : Armed(k, t) =>
    \/ slot[t] = k /\ ~\E c \in Client : At(c, "store", t)
    \/ \E c \in Client : At(c, "store", t) /\ api[c].timer = k

(* When a one-time task has no armed timer. *)
Disarmed(t) ==
  \/ taskStatus[t] = "none"
  \/ taskStatus[t] = "paused" /\ ~\E c \in Client : At(c, "disarm", t)
  \/ \E c \in Client : At(c, "arm", t) \/ At(c, "create", t)
  \/ told[t] = "stopped"

DisarmedNotArmed ==
  \A t \in OneTime \ overlapped : Disarmed(t) => \A k \in Chain : ~Armed(k, t)

TimersInv ==
  /\ TimersTypeOK /\ WorkHasTask /\ CallsHold /\ CallAlone /\ ArmedInSlot
  /\ DisarmedNotArmed /\ CancelHolds

LEMMA TimersInitial == TimersInit => TimersInv
<1> SUFFICES ASSUME TimersInit PROVE TimersInv
  OBVIOUS
<1>1. \A k \in Chain : chain[k].pc = "free" /\ chain[k].task = NoTimed
  BY DEF TimersInit, Free
<1>2. \A c \in Client : api[c].pc = "idle" /\ api[c].task = NoTimed /\ api[c].timer = NoChain
  BY DEF TimersInit, Idle
<1>3. \A t \in Timed : told[t] = "nothing" /\ t # NoTimed
  BY TimedAssumption DEF TimersInit
<1>4. TimersTypeOK
  BY DEF TimersInit, TimersTypeOK, Statuses, Idle, Free
<1>5. CancelHolds
  BY <1>3 DEF CancelHolds
<1> QED BY <1>1, <1>2, <1>3, <1>4, <1>5
        DEF TimersInv, WorkHasTask, CallsHold, CallAlone, ArmedInSlot,
            DisarmedNotArmed, Disarmed, Armed, At, Timed

(* The locked part of a call, whichever it is. *)
LEMMA BeginKeeps ==
  ASSUME TimersInv, NEW c \in Client, NEW t \in Timed,
         NEW s \in {"pending", "cancelled", "paused"}, NEW pc \in {"arm", "disarm"},
         Begin(c, t, s, pc),
         IF pc = "arm" THEN s = "pending" /\ taskStatus[t] \in {"none", "paused"}
                       ELSE s # "pending"
  PROVE  TimersInv'
<1> USE TimedAssumption DEF TimersInv, Idle, Timed
<1>1. /\ api[c].pc = "idle" /\ api[c].task = NoTimed
      /\ api'[c] = [task |-> t, wrote |-> s, pc |-> pc, timer |-> NoChain]
      /\ \A d \in Client : d # c => api'[d] = api[d]
      /\ UNCHANGED <<chain, slot, ticking>>
  BY DEF Begin, TimersTypeOK
<1>2. /\ taskStatus'[t] = s /\ told'[t] = "nothing"
      /\ \A u \in Timed : u # t => taskStatus'[u] = taskStatus[u] /\ told'[u] = told[u]
  BY DEF Begin, TimersTypeOK
<1>3. /\ overlapped \subseteq overlapped'
      /\ t \notin overlapped' => \A d \in Client : api[d].task # t
      /\ \A u \in overlapped' : u # t => u \in overlapped
  BY DEF Begin
<1>4. TimersTypeOK'
  BY DEF Begin, TimersTypeOK, Statuses
<1>5. WorkHasTask'
  BY <1>1, <1>2 DEF WorkHasTask
<1>6. CallsHold'
  BY <1>1 DEF CallsHold
<1>7. CallAlone'
  <2> SUFFICES ASSUME NEW u \in Timed, u \notin overlapped', NEW d \in Client, api'[d].task = u
               PROVE  /\ \A e \in Client : api'[e].task = u => d = e
                      /\ told'[u] = "nothing"
                      /\ api'[d].pc # "disarm" => taskStatus'[u] # "paused"
    BY DEF CallAlone
  <2>1. CASE u = t
    BY <1>1, <1>2, <1>3, <2>1
  <2>2. CASE u # t
    BY <1>1, <1>2, <1>3, <2>2 DEF CallAlone
  <2> QED BY <2>1, <2>2
<1>8. ArmedInSlot'
  BY <1>1, <1>3 DEF ArmedInSlot, Armed, At
<1>9. DisarmedNotArmed'
  <2> SUFFICES ASSUME NEW u \in OneTime, u \notin overlapped', Disarmed(u)',
                      NEW k \in Chain
               PROVE  ~Armed(k, u)
    BY <1>1 DEF DisarmedNotArmed, Armed
  <2>1. CASE u # t
    <3>1. Disarmed(u)
      BY <1>1, <1>2, <2>1 DEF Disarmed, At
    <3> QED BY <1>3, <3>1 DEF DisarmedNotArmed
  <2>2. CASE u = t
    <3>1. pc = "arm"
      BY <1>1, <1>2, <1>3, <2>2 DEF Disarmed, At
    <3>2. Disarmed(t)
      BY <1>3, <2>2, <3>1 DEF Disarmed, At
    <3> QED BY <1>3, <2>2, <3>2 DEF DisarmedNotArmed
  <2> QED BY <2>1, <2>2
<1>10. CancelHolds'
  BY <1>1, <1>2, <1>3 DEF CancelHolds, UnderWay
<1> QED BY <1>4, <1>5, <1>6, <1>7, <1>8, <1>9, <1>10

LEMMA StopKeeps ==
  ASSUME TimersInv, NEW c \in Client, Stop(c)
  PROVE  TimersInv'
<1> USE TimedAssumption DEF TimersInv, Idle, Timed
<1>1. /\ api[c].pc = "idle" /\ api[c].task = NoTimed /\ api'[c].pc = "clear"
      /\ api'[c].task = NoTimed /\ api'[c].timer = NoChain
      /\ \A d \in Client : d # c => api'[d] = api[d]
      /\ UNCHANGED <<taskStatus, chain, slot, overlapped>>
  BY DEF Stop, TimersTypeOK
<1>2. \A t \in Timed : /\ told'[t] = "stopped" <=> told[t] = "stopped"
                       /\ told[t] = "nothing" => told'[t] = "nothing"
  BY DEF Stop, Unarmed, TimersTypeOK
<1>3. TimersTypeOK'
  BY DEF Stop, Unarmed, TimersTypeOK, Statuses
<1>4. WorkHasTask' /\ CallsHold'
  BY <1>1 DEF WorkHasTask, CallsHold
<1>5. CallAlone'
  BY <1>1, <1>2 DEF CallAlone
<1>6. ArmedInSlot'
  BY <1>1 DEF ArmedInSlot, Armed, At
<1>7. DisarmedNotArmed'
  <2>1. \A t \in OneTime : Disarmed(t)' => Disarmed(t)
    BY <1>1, <1>2 DEF Disarmed, At
  <2> QED BY <1>1, <2>1 DEF DisarmedNotArmed, Armed
<1>8. CancelHolds'
  BY <1>1, <1>2 DEF CancelHolds, UnderWay
<1> QED BY <1>3, <1>4, <1>5, <1>6, <1>7, <1>8

LEMMA CreateTimerKeeps ==
  ASSUME TimersInv, NEW c \in Client, NEW k \in Chain, CreateTimer(c, k)
  PROVE  TimersInv'
<1> USE ChainAssumption, TimedAssumption DEF TimersInv, Free, Timed
<1> DEFINE t == api[c].task
<1>1. /\ api[c].pc = "create" /\ api'[c].pc = "store" /\ api'[c].task = t
      /\ api'[c].timer = k
      /\ \A d \in Client : d # c => api'[d] = api[d]
      /\ \A d \in Client : api[d].timer # k
      /\ UNCHANGED <<taskStatus, slot, told, overlapped>>
  BY DEF CreateTimer, TimersTypeOK
<1>2. /\ chain[k].pc = "free" /\ chain'[k] = [pc |-> "armed", task |-> t]
      /\ \A j \in Chain : j # k => chain'[j] = chain[j]
  BY DEF CreateTimer, TimersTypeOK
<1>3. t \in Timed /\ taskStatus[t] # "none"
  BY <1>1 DEF WorkHasTask
<1> HIDE DEF t
<1>4. TimersTypeOK'
  BY <1>3 DEF CreateTimer, TimersTypeOK, Statuses, t
<1>5. WorkHasTask'
  BY <1>1, <1>2, <1>3 DEF WorkHasTask
<1>6. CallsHold'
  BY <1>1, <1>2 DEF CallsHold
<1>7. CallAlone'
  BY <1>1 DEF CallAlone, t
<1>8. ArmedInSlot'
  <2> SUFFICES ASSUME NEW u \in OneTime \ overlapped, NEW j \in Chain, Armed(j, u)'
               PROVE  \/ slot[u] = j /\ ~\E d \in Client : At(d, "store", u)'
                      \/ \E d \in Client : At(d, "store", u)' /\ api'[d].timer = j
    BY <1>1 DEF ArmedInSlot
  <2>1. CASE j = k
    BY <1>1, <1>2, <2>1 DEF Armed, At
  <2>2. CASE j # k
    <3>1. Armed(j, u)
      BY <1>2, <2>2 DEF Armed
    <3>2. u # t
      BY <1>1, <3>1 DEF DisarmedNotArmed, Disarmed, At, t
    <3> QED BY <1>1, <3>1, <3>2 DEF ArmedInSlot, At
  <2> QED BY <2>1, <2>2
<1>9. DisarmedNotArmed'
  <2> SUFFICES ASSUME NEW u \in OneTime \ overlapped, Disarmed(u)', NEW j \in Chain
               PROVE  ~Armed(j, u)'
    BY <1>1 DEF DisarmedNotArmed
  <2>1. u # t
    <3> SUFFICES ASSUME u = t PROVE FALSE
      OBVIOUS
    <3>1. /\ told[t] = "nothing" /\ taskStatus[t] # "paused"
          /\ \A d \in Client : api[d].task = t => c = d
      BY <1>1, <1>3 DEF CallAlone, t
    <3> QED BY <1>1, <1>3, <3>1 DEF Disarmed, At
  <2>2. Disarmed(u)
    BY <1>1, <2>1 DEF Disarmed, At
  <2> QED BY <1>2, <2>1, <2>2 DEF DisarmedNotArmed, Armed
<1>10. CancelHolds'
  BY <1>1, <1>2 DEF CancelHolds, UnderWay
<1> QED BY <1>4, <1>5, <1>6, <1>7, <1>8, <1>9, <1>10

LEMMA StoreTimerKeeps ==
  ASSUME TimersInv, NEW c \in Client, StoreTimer(c)
  PROVE  TimersInv'
<1> USE ChainAssumption, TimedAssumption DEF TimersInv, Idle, Free, Timed
<1> DEFINE t == api[c].task
           k == api[c].timer
<1>1. /\ api[c].pc = "store" /\ api'[c] = Idle
      /\ \A d \in Client : d # c => api'[d] = api[d]
      /\ UNCHANGED <<taskStatus, chain, overlapped>>
  BY DEF StoreTimer, TimersTypeOK
<1>2. t \in Timed /\ k \in Chain /\ taskStatus[t] # "none"
  BY <1>1 DEF WorkHasTask, CallsHold
<1>3. /\ slot'[t] = IF OnTimer(k, t) THEN k ELSE NoChain
      /\ told'[t] \in {"armed", told[t]}
      /\ \A u \in Timed : u # t => slot'[u] = slot[u] /\ told'[u] = told[u]
  BY <1>2 DEF StoreTimer, TimersTypeOK
<1>4. TimersTypeOK'
  BY <1>2 DEF StoreTimer, TimersTypeOK, Statuses
<1> HIDE DEF t, k
<1>5. WorkHasTask' /\ CallsHold'
  BY <1>1 DEF WorkHasTask, CallsHold
<1>6. CallAlone'
  <2> SUFFICES ASSUME NEW u \in Timed \ overlapped, NEW d \in Client, api'[d].task = u
               PROVE  /\ \A e \in Client : api'[e].task = u => d = e
                      /\ told'[u] = "nothing"
                      /\ api'[d].pc # "disarm" => taskStatus[u] # "paused"
    BY <1>1 DEF CallAlone
  <2>1. d # c /\ api[d].task = u /\ u # t
    BY <1>1 DEF CallAlone, t
  <2> QED BY <1>1, <1>3, <2>1 DEF CallAlone
<1>7. ArmedInSlot'
  <2> SUFFICES ASSUME NEW u \in OneTime \ overlapped, NEW j \in Chain, Armed(j, u)
               PROVE  \/ slot'[u] = j /\ ~\E d \in Client : At(d, "store", u)'
                      \/ \E d \in Client : At(d, "store", u)' /\ api'[d].timer = j
    BY <1>1 DEF ArmedInSlot, Armed
  <2>1. CASE u # t
    <3>1. \A d \in Client : At(d, "store", u)' <=> At(d, "store", u)
      BY <1>1, <2>1 DEF At, t
    <3>2. \A d \in Client : At(d, "store", u) => api'[d] = api[d]
      BY <1>1, <2>1 DEF At, t
    <3> QED BY <1>3, <2>1, <3>1, <3>2 DEF ArmedInSlot
  <2>2. CASE u = t
    <3>1. At(c, "store", u) /\ \A d \in Client : api[d].task = u => c = d
      BY <1>1, <2>2 DEF At, CallAlone, t
    <3>2. j = k
      BY <3>1 DEF ArmedInSlot, At, k
    <3>3. \A d \in Client : ~At(d, "store", u)'
      BY <1>1, <3>1 DEF At
    <3> QED BY <1>3, <2>2, <3>2, <3>3 DEF OnTimer, Armed
  <2> QED BY <2>1, <2>2
<1>8. DisarmedNotArmed'
  <2>1. ASSUME NEW u \in OneTime \ overlapped, Disarmed(u)'
        PROVE  Disarmed(u)
    <3>1. told'[u] = "stopped" => told[u] = "stopped"
      BY <1>3
    <3>2. /\ \A d \in Client : At(d, "arm", u)' => At(d, "arm", u)
          /\ \A d \in Client : At(d, "create", u)' => At(d, "create", u)
          /\ \A d \in Client : At(d, "disarm", u) => At(d, "disarm", u)'
      BY <1>1 DEF At
    <3> QED BY <1>1, <2>1, <3>1, <3>2 DEF Disarmed
  <2> QED BY <1>1, <2>1 DEF DisarmedNotArmed, Armed
<1>9. CancelHolds'
  <2>1. \A u \in Timed : told'[u] = "stopped" => told[u] = "stopped"
    BY <1>3
  <2> QED BY <1>1, <2>1 DEF CancelHolds, UnderWay
<1> QED BY <1>4, <1>5, <1>6, <1>7, <1>8, <1>9

LEMMA DisarmKeeps ==
  ASSUME TimersInv, NEW c \in Client, Disarm(c)
  PROVE  TimersInv'
<1> USE TimedAssumption DEF TimersInv, Idle, Free, Timed
<1> DEFINE t == api[c].task
<1>1. /\ api[c].pc = "disarm" /\ api'[c] = Idle
      /\ \A d \in Client : d # c => api'[d] = api[d]
      /\ UNCHANGED <<taskStatus, overlapped>>
  BY DEF Disarm, TimersTypeOK
<1>2. \A k \in Chain :
        /\ chain'[k] = IF k = slot[t] /\ chain[k].pc = "armed" THEN Free ELSE chain[k]
        /\ \A u \in Timed : Armed(k, u)' => Armed(k, u) /\ k # slot[t]
  BY <1>1 DEF Disarm, Stopped, Armed, TimersTypeOK
<1>3. t \in Timed /\ taskStatus[t] # "none" /\ api[c].wrote \in {"cancelled", "paused"}
  BY <1>1 DEF WorkHasTask, CallsHold
<1>4. /\ \A u \in Timed : u # t => slot'[u] = slot[u] /\ told'[u] = told[u]
      /\ told'[t] = "stopped" => taskStatus[t] = api[c].wrote /\ ~UnderWay(t)
  BY <1>3 DEF Disarm, TimersTypeOK
<1>5. TimersTypeOK'
  BY <1>3 DEF Disarm, Stopped, TimersTypeOK, Statuses
<1> HIDE DEF t
<1>6. WorkHasTask'
  BY <1>1, <1>2 DEF WorkHasTask
<1>7. CallsHold'
  BY <1>1, <1>2 DEF CallsHold
<1>8. CallAlone'
  BY <1>1, <1>4 DEF CallAlone, t
<1>9. \A u \in OneTime : ~At(c, "store", u)' /\ ~At(c, "store", u)
  BY <1>1 DEF At
<1>10. \A u \in OneTime \ overlapped, k \in Chain : Armed(k, u)' =>
         u # t \/ \E d \in Client \ {c} : At(d, "store", u)
  BY <1>2, <1>9 DEF ArmedInSlot
<1>11. \A u \in OneTime \ overlapped, k \in Chain : Armed(k, u)' => u # t
  BY <1>1, <1>10 DEF CallAlone, At, t
<1>12. ArmedInSlot'
  <2> SUFFICES ASSUME NEW u \in OneTime \ overlapped, NEW k \in Chain, Armed(k, u)'
               PROVE  \/ slot'[u] = k /\ ~\E d \in Client : At(d, "store", u)'
                      \/ \E d \in Client : At(d, "store", u)' /\ api'[d].timer = k
    BY <1>1 DEF ArmedInSlot
  <2>1. Armed(k, u) /\ slot'[u] = slot[u]
    BY <1>2, <1>4, <1>11
  <2>2. \A d \in Client : At(d, "store", u)' <=> At(d, "store", u)
    BY <1>1, <1>9 DEF At
  <2>3. \A d \in Client : At(d, "store", u) => api'[d] = api[d]
    BY <1>1, <1>9
  <2> QED BY <2>1, <2>2, <2>3 DEF ArmedInSlot
<1>13. DisarmedNotArmed'
  <2> SUFFICES ASSUME NEW u \in OneTime \ overlapped, Disarmed(u)',
                      NEW k \in Chain, Armed(k, u)'
               PROVE  FALSE
    BY <1>1 DEF DisarmedNotArmed
  <2>1. Armed(k, u) /\ u # t
    BY <1>2, <1>11
  <2>2. Disarmed(u)
    BY <1>1, <1>4, <2>1 DEF Disarmed, At, t
  <2> QED BY <2>1, <2>2 DEF DisarmedNotArmed
<1>14. CancelHolds'
  <2>1. \A u \in Timed : UnderWay(u)' => UnderWay(u)
    BY <1>2 DEF UnderWay
  <2>2. \A u \in Timed : told'[u] = "stopped" /\ u # t => told[u] = "stopped"
    BY <1>4
  <2> QED BY <1>1, <1>3, <1>4, <2>1, <2>2 DEF CancelHolds
<1> QED BY <1>5, <1>6, <1>7, <1>8, <1>12, <1>13, <1>14

(* A recurring timer whose task may fire goes on to run it. *)
LEMMA CheckFireKeeps ==
  ASSUME TimersInv, NEW k \in Chain, CheckFire(k), MayFire(chain[k].task)
  PROVE  TimersInv'
<1> USE TimedAssumption DEF TimersInv, Timed
<1>1. /\ chain[k].pc = "fired" /\ chain'[k].pc = "due"
      /\ chain'[k].task = chain[k].task /\ chain[k].task \in Recurring
      /\ \A j \in Chain : j # k => chain'[j] = chain[j]
      /\ UNCHANGED <<taskStatus, slot, ticking, api, told, overlapped>>
  BY DEF CheckFire, Goto, TimersTypeOK, WorkHasTask
<1>2. TimersTypeOK'
  <2>1. chain' = [chain EXCEPT ![k].pc = "due"]
    BY DEF CheckFire, Goto
  <2> QED BY <1>1, <2>1 DEF TimersTypeOK
<1>3. WorkHasTask' /\ CallsHold' /\ CallAlone'
  BY <1>1 DEF WorkHasTask, CallsHold, CallAlone
<1>4. \A t \in OneTime, j \in Chain : Armed(j, t)' <=> Armed(j, t)
  BY <1>1 DEF Armed
<1>5. ArmedInSlot' /\ DisarmedNotArmed'
  BY <1>1, <1>4 DEF ArmedInSlot, DisarmedNotArmed, Disarmed, At
<1>6. CancelHolds'
  BY <1>1 DEF CancelHolds, UnderWay, MayFire
<1> QED BY <1>2, <1>3, <1>5, <1>6

LEMMA ThreadEndKeeps ==
  ASSUME TimersInv, NEW k \in Chain, ThreadEnds(k), chain[k].pc # "armed",
         UNCHANGED <<taskStatus, ticking, api, told, overlapped>>
  PROVE  TimersInv'
<1> USE DEF TimersInv, Free, Timed
<1>1. /\ chain'[k].pc = "free"
      /\ \A j \in Chain : j # k => chain'[j] = chain[j]
      /\ \A t \in Timed : slot[t] # k => slot'[t] = slot[t]
  BY DEF ThreadEnds, TimersTypeOK
<1>2. TimersTypeOK'
  BY DEF ThreadEnds, TimersTypeOK
<1>3. WorkHasTask' /\ CallsHold' /\ CallAlone'
  BY <1>1 DEF WorkHasTask, CallsHold, CallAlone
<1>4. ArmedInSlot'
  <2>1. \A t \in Timed, j \in Chain : Armed(j, t)' => Armed(j, t) /\ j # k
    BY <1>1 DEF Armed
  <2> QED BY <1>1, <2>1 DEF ArmedInSlot, At
<1>5. DisarmedNotArmed'
  BY <1>1 DEF DisarmedNotArmed, Disarmed, Armed, At
<1>6. CancelHolds'
  BY <1>1 DEF CancelHolds, UnderWay
<1> QED BY <1>2, <1>3, <1>4, <1>5, <1>6

LEMMA RearmKeeps ==
  ASSUME TimersInv, NEW k \in Chain, Rearm(k), chain[k].task \in Recurring
  PROVE  TimersInv'
<1> USE TimedAssumption DEF TimersInv, Timed
<1>1. /\ chain[k].pc = "ran" /\ chain'[k].pc = "armed" /\ chain'[k].task = chain[k].task
      /\ \A j \in Chain : j # k => chain'[j] = chain[j]
      /\ \A t \in OneTime : slot'[t] = slot[t]
      /\ UNCHANGED <<taskStatus, ticking, api, told, overlapped>>
  BY DEF Rearm, Goto, TimersTypeOK
<1>2. TimersTypeOK'
  BY DEF Rearm, Goto, TimersTypeOK
<1>3. WorkHasTask' /\ CallsHold' /\ CallAlone'
  BY <1>1 DEF WorkHasTask, CallsHold, CallAlone
<1>4. \A t \in OneTime, j \in Chain : Armed(j, t)' <=> Armed(j, t)
  BY <1>1 DEF Armed
<1>5. ArmedInSlot' /\ DisarmedNotArmed'
  BY <1>1, <1>4 DEF ArmedInSlot, DisarmedNotArmed, Disarmed, At
<1>6. CancelHolds'
  BY <1>1 DEF CancelHolds, UnderWay
<1> QED BY <1>2, <1>3, <1>5, <1>6

LEMMA TimersStep == ASSUME TimersInv, [TimersNext]_timerVars PROVE TimersInv'
<1> USE ChainAssumption, TimedAssumption
    DEF TimersInv, TimersTypeOK, WorkHasTask, CallsHold, CallAlone, ArmedInSlot,
        DisarmedNotArmed, Disarmed, CancelHolds, UnderWay, Armed, At, Idle, Free,
        Timed, Statuses
<1>1. CASE Start
  BY <1>1 DEF Start
<1>2. ASSUME NEW c \in Client, Stop(c) PROVE TimersInv'
  BY <1>2, StopKeeps
<1>3. ASSUME NEW c \in Client, Arm(c) PROVE TimersInv'
  BY <1>3 DEF Arm
<1>4. ASSUME NEW c \in Client, NEW k \in Chain, CreateTimer(c, k) PROVE TimersInv'
  BY <1>4, CreateTimerKeeps
<1>5. ASSUME NEW c \in Client, StoreTimer(c) PROVE TimersInv'
  BY <1>5, StoreTimerKeeps
<1>6. ASSUME NEW c \in Client, Disarm(c) PROVE TimersInv'
  BY <1>6, DisarmKeeps
<1>7. ASSUME NEW c \in Client, ClearTimers(c) PROVE TimersInv'
  BY <1>7 DEF ClearTimers, Stopped, Unarmed
<1>8. ASSUME NEW c \in Client, NEW t \in Timed,
             Schedule(c, t) \/ CancelTask(c, t) \/ Pause(c, t) \/ Resume(c, t)
      PROVE  TimersInv'
  <2>1. CASE Schedule(c, t) \/ Resume(c, t)
    <3>1. Begin(c, t, "pending", "arm") /\ taskStatus[t] \in {"none", "paused"}
      BY <2>1 DEF Schedule, Resume
    <3> QED BY <3>1, BeginKeeps
  <2>2. CASE CancelTask(c, t)
    BY <2>2, BeginKeeps DEF CancelTask
  <2>3. CASE Pause(c, t)
    BY <2>3, BeginKeeps DEF Pause
  <2> QED BY <1>8, <2>1, <2>2, <2>3
<1>9. ASSUME NEW k \in Chain, TimerFires(k) PROVE TimersInv'
  BY <1>9 DEF TimerFires, Goto
<1>10. ASSUME NEW k \in Chain, CheckFire(k) PROVE TimersInv'
  <2>1. CASE MayFire(chain[k].task)
    BY <1>10, <2>1, CheckFireKeeps
  <2>2. CASE ~MayFire(chain[k].task)
    BY <1>10, <2>2, ThreadEndKeeps DEF CheckFire
  <2> QED BY <2>1, <2>2
<1>11. ASSUME NEW k \in Chain, RunTask(k) PROVE TimersInv'
  BY <1>11 DEF RunTask, Goto
<1>12. ASSUME NEW k \in Chain, FunctionEnds(k) PROVE TimersInv'
  BY <1>12 DEF FunctionEnds, Outcomes, Goto
<1>13. ASSUME NEW k \in Chain, Rearm(k) PROVE TimersInv'
  <2>1. CASE chain[k].task \in Recurring
    BY <1>13, <2>1, RearmKeeps
  <2>2. CASE chain[k].task \notin Recurring
    BY <1>13, <2>2, ThreadEndKeeps DEF Rearm
  <2> QED BY <2>1, <2>2
<1>14. CASE UNCHANGED timerVars
  BY <1>14 DEF timerVars
<1> QED BY <1>1, <1>2, <1>3, <1>4, <1>5, <1>6, <1>7, <1>8, <1>9, <1>10, <1>11,
           <1>12, <1>13, <1>14
        DEF TimersNext, ClientStep, ChainStep

LEMMA TimersInvariant == TimersSpec => []TimersInv
BY TimersInitial, TimersStep, PTL DEF TimersSpec

(* Every variable of the timers keeps its type. *)
THEOREM TimersTypeCorrect == TimersSpec => []TimersTypeOK
<1>1. TimersInv => TimersTypeOK
  BY DEF TimersInv
<1> QED BY <1>1, TimersInvariant, PTL

(* A cancellation or a pause that returned while no run was under way stands
   until the next call on the task, however many threads call and whatever
   timers have lost their slots; for a one-time task, if no two calls on it
   have overlapped. *)
THEOREM CancellationHolds == TimersSpec => []CancelHolds
<1>1. TimersInv => CancelHolds
  BY DEF TimersInv
<1> QED BY <1>1, TimersInvariant, PTL

(* A slot names no timer of another task: disarming one task stops no other. *)
SlotsApart == \A t \in Timed, k \in Chain : slot[t] = k => chain[k].task = t

(* A recurring task whose last call armed it on a running scheduler has a
   timer, and neither its status nor stop() will end it when it fires. *)
ArmedHasTimer ==
  \A t \in Recurring : told[t] = "armed" =>
    /\ MayFire(t)
    /\ \E k \in Chain : OnTimer(k, t)

ToldInv == SlotsApart /\ ArmedHasTimer

(* What _fire does to a timer, from one firing to the next. *)
Round == {<<"armed", "fired">>, <<"fired", "due">>, <<"due", "running">>,
          <<"running", "ran">>, <<"ran", "armed">>}

(* No step but the timer's own touches a timer of such a task, and its own
   go round. *)
GoesRound(t, k) ==
  told[t] = "armed" /\ told'[t] = "armed" /\ OnTimer(k, t) =>
    \/ chain'[k] = chain[k]
    \/ chain'[k].task = t /\ <<chain[k].pc, chain'[k].pc>> \in Round

LEMMA ToldInitial == TimersInit => ToldInv
BY ChainAssumption
   DEF TimersInit, ToldInv, SlotsApart, ArmedHasTimer, Timed

LEMMA DisarmTold ==
  ASSUME TimersInv, ToldInv, NEW c \in Client, Disarm(c)
  PROVE  ToldInv' /\ \A t \in Recurring, k \in Chain : GoesRound(t, k)
<1> USE ChainAssumption, TimedAssumption DEF TimersInv, ToldInv
<1> DEFINE u == api[c].task
<1>1. /\ u \in Timed /\ told'[u] # "armed" /\ slot'[u] = NoChain
      /\ \A t \in Timed : t # u => slot'[t] = slot[t] /\ told'[t] = told[t]
      /\ UNCHANGED <<taskStatus, ticking>>
  BY DEF Disarm, TimersTypeOK, WorkHasTask
<1>2. \A k \in Chain : k # slot[u] => chain'[k] = chain[k]
  BY DEF Disarm, Stopped
<1> HIDE DEF u
<1>3. \A t \in Timed, k \in Chain : t # u /\ chain[k].task = t => chain'[k] = chain[k]
  BY <1>1, <1>2 DEF SlotsApart
<1>4. SlotsApart'
  <2> SUFFICES ASSUME NEW t \in Timed, NEW k \in Chain, slot'[t] = k
               PROVE  chain'[k].task = t
    BY DEF SlotsApart
  <2>1. t # u /\ slot[t] = k
    BY <1>1
  <2> QED BY <1>3, <2>1 DEF SlotsApart
<1>5. \A t \in Recurring : told'[t] = "armed" => t # u /\ told[t] = "armed"
  BY <1>1 DEF Timed
<1>6. ArmedHasTimer'
  BY <1>1, <1>3, <1>5 DEF ArmedHasTimer, OnTimer, MayFire, Timed
<1>7. \A t \in Recurring, k \in Chain : GoesRound(t, k)
  BY <1>3, <1>5 DEF GoesRound, OnTimer, Timed
<1> QED BY <1>4, <1>6, <1>7

LEMMA ToldStep ==
  ASSUME TimersInv, ToldInv, [TimersNext]_timerVars
  PROVE  ToldInv' /\ \A t \in Recurring, k \in Chain : GoesRound(t, k)
<1> USE ChainAssumption, TimedAssumption
    DEF TimersInv, TimersTypeOK, WorkHasTask, CallsHold, ToldInv, SlotsApart,
        ArmedHasTimer, OnTimer, GoesRound, MayFire, Armable, Idle, Free, Timed
<1> DEFINE Goal == ToldInv' /\ \A t \in Recurring, k \in Chain : GoesRound(t, k)
<1>1. CASE Start
  BY <1>1 DEF Start
<1>2. ASSUME NEW c \in Client, Stop(c) PROVE Goal
  BY <1>2 DEF Stop, Unarmed
<1>3. ASSUME NEW c \in Client, Arm(c) PROVE Goal
  BY <1>3 DEF Arm
<1>4. ASSUME NEW c \in Client, NEW k \in Chain, CreateTimer(c, k) PROVE Goal
  BY <1>4 DEF CreateTimer
<1>5. ASSUME NEW c \in Client, Disarm(c) PROVE Goal
  BY <1>5, DisarmTold
<1>6. ASSUME NEW c \in Client, ClearTimers(c) PROVE Goal
  BY <1>6 DEF ClearTimers, Stopped, Unarmed
<1>7. ASSUME NEW c \in Client, NEW t \in Timed, Schedule(c, t) PROVE Goal
  BY <1>7 DEF Schedule, Begin
<1>8. ASSUME NEW c \in Client, NEW t \in Timed, CancelTask(c, t) PROVE Goal
  BY <1>8 DEF CancelTask, Begin
<1>9. ASSUME NEW c \in Client, NEW t \in Timed, Pause(c, t) PROVE Goal
  BY <1>9 DEF Pause, Begin
<1>10. ASSUME NEW c \in Client, NEW t \in Timed, Resume(c, t) PROVE Goal
  BY <1>10 DEF Resume, Begin
<1>11. ASSUME NEW k \in Chain, TimerFires(k) PROVE Goal
  BY <1>11 DEF TimerFires, Goto, Round
<1>12. ASSUME NEW k \in Chain, CheckFire(k) PROVE Goal
  BY <1>12 DEF CheckFire, Goto, ThreadEnds, Round
<1>13. ASSUME NEW k \in Chain, RunTask(k) PROVE Goal
  BY <1>13 DEF RunTask, Goto, Round
<1>14. ASSUME NEW k \in Chain, FunctionEnds(k) PROVE Goal
  BY <1>14 DEF FunctionEnds, Outcomes, Goto, Round
<1>15. ASSUME NEW k \in Chain, Rearm(k) PROVE Goal
  BY <1>15 DEF Rearm, Goto, ThreadEnds, Round
<1>16. CASE UNCHANGED timerVars
  BY <1>16 DEF timerVars
<1>17. ASSUME NEW c \in Client, StoreTimer(c) PROVE Goal
  BY <1>17 DEF StoreTimer
<1> QED BY <1>1, <1>2, <1>3, <1>4, <1>5, <1>6, <1>7, <1>8, <1>9, <1>10, <1>11,
           <1>12, <1>13, <1>14, <1>15, <1>16, <1>17
        DEF TimersNext, ClientStep, ChainStep

LEMMA ToldInvariant == TimersSpec => [](TimersInv /\ ToldInv)
<1>1. TimersInv /\ ToldInv /\ [TimersNext]_timerVars => ToldInv'
  BY ToldStep
<1> QED BY <1>1, TimersInvariant, ToldInitial, PTL DEF TimersSpec

(* A recurring task that its last call armed never loses its timer to a
   failure, to another task's call or to a pause and resume that overlapped
   a run: what KeepsRunning needs of the states. *)
THEOREM ArmedTasksHaveTimers == TimersSpec => []ArmedHasTimer
<1>1. ToldInv => ArmedHasTimer
  BY DEF ToldInv
<1> QED BY <1>1, ToldInvariant, PTL

(* Every timer of such a task goes round from firing to running to firing
   and no step ends it: with timers that fire and functions that return,
   which is TimersFairSpec, the task runs again and again. *)
THEOREM ArmedTimersGoRound ==
  TimersSpec => [][\A t \in Recurring, k \in Chain : GoesRound(t, k)]_timerVars
<1>1. TimersInv /\ ToldInv /\ [TimersNext]_timerVars =>
        [\A t \in Recurring, k \in Chain : GoesRound(t, k)]_timerVars
  BY ToldStep
<1> QED BY <1>1, ToldInvariant, PTL DEF TimersSpec
=============================================================================
