------------------------------ MODULE TaskQueue ------------------------------
(***************************************************************************)
(* scheduler/task_queue.py: a heap whose entries are invalidated lazily    *)
(* and an index that says which entry of a task counts, under one lock,    *)
(* with readers that wait on its condition.                                *)
(*                                                                         *)
(* Every method body runs under the lock and is one action; a reader that  *)
(* waits gives the lock up.                                                *)
(***************************************************************************)
EXTENDS Naturals

CONSTANTS
  QTask,     \* task ids
  Priority,  \* the priorities in use, a subset of 1..10
  Reader,    \* threads that call dequeue
  NoTask,
  MaxSeq     \* bound: calls of enqueue and promote

VARIABLES
  heap,    \* _heap, as the set of its entries
  index,   \* _index
  seq,     \* _seq
  queueStatus,  \* the tasks' status, as far as the queue sets it
  reader,  \* where each reader is
  got      \* what each reader's last call returned

queueVars == <<heap, index, seq, queueStatus, reader, got>>

ASSUME PriorityAssumption == Priority \subseteq 1..10
ASSUME NoTaskAssumption ==
  NoTask \notin QTask \cup [task : QTask, priority : Priority, seq : Nat]

Entry == [task : QTask, priority : Priority, seq : Nat]

QueueTypeOK ==
  /\ heap \subseteq Entry
  /\ index \in [QTask -> Entry \cup {NoTask}]
  /\ seq \in Nat
  /\ queueStatus \in [QTask -> {"pending", "queued", "cancelled"}]
  /\ reader \in [Reader -> {"idle", "waiting", "woken", "late"}]
  /\ got \in [Reader -> QTask \cup {NoTask}]

QueueInit ==
  /\ heap = {}
  /\ index = [t \in QTask |-> NoTask]
  /\ seq = 0
  /\ queueStatus = [t \in QTask |-> "pending"]
  /\ reader = [c \in Reader |-> "idle"]
  /\ got = [c \in Reader |-> NoTask]

-----------------------------------------------------------------------------
EntryBefore(x, y) == \/ x.priority < y.priority
                     \/ x.priority = y.priority /\ x.seq < y.seq

(* notify_all *)
NotifyAll == [c \in Reader |->
                IF reader[c] = "waiting" THEN "woken" ELSE reader[c]]

(* Mutant: the entry is indexed and not pushed. *)
InsertIndexed(t, p) ==
  LET entry == [task |-> t, priority |-> p, seq |-> seq + 1] IN
  /\ seq < MaxSeq
  /\ seq' = seq + 1
  /\ heap' = IF index[t] = NoTask THEN heap \cup {entry} ELSE heap
  /\ index' = [index EXCEPT ![t] = entry]
  /\ reader' = NotifyAll

(* Mutant: nobody is notified. *)
InsertSilently(t, p) ==
  LET entry == [task |-> t, priority |-> p, seq |-> seq + 1] IN
  /\ seq < MaxSeq
  /\ seq' = seq + 1
  /\ heap' = heap \cup {entry}
  /\ index' = [index EXCEPT ![t] = entry]
  /\ UNCHANGED reader

(* A new entry; one that the task had stays in the heap, invalid. *)
Insert(t, p) ==
  LET entry == [task |-> t, priority |-> p, seq |-> seq + 1] IN
  /\ seq < MaxSeq
  /\ seq' = seq + 1
  /\ heap' = heap \cup {entry}
  /\ index' = [index EXCEPT ![t] = entry]
  /\ reader' = NotifyAll

Enqueue(t, p) ==
  /\ Insert(t, p)
  /\ queueStatus' = [queueStatus EXCEPT ![t] = "queued"]
  /\ UNCHANGED got

Promote(t, p) ==
  /\ index[t] # NoTask
  /\ p < index[t].priority
  /\ Insert(t, p)
  /\ UNCHANGED <<queueStatus, got>>

Drain ==
  /\ heap' = {}
  /\ index' = [t \in QTask |-> IF index[t] \in heap THEN NoTask ELSE index[t]]
  /\ queueStatus' = [t \in QTask |->
                  IF index[t] \in heap THEN "cancelled" ELSE queueStatus[t]]
  /\ reader' = NotifyAll
  /\ UNCHANGED <<seq, got>>

Valid(e) == index[e.task] = e

(* The reader holds the lock and the heap is not empty: entries are popped
   up to the first valid one.  There may be none: then None is returned. *)
Pop(c) ==
  /\ heap # {}
  /\ \/ /\ \A e \in heap : ~Valid(e)
        /\ heap' = {}
        /\ got' = [got EXCEPT ![c] = NoTask]
        /\ UNCHANGED index
     \/ \E e \in heap :
          /\ Valid(e)
          /\ \A f \in heap : Valid(f) => f = e \/ EntryBefore(e, f)
          /\ heap' = {f \in heap : EntryBefore(e, f)}
          /\ index' = [index EXCEPT ![e.task] = NoTask]
          /\ got' = [got EXCEPT ![c] = e.task]
  /\ reader' = [reader EXCEPT ![c] = "idle"]
  /\ UNCHANGED <<seq, queueStatus>>

Dequeue(c) == reader[c] \in {"idle", "woken"} /\ Pop(c)

(* wait() gives up and reports so, even if it is notified before it has the
   lock again. *)
WaitExpires(c) ==
  /\ reader[c] = "waiting"
  /\ reader' = [reader EXCEPT ![c] = "late"]
  /\ UNCHANGED <<heap, index, seq, queueStatus, got>>

(* dequeue(block=False) of an empty heap, or a wait that timed out, whatever
   the heap holds by then. *)
ReturnNone(c) ==
  /\ \/ reader[c] = "idle" /\ heap = {}
     \/ reader[c] = "late"
  /\ reader' = [reader EXCEPT ![c] = "idle"]
  /\ got' = [got EXCEPT ![c] = NoTask]
  /\ UNCHANGED <<heap, index, seq, queueStatus>>

Wait(c) ==
  /\ reader[c] \in {"idle", "woken"}
  /\ heap = {}
  /\ reader' = [reader EXCEPT ![c] = "waiting"]
  /\ UNCHANGED <<heap, index, seq, queueStatus, got>>

QueueNext ==
  \/ \E t \in QTask, p \in Priority : Enqueue(t, p) \/ Promote(t, p)
  \/ Drain
  \/ \E c \in Reader : Dequeue(c) \/ WaitExpires(c) \/ ReturnNone(c) \/ Wait(c)

QueueSpec == QueueInit /\ [][QueueNext]_queueVars

-----------------------------------------------------------------------------
(* Properties                                                              *)

Promise == INSTANCE PriorityQueue
             WITH waiting <- {index[t] : t \in {u \in QTask : index[u] # NoTask}},
                  expired <- {c \in Reader : reader[c] = "late"}

(* In spite of the garbage that promote and a second enqueue leave in the
   heap, readers get the waiting tasks in the order of their priorities, each
   once, and none goes empty-handed beside a waiting task unless its wait has
   timed out: the queue implements PriorityQueue.  (A blocking dequeue that pops
   nothing but garbage does return None on a queue that nobody drained.) *)
KeepsOrder == Promise!PrioritySpec

(* No reader sleeps on while a task waits: every path that adds an entry
   wakes the readers, whichever of them popped what before. *)
NoneSleepsOnWork ==
  \A c \in Reader, t \in QTask : ~(reader[c] = "waiting" /\ index[t] # NoTask)
=============================================================================
