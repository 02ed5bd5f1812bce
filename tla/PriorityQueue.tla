---------------------------- MODULE PriorityQueue ----------------------------
(***************************************************************************)
(* The abstract promise of the scheduler's task queue: a task waits once   *)
(* or not at all, a reader is given the most urgent of the waiting ones,   *)
(* and what one reader was given no other is.  A reader is sent away       *)
(* empty-handed only if nothing waits or its wait has timed out.           *)
(***************************************************************************)
EXTENDS Naturals

CONSTANTS QTask, Reader, NoTask

VARIABLES
  waiting,  \* the entries [task, priority, seq] that wait
  expired,  \* the readers whose wait has timed out
  got       \* [Reader -> the task its last call returned, or NoTask]

(* The order of _QueueEntry: priority first, then age. *)
Before(x, y) == \/ x.priority < y.priority
                \/ x.priority = y.priority /\ x.seq < y.seq

(* A task joins, or moves to another priority, behind those waiting there. *)
Put(t) ==
  /\ \E new \in waiting' :
       /\ new.task = t
       /\ \A e \in waiting : e.seq < new.seq
       /\ waiting' = {e \in waiting : e.task # t} \cup {new}
  /\ UNCHANGED <<expired, got>>

Take(c) ==
  \E e \in waiting :
    /\ \A f \in waiting \ {e} : Before(e, f)
    /\ waiting' = waiting \ {e}
    /\ got' = [got EXCEPT ![c] = e.task]
    /\ UNCHANGED expired

Expire(c) == expired' = expired \cup {c} /\ UNCHANGED <<waiting, got>>

GoEmpty(c) ==
  /\ waiting = {} \/ c \in expired
  /\ expired' = expired \ {c}
  /\ got' = [got EXCEPT ![c] = NoTask]
  /\ UNCHANGED waiting

TakeAll == waiting' = {} /\ UNCHANGED <<expired, got>>

PriorityInit == waiting = {} /\ expired = {} /\ got = [c \in Reader |-> NoTask]

PriorityNext == \/ TakeAll
                \/ \E t \in QTask : Put(t)
                \/ \E c \in Reader : Take(c) \/ Expire(c) \/ GoEmpty(c)

PrioritySpec == PriorityInit /\ [][PriorityNext]_<<waiting, expired, got>>
=============================================================================
