------------------------------ MODULE RunControl ------------------------------
(***************************************************************************)
(* portal/services/mission_control_run_control_service.py: the control row *)
(* of a workflow and the hash chain of its events, for one tenant and one  *)
(* workflow, with callers whose transactions overlap.                      *)
(*                                                                         *)
(* The database is PostgreSQL at READ COMMITTED: a caller sees what is     *)
(* committed and what it wrote itself; a row it wrote stays locked until   *)
(* its transaction ends.  A transaction may hold several calls.            *)
(***************************************************************************)
EXTENDS Naturals, Sequences

CONSTANTS
  Caller,      \* transactions under way at a time
  NoCaller,
  MaxVersion   \* bound: the versions the row goes through

VARIABLES
  row,       \* the committed control row, [state, version]; version 0: none
  log,       \* the committed events, in the order of their commits
  draftRow,  \* the row and the events as the lock's holder sees them
  draftLog,
  holder,    \* the caller that has written the row and not yet committed
  request    \* what each caller has read and is about to write

controlVars == <<row, log, draftRow, draftLog, holder, request>>

ASSUME CallerAssumption == NoCaller \notin Caller
ASSUME MaxVersionAssumption == MaxVersion \in Nat \ {0}

Ended == {"COMPLETED", "FAILED", "CANCELLED", "COMPENSATED"}

Interrupts == {"COMPLETED", "FAILED", "CANCELLED", "COMPENSATING"}

(* ALLOWED_TRANSITIONS *)
Allowed(s) ==
  CASE s = "RUNNING" -> Interrupts \cup {"PAUSE_REQUESTED"}
    [] s = "PAUSE_REQUESTED" ->
         Interrupts \cup {"PAUSING", "PAUSE_FAILED", "PAUSE_TIMED_OUT", "SUPERSEDED"}
    [] s = "PAUSING" ->
         Interrupts \cup {"PAUSED", "PAUSE_FAILED", "PAUSE_TIMED_OUT", "SUPERSEDED"}
    [] s = "COMPENSATING" -> {"COMPENSATED"}
    [] OTHER -> {}

RunControlState ==
  {"RUNNING", "PAUSE_REQUESTED", "PAUSING", "PAUSED", "PAUSE_FAILED",
   "PAUSE_TIMED_OUT", "SUPERSEDED", "COMPENSATING"} \cup Ended

Row == [state : RunControlState, version : Nat]

(* An event; linked is the number of the event whose hash it carries, 0 when
   it carries none: the hash tells all events apart. *)
Event == [sequence : Nat, previous : RunControlState, new : RunControlState,
          linked : Nat]

NoRow == [state |-> "RUNNING", version |-> 0]

NoRequest == [pc |-> "idle", expected |-> 0, seen |-> "RUNNING",
              new |-> "RUNNING"]

Request == [pc : {"idle", "insert", "update"}, expected : Nat,
            seen : RunControlState, new : RunControlState]

ControlTypeOK ==
  /\ {row, draftRow} \subseteq Row
  /\ {log, draftLog} \subseteq Seq(Event)
  /\ holder \in Caller \cup {NoCaller}
  /\ request \in [Caller -> Request]

ControlInit ==
  /\ row = NoRow
  /\ log = <<>>
  /\ draftRow = NoRow
  /\ draftLog = <<>>
  /\ holder = NoCaller
  /\ request = [c \in Caller |-> NoRequest]

-----------------------------------------------------------------------------
(* What a SELECT of the caller returns. *)
Visible(c) == IF holder = c THEN draftRow ELSE row

Ask(c, pc, expected, seen, new) ==
  /\ request' = [request EXCEPT ![c] =
       [pc |-> pc, expected |-> expected, seen |-> seen, new |-> new]]
  /\ UNCHANGED <<row, log, draftRow, draftLog, holder>>

Refused(c) ==
  /\ request' = [request EXCEPT ![c] = NoRequest]
  /\ UNCHANGED <<row, log, draftRow, draftLog, holder>>

(* create_run_control up to its INSERT; a row that is there is returned. *)
BeginCreate(c, s) ==
  /\ request[c].pc = "idle"
  /\ Visible(c).version = 0
  /\ Ask(c, "insert", 0, s, s)

(* transition_run_control up to its UPDATE: the version the caller expects and
   the transition table; a stale caller and a refused move change nothing. *)
BeginTransition(c, expected, new) ==
  /\ request[c].pc = "idle"
  /\ Visible(c).version = expected
  /\ expected \in 1..(MaxVersion - 1)
  /\ new \in Allowed(Visible(c).state)
  /\ Ask(c, "update", expected, Visible(c).state, new)

(* Mutant: the last event is numbered by its version and linked to the first. *)
AppendedUnlinked(events, version, from, to) ==
  Append(events, [sequence |-> version, previous |-> from, new |-> to,
                  linked |-> IF events = <<>> THEN 0 ELSE 1])

(* The event written with the row: sequence is the new version, linked to the
   last event the caller can see. *)
Appended(events, version, from, to) ==
  Append(events, [sequence |-> version, previous |-> from, new |-> to,
                  linked |-> IF events = <<>> THEN 0
                             ELSE events[Len(events)].sequence])

(* A write needs the row's lock, and is evaluated on the row as committed by
   the lock's last holder. *)
MayWrite(c) == holder \in {c, NoCaller}

(* The row and its event, in the caller's transaction. *)
Write(c, base, from, to, version) ==
  /\ draftRow' = [state |-> to, version |-> version]
  /\ draftLog' = Appended(base, version, from, to)
  /\ holder' = c
  /\ request' = [request EXCEPT ![c] = NoRequest]
  /\ UNCHANGED <<row, log>>

(* INSERT, then event 1; the unique key refuses a second row. *)
Insert1(c) ==
  /\ request[c].pc = "insert"
  /\ MayWrite(c)
  /\ IF Visible(c).version = 0
       THEN Write(c, <<>>, request[c].new, request[c].new, 1)
       ELSE Refused(c)

(* Mutant: WHERE id = run_control_id. *)
MatchesById(r, q) == r.version > 0

(* WHERE id ... AND state_version = expected_version AND state = current. *)
Matches(r, q) == r.version = q.expected /\ r.state = q.seen

(* UPDATE, then the event; a row that moved on matches nothing: conflict. *)
Update(c) ==
  /\ request[c].pc = "update"
  /\ MayWrite(c)
  /\ IF Matches(Visible(c), request[c])
       THEN Write(c, IF holder = c THEN draftLog ELSE log,
                  request[c].seen, request[c].new, request[c].expected + 1)
       ELSE Refused(c)

(* The caller commits between two calls. *)
Commit(c) ==
  /\ holder = c
  /\ request[c].pc = "idle"
  /\ row' = draftRow
  /\ log' = draftLog
  /\ holder' = NoCaller
  /\ UNCHANGED <<draftRow, draftLog, request>>

(* The transaction ends without a commit: an error, a lost connection. *)
Rollback(c) ==
  /\ holder = c
  /\ draftRow' = row
  /\ draftLog' = log
  /\ holder' = NoCaller
  /\ request' = [request EXCEPT ![c] = NoRequest]
  /\ UNCHANGED <<row, log>>

ControlNext ==
  \E c \in Caller :
    \/ \E s \in RunControlState : BeginCreate(c, s)
    \/ \E e \in 1..MaxVersion, s \in RunControlState : BeginTransition(c, e, s)
    \/ Insert1(c) \/ Update(c) \/ Commit(c) \/ Rollback(c)

ControlSpec == ControlInit /\ [][ControlNext]_controlVars

-----------------------------------------------------------------------------
(* Properties                                                              *)

IsChain(r, events) ==
  /\ Len(events) = r.version
  /\ \A i \in 1..Len(events) :
       events[i].sequence = i /\ events[i].linked = i - 1
  /\ \A i \in 2..Len(events) :
       /\ events[i].previous = events[i - 1].new
       /\ events[i].new \in Allowed(events[i].previous)
  /\ events # <<>> => events[Len(events)].new = r.state

(* However the transactions overlap and fail, the committed events are one
   gapless chain of allowed transitions, each carrying the hash of the one
   before, and the row is where the chain ends. *)
ChainMatchesRow == IsChain(row, log)

(* History is never rewritten: a commit extends the committed chain, and once
   the chain has reached an end state no commit adds to it. *)
HistoryGrows ==
  [][/\ Len(log') >= Len(log)
     /\ SubSeq(log', 1, Len(log)) = log
     /\ row.version > 0 /\ row.state \in Ended => log' = log]_controlVars
=============================================================================
