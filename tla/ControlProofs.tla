---------------------------- MODULE ControlProofs ----------------------------
(***************************************************************************)
(* What stops or undoes work: the run control, for any number of           *)
(* overlapping callers and of versions; the emergency stop and the         *)
(* approval gate, for any number of agents and of guarded calls; the saga  *)
(* of a workflow body, for every set of activities and of attempts.        *)
(***************************************************************************)
EXTENDS RunControl, Governance, ActivitySaga, SequenceTheorems, TLAPS

-----------------------------------------------------------------------------
(* The run control                                                         *)

LEMMA AllowedStates ==
  ASSUME NEW s \in RunControlState
  PROVE  Allowed(s) \subseteq RunControlState
BY DEF Allowed, Interrupts, RunControlState, Ended

LEMMA EndedAllowsNothing ==
  ASSUME NEW s \in Ended
  PROVE  Allowed(s) = {}
BY DEF Allowed, Ended

(* The draft starts from what is committed. *)
DraftExtends ==
  /\ Len(draftLog) >= Len(log)
  /\ \A i \in 1..Len(log) : draftLog[i] = log[i]
  /\ draftRow.version > 0
  /\ row.version > 0 => row.state \notin Ended

(* An update asks for a move the table allows, from a version there was. *)
RequestsAllowed ==
  \A c \in Caller :
    request[c].pc = "update" =>
      request[c].expected > 0 /\ request[c].new \in Allowed(request[c].seen)

ControlInv ==
  /\ ControlTypeOK
  /\ ChainMatchesRow
  /\ RequestsAllowed
  /\ holder # NoCaller => IsChain(draftRow, draftLog) /\ DraftExtends

LEMMA ControlInitial == ControlInit => ControlInv
<1> SUFFICES ASSUME ControlInit PROVE ControlInv
  OBVIOUS
<1>1. ControlTypeOK
  <2>1. NoRow \in Row /\ <<>> \in Seq(Event) /\ NoRequest \in Request
    BY DEF NoRow, Row, NoRequest, Request, RunControlState
  <2> QED BY <2>1 DEF ControlInit, ControlTypeOK
<1>2. ChainMatchesRow
  BY DEF ControlInit, ChainMatchesRow, IsChain, NoRow
<1>3. RequestsAllowed
  BY DEF ControlInit, RequestsAllowed, NoRequest
<1> QED BY <1>1, <1>2, <1>3 DEF ControlInv, ControlInit

LEMMA FirstEvent ==
  ASSUME NEW s \in RunControlState
  PROVE  /\ Appended(<<>>, 1, s, s) \in Seq(Event)
         /\ IsChain([state |-> s, version |-> 1], Appended(<<>>, 1, s, s))
<1> DEFINE e == [sequence |-> 1, previous |-> s, new |-> s, linked |-> 0]
<1>1. e \in Event
  BY DEF Event
<1> DEFINE r == [state |-> s, version |-> 1]
<1>2. Appended(<<>>, 1, s, s) = <<e>>
  BY DEF Appended
<1>3. /\ e.sequence = 1 /\ e.linked = 0 /\ e.new = s
      /\ r.version = 1 /\ r.state = s
  OBVIOUS
<1> HIDE DEF e, r
<1>4. <<e>> \in Seq(Event) /\ Len(<<e>>) = 1 /\ <<e>>[1] = e
  BY <1>1
<1>5. IsChain(r, <<e>>)
  <2>1. \A i \in 1..1 : i = 1
    OBVIOUS
  <2>2. \A i \in 2..1 : FALSE
    OBVIOUS
  <2> QED BY <1>3, <1>4, <2>1, <2>2 DEF IsChain
<1> QED BY <1>2, <1>4, <1>5 DEF r

(* An allowed move from the end of a chain gives a chain. *)
LEMMA NextEvent ==
  ASSUME NEW r \in Row, NEW events \in Seq(Event), IsChain(r, events),
         r.version > 0, NEW to \in Allowed(r.state)
  PROVE  LET longer == Appended(events, r.version + 1, r.state, to) IN
         /\ longer \in Seq(Event)
         /\ IsChain([state |-> to, version |-> r.version + 1], longer)
         /\ Len(longer) = Len(events) + 1
         /\ \A i \in 1..Len(events) : longer[i] = events[i]
<1> DEFINE n == r.version
           e == [sequence |-> n + 1, previous |-> r.state, new |-> to, linked |-> n]
           longer == Appended(events, r.version + 1, r.state, to)
           next == [state |-> to, version |-> n + 1]
<1>1. n \in Nat /\ n > 0 /\ r.state \in RunControlState /\ to \in RunControlState
  BY AllowedStates DEF Row
<1>2. /\ Len(events) = n
      /\ events # <<>>
      /\ events[n].new = r.state
      /\ events[n].sequence = n
  BY <1>1 DEF IsChain
<1>3. /\ e \in Event
      /\ e.sequence = n + 1 /\ e.linked = n /\ e.previous = r.state /\ e.new = to
  BY <1>1 DEF Event
<1>4. longer = Append(events, e)
  BY <1>2 DEF Appended
<1> HIDE DEF e, longer
<1>5. /\ longer \in Seq(Event)
      /\ Len(longer) = n + 1
      /\ longer # <<>>
      /\ \A i \in 1..n : longer[i] = events[i]
      /\ longer[n + 1] = e
  <2>1. /\ Append(events, e) \in Seq(Event)
        /\ Append(events, e) # <<>>
        /\ Len(Append(events, e)) = Len(events) + 1
        /\ \A i \in 1..Len(events) : Append(events, e)[i] = events[i]
        /\ Append(events, e)[Len(events) + 1] = e
    BY <1>3, AppendProperties
  <2> QED BY <1>2, <1>4, <2>1
<1>6. \A i \in 1..(n + 1) : longer[i].sequence = i /\ longer[i].linked = i - 1
  <2>1. \A i \in 1..n : events[i].sequence = i /\ events[i].linked = i - 1
    BY <1>2 DEF IsChain
  <2>2. \A i \in 1..(n + 1) : i \in 1..n \/ i = n + 1
    BY <1>1
  <2>3. longer[n + 1].sequence = n + 1 /\ longer[n + 1].linked = (n + 1) - 1
    BY <1>1, <1>3, <1>5
  <2> QED BY <1>5, <2>1, <2>2, <2>3
<1>7. \A i \in 2..(n + 1) :
        /\ longer[i].previous = longer[i - 1].new
        /\ longer[i].new \in Allowed(longer[i].previous)
  <2>1. ASSUME NEW i \in 2..(n + 1), i # n + 1
        PROVE  /\ longer[i].previous = longer[i - 1].new
               /\ longer[i].new \in Allowed(longer[i].previous)
    <3>1. i \in 2..n /\ i \in 1..n /\ i - 1 \in 1..n
      BY <1>1, <2>1
    <3>2. longer[i] = events[i] /\ longer[i - 1] = events[i - 1]
      BY <1>5, <3>1
    <3> QED BY <1>2, <3>1, <3>2 DEF IsChain
  <2>2. /\ longer[n + 1].previous = longer[(n + 1) - 1].new
        /\ longer[n + 1].new \in Allowed(longer[n + 1].previous)
    <3>1. (n + 1) - 1 = n /\ n \in 1..n
      BY <1>1
    <3> QED BY <1>2, <1>3, <1>5, <3>1
  <2> QED BY <2>1, <2>2
<1>8. IsChain(next, longer)
  <2>1. next.version = n + 1 /\ next.state = to
    OBVIOUS
  <2> HIDE DEF next
  <2> QED BY <1>3, <1>5, <1>6, <1>7, <2>1 DEF IsChain
<1> QED BY <1>2, <1>5, <1>8 DEF longer

-----------------------------------------------------------------------------
(* Asking changes nothing that is stored. *)
LEMMA AskKeeps ==
  ASSUME ControlInv, NEW c \in Caller,
         UNCHANGED <<row, log, draftRow, draftLog, holder>>,
         NEW q \in Request, request' = [request EXCEPT ![c] = q],
         q.pc = "update" => q.expected > 0 /\ q.new \in Allowed(q.seen)
  PROVE  ControlInv'
<1>1. ControlTypeOK'
  BY DEF ControlInv, ControlTypeOK
<1>2. RequestsAllowed'
  BY DEF ControlInv, ControlTypeOK, RequestsAllowed
<1> QED BY <1>1, <1>2 DEF ControlInv, ChainMatchesRow, IsChain, DraftExtends

LEMMA NoRequestTyped == NoRequest \in Request /\ NoRequest.pc = "idle"
BY DEF NoRequest, Request, RunControlState

LEMMA RefusedKeeps ==
  ASSUME ControlInv, NEW c \in Caller, Refused(c)
  PROVE  ControlInv'
BY AskKeeps, NoRequestTyped DEF Refused

(* A write of a chain that extends what is committed. *)
LEMMA WriteKeeps ==
  ASSUME ControlInv, NEW c \in Caller,
         NEW r \in Row, NEW events \in Seq(Event),
         draftRow' = r, draftLog' = events, holder' = c,
         request' = [request EXCEPT ![c] = NoRequest],
         UNCHANGED <<row, log>>,
         IsChain(r, events), r.version > 0,
         Len(events) >= Len(log),
         \A i \in 1..Len(log) : events[i] = log[i],
         row.version > 0 => row.state \notin Ended
  PROVE  ControlInv'
<1>1. ControlTypeOK'
  BY NoRequestTyped DEF ControlInv, ControlTypeOK
<1>2. RequestsAllowed'
  BY NoRequestTyped DEF ControlInv, ControlTypeOK, RequestsAllowed
<1>3. ChainMatchesRow'
  BY DEF ControlInv, ChainMatchesRow, IsChain
<1>4. IsChain(draftRow, draftLog)' /\ DraftExtends'
  BY DEF IsChain, DraftExtends
<1> QED BY <1>1, <1>2, <1>3, <1>4 DEF ControlInv

LEMMA InsertKeepsControl ==
  ASSUME ControlInv, NEW c \in Caller, Insert1(c)
  PROVE  ControlInv'
<1>1. CASE Visible(c).version # 0
  BY <1>1, RefusedKeeps DEF Insert1
<1>2. CASE Visible(c).version = 0
  <2> DEFINE s == request[c].new
             r == [state |-> s, version |-> 1]
             events == Appended(<<>>, 1, s, s)
  <2>1. s \in RunControlState
    BY DEF ControlInv, ControlTypeOK, Request
  <2>2. /\ draftRow' = r /\ draftLog' = events /\ holder' = c
        /\ request' = [request EXCEPT ![c] = NoRequest]
        /\ UNCHANGED <<row, log>>
    BY <1>2 DEF Insert1, Write
  <2>3. holder = NoCaller
    <3>1. ASSUME holder = c PROVE FALSE
      <4>1. c # NoCaller
        BY CallerAssumption
      <4>2. draftRow.version > 0 /\ Visible(c) = draftRow
        BY <3>1, <4>1 DEF ControlInv, DraftExtends, Visible
      <4> QED BY <1>2, <4>2
    <3> QED BY <3>1 DEF Insert1, MayWrite
  <2>4. row.version = 0 /\ Len(log) = 0
    BY <1>2, <2>3, CallerAssumption DEF Visible, ControlInv, ChainMatchesRow, IsChain
  <2>5. r \in Row /\ r.version > 0
    BY <2>1 DEF Row
  <2>6. events \in Seq(Event) /\ IsChain(r, events)
    BY <2>1, FirstEvent
  <2> HIDE DEF r, events
  <2>7. Len(events) >= Len(log) /\ \A i \in 1..Len(log) : events[i] = log[i]
    BY <2>4, <2>6, LenProperties
  <2>8. row.version > 0 => row.state \notin Ended
    BY <2>4
  <2> QED BY <2>2, <2>5, <2>6, <2>7, <2>8, WriteKeeps
<1> QED BY <1>1, <1>2

LEMMA UpdateKeeps ==
  ASSUME ControlInv, NEW c \in Caller, Update(c)
  PROVE  ControlInv'
<1>1. CASE ~Matches(Visible(c), request[c])
  BY <1>1, RefusedKeeps DEF Update
<1>2. CASE Matches(Visible(c), request[c])
  <2> DEFINE q == request[c]
             base == IF holder = c THEN draftLog ELSE log
             from == Visible(c)
             r == [state |-> q.new, version |-> from.version + 1]
             events == Appended(base, from.version + 1, from.state, q.new)
  <2>1. q \in Request /\ q.pc = "update" /\ q.expected > 0 /\ q.new \in Allowed(q.seen)
    BY DEF ControlInv, ControlTypeOK, RequestsAllowed, Update
  <2>2. from.version = q.expected /\ from.state = q.seen
    BY <1>2 DEF Matches
  <2>3. /\ draftRow' = r /\ draftLog' = events /\ holder' = c
        /\ request' = [request EXCEPT ![c] = NoRequest]
        /\ UNCHANGED <<row, log>>
    BY <1>2, <2>2 DEF Update, Write
  <2>4. from \in Row /\ base \in Seq(Event)
    BY DEF ControlInv, ControlTypeOK, Visible
  <2>5. /\ IsChain(from, base)
        /\ Len(base) >= Len(log)
        /\ \A i \in 1..Len(log) : base[i] = log[i]
        /\ row.version > 0 => row.state \notin Ended
    <3>1. CASE holder = c
      BY <3>1, CallerAssumption DEF ControlInv, DraftExtends, Visible
    <3>2. CASE holder # c
      <4>1. from = row /\ base = log
        BY <3>2 DEF Visible
      <4>2. IsChain(row, log)
        BY DEF ControlInv, ChainMatchesRow
      <4>3. row.state \notin Ended
        BY <2>1, <2>2, <4>1, EndedAllowsNothing
      <4>4. Len(log) \in Nat
        BY DEF ControlInv, ControlTypeOK
      <4> QED BY <4>1, <4>2, <4>3, <4>4
    <3> QED BY <3>1, <3>2
  <2>6. q.new \in RunControlState /\ from.version \in Nat /\ from.version > 0
    BY <2>1, <2>2, <2>4 DEF Request, Row
  <2>7. r \in Row /\ r.version > 0
    BY <2>6 DEF Row
  <2>8. q.new \in Allowed(from.state)
    BY <2>1, <2>2
  <2> HIDE DEF base, from, q
  <2>9. /\ events \in Seq(Event)
        /\ IsChain(r, events)
        /\ Len(events) = Len(base) + 1
        /\ \A i \in 1..Len(base) : events[i] = base[i]
    BY <2>4, <2>5, <2>6, <2>8, NextEvent
  <2> HIDE DEF r, events
  <2>10. Len(base) \in Nat /\ Len(log) \in Nat
    BY <2>4 DEF ControlInv, ControlTypeOK
  <2>11. Len(events) >= Len(log) /\ \A i \in 1..Len(log) : events[i] = log[i]
    BY <2>5, <2>9, <2>10
  <2> QED BY <2>3, <2>5, <2>7, <2>9, <2>11, WriteKeeps
<1> QED BY <1>1, <1>2

LEMMA ControlStep == ASSUME ControlInv, [ControlNext]_controlVars PROVE ControlInv'
<1>1. ASSUME NEW c \in Caller, NEW s \in RunControlState, BeginCreate(c, s)
      PROVE  ControlInv'
  <2> DEFINE q == [pc |-> "insert", expected |-> 0, seen |-> s, new |-> s]
  <2>1. q \in Request /\ q.pc # "update"
    BY DEF Request
  <2>2. request' = [request EXCEPT ![c] = q] /\ UNCHANGED <<row, log, draftRow, draftLog, holder>>
    BY <1>1 DEF BeginCreate, Ask
  <2> HIDE DEF q
  <2> QED BY <2>1, <2>2, AskKeeps
<1>2. ASSUME NEW c \in Caller, NEW e \in 1..MaxVersion, NEW s \in RunControlState,
             BeginTransition(c, e, s)
      PROVE  ControlInv'
  <2> DEFINE q == [pc |-> "update", expected |-> e, seen |-> Visible(c).state, new |-> s]
  <2>1. Visible(c) \in Row
    BY DEF Visible, ControlInv, ControlTypeOK
  <2>2. e \in Nat /\ e > 0
    BY MaxVersionAssumption
  <2>3. q \in Request
    BY <2>1, <2>2 DEF Request, Row
  <2>4. q.expected > 0 /\ q.new \in Allowed(q.seen)
    BY <1>2, <2>2 DEF BeginTransition
  <2>5. request' = [request EXCEPT ![c] = q] /\ UNCHANGED <<row, log, draftRow, draftLog, holder>>
    BY <1>2 DEF BeginTransition, Ask
  <2> HIDE DEF q
  <2> QED BY <2>3, <2>4, <2>5, AskKeeps
<1>3. ASSUME NEW c \in Caller, Insert1(c) PROVE ControlInv'
  BY <1>3, InsertKeepsControl
<1>4. ASSUME NEW c \in Caller, Update(c) PROVE ControlInv'
  BY <1>4, UpdateKeeps
<1>5. ASSUME NEW c \in Caller, Commit(c) PROVE ControlInv'
  <2>1. holder # NoCaller /\ holder' = NoCaller
    BY <1>5, CallerAssumption DEF Commit
  <2>2. ControlTypeOK'
    BY <1>5 DEF Commit, ControlInv, ControlTypeOK
  <2>3. ChainMatchesRow'
    BY <1>5, <2>1 DEF Commit, ControlInv, ChainMatchesRow, IsChain
  <2>4. RequestsAllowed'
    BY <1>5 DEF Commit, ControlInv, RequestsAllowed
  <2> QED BY <2>1, <2>2, <2>3, <2>4 DEF ControlInv
<1>6. ASSUME NEW c \in Caller, Rollback(c) PROVE ControlInv'
  <2>1. ControlTypeOK'
    BY <1>6, NoRequestTyped DEF Rollback, ControlInv, ControlTypeOK
  <2>2. ChainMatchesRow'
    BY <1>6 DEF Rollback, ControlInv, ChainMatchesRow, IsChain
  <2>3. RequestsAllowed'
    BY <1>6, NoRequestTyped DEF Rollback, ControlInv, ControlTypeOK, RequestsAllowed
  <2> QED BY <1>6, <2>1, <2>2, <2>3 DEF ControlInv, Rollback
<1>7. CASE UNCHANGED controlVars
  BY <1>7 DEF controlVars, ControlInv, ControlTypeOK, ChainMatchesRow, IsChain,
              RequestsAllowed, DraftExtends
<1> QED BY <1>1, <1>2, <1>3, <1>4, <1>5, <1>6, <1>7 DEF ControlNext

LEMMA ControlInvariant == ControlSpec => []ControlInv
BY ControlInitial, ControlStep, PTL DEF ControlSpec

(* Every variable keeps its type. *)
THEOREM ControlTypeCorrect == ControlSpec => []ControlTypeOK
<1>1. ControlInv => ControlTypeOK
  BY DEF ControlInv
<1> QED BY <1>1, ControlInvariant, PTL

(* The committed events are one gapless, linked chain of allowed transitions
   that ends where the row is. *)
THEOREM ChainAlwaysMatches == ControlSpec => []ChainMatchesRow
<1>1. ControlInv => ChainMatchesRow
  BY DEF ControlInv
<1> QED BY <1>1, ControlInvariant, PTL

-----------------------------------------------------------------------------
(* History only grows *)

LEMMA WholeSequence ==
  ASSUME NEW s \in Seq(Event), NEW t \in Seq(Event), Len(t) >= Len(s),
         \A i \in 1..Len(s) : t[i] = s[i]
  PROVE  SubSeq(t, 1, Len(s)) = s
<1>1. Len(s) \in Nat /\ \A i \in 1..Len(s) : t[i] \in Event
  BY LenProperties, ElementOfSeq
<1>2. /\ SubSeq(t, 1, Len(s)) \in Seq(Event)
      /\ Len(SubSeq(t, 1, Len(s))) = Len(s)
      /\ \A i \in 1..Len(s) : SubSeq(t, 1, Len(s))[i] = t[i]
  BY <1>1, SubSeqProperties
<1> QED BY <1>2, SeqEqual

Grows ==
  /\ Len(log') >= Len(log)
  /\ SubSeq(log', 1, Len(log)) = log
  /\ row.version > 0 /\ row.state \in Ended => log' = log

LEMMA GrowthStep == ControlInv /\ [ControlNext]_controlVars => [Grows]_controlVars
<1> SUFFICES ASSUME ControlInv, [ControlNext]_controlVars PROVE Grows
  OBVIOUS
<1>1. log \in Seq(Event) /\ Len(log) \in Nat
  BY DEF ControlInv, ControlTypeOK
<1>2. CASE log' = log
  BY <1>1, <1>2, WholeSequence DEF Grows
<1>3. ASSUME NEW c \in Caller, Commit(c) PROVE Grows
  <2>1. DraftExtends /\ draftLog \in Seq(Event) /\ log' = draftLog
    BY <1>3, CallerAssumption DEF Commit, ControlInv, ControlTypeOK
  <2> QED BY <1>1, <2>1, WholeSequence DEF Grows, DraftExtends
<1> QED BY <1>2, <1>3
        DEF ControlNext, controlVars, BeginCreate, BeginTransition, Ask, Insert1,
            Update, Write, Refused, Rollback

(* What is committed is never rewritten, and nothing follows an end state. *)
THEOREM HistoryAlwaysGrows == ControlSpec => HistoryGrows
BY ControlInvariant, GrowthStep, PTL DEF ControlSpec, HistoryGrows, Grows

-----------------------------------------------------------------------------
(* The governance                                                          *)

LEMMA GovernanceInitial == GovernanceInit => GovernanceTypeOK
<1> SUFFICES ASSUME GovernanceInit PROVE GovernanceTypeOK
  OBVIOUS
<1>1. /\ agentStatus \in [Agent -> AgentState]
      /\ call \in [GuardedCall -> {"new", "checked", "waiting", "looking",
                                   "expiring", "deciding", "allowed", "refused",
                                   "timed_out"}]
      /\ ticket \in [GuardedCall -> ApprovalStatus]
  BY DEF GovernanceInit, AgentState, ApprovalStatus
<1>2. answers \in [GuardedCall -> SUBSET Answer]
  BY DEF GovernanceInit
<1> QED BY <1>1, <1>2 DEF GovernanceInit, GovernanceTypeOK

(* Setting the entry of one agent keeps the types. *)
LEMMA SetStatusTyped ==
  ASSUME GovernanceTypeOK, NEW a \in Agent, NEW s \in AgentState, SetStatus(a, s)
  PROVE  agentStatus' \in [Agent -> AgentState]
BY DEF GovernanceTypeOK, SetStatus

LEMMA AllPausedTyped ==
  ASSUME GovernanceTypeOK
  PROVE  AllPaused \in [Agent -> AgentState]
BY DEF GovernanceTypeOK, AllPaused, AgentState

LEMMA GovernanceTypes ==
  ASSUME GovernanceTypeOK, [GovernanceNext]_governanceVars
  PROVE  GovernanceTypeOK'
<1> USE DEF gateVars, controllerVars
<1>1. ASSUME NEW a \in Agent, RegisterAgent(a) PROVE GovernanceTypeOK'
  BY <1>1, SetStatusTyped DEF RegisterAgent, GovernanceTypeOK, AgentState
<1>2. ASSUME NEW a \in Agent,
             \/ DeregisterAgent(a) \/ PauseAgent(a) \/ TerminateTask(a) \/ ForceKill(a)
      PROVE  GovernanceTypeOK'
  <2>1. \E s \in AgentState : SetStatus(a, s)
    BY <1>2 DEF DeregisterAgent, PauseAgent, TerminateTask, ForceKill, AgentState
  <2>2. agentStatus' \in [Agent -> AgentState]
    BY <2>1, SetStatusTyped
  <2>3. UNCHANGED <<emergency, resuming, braking, fresh, call, ticket, overdue, answers>>
    BY <1>2 DEF DeregisterAgent, PauseAgent, TerminateTask, ForceKill
  <2> QED BY <2>2, <2>3 DEF GovernanceTypeOK
<1>3. ASSUME PauseAll \/ WatchdogLooks \/ WatchdogPauses PROVE GovernanceTypeOK'
  BY <1>3, AllPausedTyped DEF PauseAll, WatchdogLooks, WatchdogPauses, GovernanceTypeOK
<1>4. ASSUME NEW a \in Agent, BeginResume(a) PROVE GovernanceTypeOK'
  BY <1>4 DEF BeginResume, GovernanceTypeOK
<1>5. ASSUME NEW a \in Agent, ResumeAgent(a) PROVE GovernanceTypeOK'
  <2>1. agentStatus' \in [Agent -> AgentState]
    BY <1>5, SetStatusTyped DEF ResumeAgent, GovernanceTypeOK, AgentState
  <2> QED BY <1>5, <2>1 DEF ResumeAgent, GovernanceTypeOK
<1>6. ASSUME EmergencyStop \/ ClearEmergencyStop PROVE GovernanceTypeOK'
  BY <1>6 DEF EmergencyStop, ClearEmergencyStop, GovernanceTypeOK, AgentState
<1>7. ASSUME NEW g \in GuardedCall,
             \/ CheckEmergency(g) \/ DecideWithoutGate(g) \/ RequestApproval(g)
             \/ LookAtRequest(g) \/ LookAtClock(g) \/ ExpireSeen(g)
      PROVE  GovernanceTypeOK'
  BY <1>7 DEF CheckEmergency, DecideWithoutGate, RequestApproval, LookAtRequest,
              LookAtClock, ExpireSeen, Goes, Decide, GovernanceTypeOK, ApprovalStatus
<1>8. ASSUME NEW g \in GuardedCall, ReturnStatus(g) \/ WaitTimesOut(g) \/ ClockPasses(g)
      PROVE  GovernanceTypeOK'
  BY <1>8 DEF ReturnStatus, Verdict, WaitTimesOut, ClockPasses, Goes, Decide,
              GovernanceTypeOK, ApprovalStatus
<1>9. ASSUME NEW g \in GuardedCall, Approve(g) \/ Reject(g) PROVE GovernanceTypeOK'
  BY <1>9 DEF Approve, Reject, Decide, GovernanceTypeOK, ApprovalStatus, Answer
<1>10. ASSUME ExpireOldRequests PROVE GovernanceTypeOK'
  BY <1>10 DEF ExpireOldRequests, GovernanceTypeOK, ApprovalStatus
<1>11. CASE UNCHANGED governanceVars
  BY <1>11 DEF governanceVars, GovernanceTypeOK
<1> QED BY <1>1, <1>2, <1>3, <1>4, <1>5, <1>6, <1>7, <1>8, <1>9, <1>10, <1>11
        DEF GovernanceNext

(* Every variable keeps its type. *)
THEOREM GovernanceTypeCorrect == GovernanceSpec => []GovernanceTypeOK
<1>1. GovernanceTypeOK /\ [GovernanceNext]_governanceVars => GovernanceTypeOK'
  BY GovernanceTypes
<1> QED BY <1>1, GovernanceInitial, PTL DEF GovernanceSpec

-----------------------------------------------------------------------------
(* The emergency stop *)

(* The gate's steps, and the two that only look, leave the stop alone. *)
LEMMA StopUntouched ==
  ASSUME StopHolds, UNCHANGED <<agentStatus, emergency, fresh>>
  PROVE  StopHolds'
BY DEF StopHolds

(* An entry that becomes neither running nor paused. *)
LEMMA StoppedOne ==
  ASSUME GovernanceTypeOK, StopHolds, UNCHANGED <<emergency, fresh>>,
         NEW a \in Agent, NEW s, s \notin {"running", "paused"}, SetStatus(a, s)
  PROVE  StopHolds'
BY DEF StopHolds, SetStatus, GovernanceTypeOK

(* Pausing finds no running agent that the stop has to hold. *)
LEMMA AllPausedKeepsStop ==
  ASSUME GovernanceTypeOK, StopHolds, UNCHANGED <<emergency, fresh>>,
         agentStatus' = AllPaused
  PROVE  StopHolds'
BY DEF StopHolds, AllPaused, GovernanceTypeOK

LEMMA StopStep ==
  ASSUME GovernanceTypeOK, StopHolds, [GovernanceNext]_governanceVars
  PROVE  StopHolds'
<1>1. ASSUME NEW a \in Agent, RegisterAgent(a) PROVE StopHolds'
  BY <1>1 DEF RegisterAgent, SetStatus, StopHolds, GovernanceTypeOK
<1>2. ASSUME NEW a \in Agent, DeregisterAgent(a) \/ TerminateTask(a) \/ ForceKill(a)
      PROVE  StopHolds'
  BY <1>2, StoppedOne DEF DeregisterAgent, TerminateTask, ForceKill
<1>3. ASSUME NEW a \in Agent, PauseAgent(a) PROVE StopHolds'
  BY <1>3 DEF PauseAgent, SetStatus, StopHolds, GovernanceTypeOK
<1>4. ASSUME PauseAll \/ WatchdogPauses PROVE StopHolds'
  BY <1>4, AllPausedKeepsStop DEF PauseAll, WatchdogPauses
<1>5. ASSUME NEW a \in Agent, ResumeAgent(a) PROVE StopHolds'
  <2>1. CASE Resumable(a)
    BY <1>5, <2>1 DEF ResumeAgent, Resumable, SetStatus, StopHolds, GovernanceTypeOK
  <2>2. CASE ~Resumable(a)
    BY <1>5, <2>2, StopUntouched DEF ResumeAgent
  <2> QED BY <2>1, <2>2
<1>6. ASSUME EmergencyStop PROVE StopHolds'
  BY <1>6 DEF EmergencyStop, StopHolds
<1>7. ASSUME ClearEmergencyStop PROVE StopHolds'
  BY <1>7 DEF ClearEmergencyStop, StopHolds
<1>8. ASSUME WatchdogLooks \/ \E a \in Agent : BeginResume(a) PROVE StopHolds'
  BY <1>8, StopUntouched DEF WatchdogLooks, BeginResume
<1>9. ASSUME NEW g \in GuardedCall,
             \/ CheckEmergency(g) \/ DecideWithoutGate(g) \/ RequestApproval(g)
             \/ LookAtRequest(g) \/ LookAtClock(g) \/ ExpireSeen(g)
             \/ ReturnStatus(g) \/ WaitTimesOut(g) \/ ClockPasses(g) \/ Approve(g) \/ Reject(g)
      PROVE  StopHolds'
  BY <1>9, StopUntouched
     DEF CheckEmergency, DecideWithoutGate, RequestApproval, LookAtRequest,
         LookAtClock, ExpireSeen, ReturnStatus, WaitTimesOut, ClockPasses, Approve, Reject, controllerVars
<1>10. ASSUME ExpireOldRequests PROVE StopHolds'
  BY <1>10, StopUntouched DEF ExpireOldRequests, controllerVars
<1>11. CASE UNCHANGED governanceVars
  BY <1>11, StopUntouched DEF governanceVars
<1> QED BY <1>1, <1>2, <1>3, <1>4, <1>5, <1>6, <1>7, <1>8, <1>9, <1>10, <1>11
        DEF GovernanceNext

(* Whatever resumes and pauses were under way when the stop came, no agent runs
   or is paused while it lasts but one that was registered, or registered again,
   since: register_agent is the only way round the stop. *)
THEOREM StopAlwaysHolds == GovernanceSpec => []StopHolds
<1>1. GovernanceInit => StopHolds
  BY DEF GovernanceInit, StopHolds
<1>2. GovernanceTypeOK /\ StopHolds /\ [GovernanceNext]_governanceVars => StopHolds'
  BY StopStep
<1> QED BY <1>1, <1>2, GovernanceTypeCorrect, PTL DEF GovernanceSpec

-----------------------------------------------------------------------------
(* The approval gate *)

(* What was answered is what the status says, until the request expires, which
   takes an approval back past the deadline only; and a call is allowed without
   a request, or with one that ended in its favour, and refused with none or
   with one that ended against it. *)
AnswersRecorded(g) ==
  /\ ticket[g] \in {"none", "PENDING", "AUTO_APPROVED"} => answers[g] = {}
  /\ ticket[g] = "APPROVED" => answers[g] = {"approve"}
  /\ call[g] \in {"new", "checked"} => ticket[g] = "none"
  /\ call[g] = "allowed" => ticket[g] \in {"none", "AUTO_APPROVED", "APPROVED"}
  /\ call[g] = "refused" => ticket[g] \notin {"PENDING", "APPROVED"}
  /\ call[g] = "expiring" => g \in overdue
  /\ "approve" \in answers[g] /\ ticket[g] # "APPROVED" => g \in overdue

GateInv ==
  /\ GovernanceTypeOK
  /\ \A g \in GuardedCall : AnswersRecorded(g)

(* A step that concerns one request. *)
LEMMA GateOne ==
  ASSUME GateInv, GovernanceTypeOK', NEW g \in GuardedCall, AnswersRecorded(g)',
         overdue \subseteq overdue',
         \A h \in GuardedCall \ {g} :
           call'[h] = call[h] /\ ticket'[h] = ticket[h] /\ answers'[h] = answers[h]
  PROVE  GateInv'
BY DEF GateInv, AnswersRecorded

LEMMA GateStep ==
  ASSUME GateInv, [GovernanceNext]_governanceVars
  PROVE  GateInv'
<1>1. GovernanceTypeOK /\ GovernanceTypeOK'
  BY GovernanceTypes DEF GateInv
<1>2. ASSUME NEW g \in GuardedCall,
             \/ CheckEmergency(g) \/ DecideWithoutGate(g) \/ LookAtRequest(g)
             \/ LookAtClock(g) \/ ReturnStatus(g)
      PROVE  GateInv'
  <2>1. AnswersRecorded(g)
    BY DEF GateInv
  <2>2. AnswersRecorded(g)'
    BY <1>1, <1>2, <2>1 DEF CheckEmergency, DecideWithoutGate, LookAtRequest,
       LookAtClock, ReturnStatus, Verdict, Goes, AnswersRecorded, GovernanceTypeOK
  <2> QED BY <1>1, <1>2, <2>2, GateOne DEF CheckEmergency, DecideWithoutGate,
       LookAtRequest, LookAtClock, ReturnStatus, Goes, GovernanceTypeOK
<1>3. ASSUME NEW g \in GuardedCall, RequestApproval(g) \/ ExpireSeen(g) \/ WaitTimesOut(g)
      PROVE  GateInv'
  <2>1. AnswersRecorded(g)
    BY DEF GateInv
  <2>2. AnswersRecorded(g)'
    BY <1>1, <1>3, <2>1 DEF RequestApproval, ExpireSeen, WaitTimesOut, Goes, Decide,
       AnswersRecorded, GovernanceTypeOK
  <2> QED BY <1>1, <1>3, <2>2, GateOne DEF RequestApproval, ExpireSeen, WaitTimesOut,
       Goes, Decide, GovernanceTypeOK
<1>4. ASSUME NEW g \in GuardedCall, Approve(g) \/ Reject(g)
      PROVE  GateInv'
  <2>1. AnswersRecorded(g)
    BY DEF GateInv
  <2>2. AnswersRecorded(g)'
    BY <1>1, <1>4, <2>1 DEF Approve, Reject, Answerable, Decide, AnswersRecorded,
       GovernanceTypeOK
  <2> QED BY <1>1, <1>4, <2>2, GateOne DEF Approve, Reject, Decide, GovernanceTypeOK
<1>5. ASSUME ExpireOldRequests PROVE GateInv'
  BY <1>1, <1>5 DEF ExpireOldRequests, GateInv, AnswersRecorded, GovernanceTypeOK
<1>6. ASSUME UNCHANGED <<call, ticket, answers>>, overdue \subseteq overdue'
      PROVE  GateInv'
  BY <1>1, <1>6 DEF GateInv, AnswersRecorded
<1>7. ASSUME NEW g \in GuardedCall, ClockPasses(g) PROVE GateInv'
  BY <1>6, <1>7 DEF ClockPasses
<1>8. ASSUME \/ PauseAll \/ EmergencyStop \/ ClearEmergencyStop
             \/ WatchdogLooks \/ WatchdogPauses
      PROVE  GateInv'
  BY <1>6, <1>8 DEF PauseAll, EmergencyStop, ClearEmergencyStop, WatchdogLooks,
     WatchdogPauses, gateVars
<1>9. ASSUME NEW a \in Agent,
             \/ RegisterAgent(a) \/ DeregisterAgent(a) \/ PauseAgent(a)
             \/ BeginResume(a) \/ ResumeAgent(a) \/ TerminateTask(a) \/ ForceKill(a)
      PROVE  GateInv'
  BY <1>6, <1>9 DEF RegisterAgent, DeregisterAgent, PauseAgent, BeginResume,
     ResumeAgent, TerminateTask, ForceKill, gateVars
<1>10. CASE UNCHANGED governanceVars
  BY <1>6, <1>10 DEF governanceVars
<1> QED BY <1>2, <1>3, <1>4, <1>5, <1>7, <1>8, <1>9, <1>10 DEF GovernanceNext

(* No call is allowed after a wait without the approval that was reported to
   its approver, nor with a rejection that was; and none that finds its request
   decided is refused in spite of such an approval before the deadline. *)
THEOREM AlwaysAllowedAsAnswered == GovernanceSpec => []AllowedAsAnswered
<1>1. GovernanceInit => GateInv
  BY GovernanceInitial DEF GovernanceInit, GateInv, AnswersRecorded
<1>2. GateInv /\ [GovernanceNext]_governanceVars => GateInv'
  BY GateStep
<1>3. GateInv => AllowedAsAnswered
  BY DEF GateInv, AnswersRecorded, AllowedAsAnswered
<1> QED BY <1>1, <1>2, <1>3, PTL DEF GovernanceSpec

-----------------------------------------------------------------------------
(* The saga of a workflow body                                             *)

(* The compensations are registered in the order of the completions; what
   has been undone is the part of them reversed(_steps) has walked through,
   and a function that has returned has ended its activity. *)
SagaInv ==
  /\ SagaTypeOK
  /\ steps = completions
  /\ started <= Len(completions)
  /\ cursor <= started
  /\ body = "compensated" => cursor = 0
  /\ body \in {"rolling", "compensated"} => Len(undone) = started - cursor
  /\ body \notin {"rolling", "compensated"} => undone = <<>>
  /\ \A i \in 1..Len(undone) : undone[i] = completions[started + 1 - i]
  /\ \A a \in succeeded : act[a].pc \in {"completed", "raised"}

LEMMA SagaStart == SagaInit => SagaInv
BY CompensableAssumption, AttemptsAssumption
   DEF SagaInit, SagaInv, SagaTypeOK, ActPc, ActivityStatus

(* A step of a coroutine that has not returned changes nothing but it. *)
LEMMA CoroutineStep ==
  ASSUME SagaInv, NEW a \in Activity, NEW p \in ActPc, NEW n \in 0..MaxAttempts,
         act[a].pc \in {"new", "running", "sleeping"}, SetAct(a, p, n)
  PROVE  /\ act' \in [Activity -> [pc : ActPc, attempt : 0..MaxAttempts]]
         /\ \A b \in succeeded : act'[b].pc \in {"completed", "raised"}
<1>1. a \notin succeeded
  BY DEF SagaInv
<1>2. \A b \in Activity \ {a} : act'[b] = act[b]
  BY DEF SetAct, SagaInv, SagaTypeOK
<1>3. succeeded \subseteq Activity
  BY DEF SagaInv, SagaTypeOK
<1> QED BY <1>1, <1>2, <1>3 DEF SetAct, SagaInv, SagaTypeOK

LEMMA AttemptStep ==
  ASSUME SagaInv, NEW a \in Activity, ExecuteActivity(a) \/ WakeUp(a) \/ Raises(a)
  PROVE  SagaInv'
<1>1. act[a].pc \in {"new", "running", "sleeping"} /\ act[a].attempt \in 0..MaxAttempts
  BY DEF ExecuteActivity, WakeUp, Raises, SagaInv, SagaTypeOK
<1>2. PICK p \in ActPc, n \in 0..MaxAttempts, s \in ActivityStatus :
        SetAct(a, p, n) /\ SaveActivity(a, s)
  <2>1. CASE act[a].attempt < MaxAttempts /\ ~Raises(a)
    <3>1. act[a].attempt + 1 \in 0..MaxAttempts
      BY <1>1, <2>1, AttemptsAssumption
    <3> QED BY <2>1, <3>1 DEF ExecuteActivity, WakeUp, NextAttempt, ActPc, ActivityStatus
  <2>2. CASE act[a].attempt >= MaxAttempts \/ Raises(a)
    BY <1>1, <2>2, AttemptsAssumption
       DEF ExecuteActivity, WakeUp, Raises, NextAttempt, ActPc, ActivityStatus
  <2> QED BY <1>1, <2>1, <2>2, AttemptsAssumption
<1>3. UNCHANGED <<body, completions, started, steps, cursor, undone, succeeded>>
  BY DEF ExecuteActivity, WakeUp, Raises
<1>4. actStatus' \in [Activity -> ActivityStatus]
  BY <1>2 DEF SaveActivity, SagaInv, SagaTypeOK
<1> QED BY <1>1, <1>2, <1>3, <1>4, CoroutineStep DEF SagaInv, SagaTypeOK

(* What Append leaves and what it adds. *)
LEMMA AppendAtEnd ==
  ASSUME NEW S, NEW s \in Seq(S), NEW e \in S
  PROVE  /\ Append(s, e) \in Seq(S)
         /\ Len(Append(s, e)) = Len(s) + 1
         /\ \A i \in 1..Len(s) : Append(s, e)[i] = s[i]
         /\ Append(s, e)[Len(s) + 1] = e
OBVIOUS

LEMMA ReturnStep ==
  ASSUME SagaInv, NEW a \in Activity, Returns(a) \/ ReturnsBadResult(a)
  PROVE  SagaInv'
<1>1. act[a].pc = "running" /\ act[a].attempt \in 0..MaxAttempts
  BY DEF Returns, ReturnsBadResult, SagaInv, SagaTypeOK
<1>2. PICK p \in {"completed", "raised"} : SetAct(a, p, act[a].attempt)
  BY DEF Returns, ReturnsBadResult, AfterBadResult
<1>3. /\ act' \in [Activity -> [pc : ActPc, attempt : 0..MaxAttempts]]
      /\ \A b \in succeeded : act'[b].pc \in {"completed", "raised"}
  BY <1>1, <1>2, CoroutineStep DEF ActPc
<1>4. act'[a].pc \in {"completed", "raised"}
  BY <1>2 DEF SetAct, SagaInv, SagaTypeOK
<1>5. /\ succeeded' = succeeded \cup {a}
      /\ UNCHANGED <<body, started, cursor, undone>>
  BY DEF Returns, ReturnsBadResult
<1>6. actStatus' \in [Activity -> ActivityStatus]
  BY DEF Returns, ReturnsBadResult, SaveActivity, ActivityStatus, SagaInv, SagaTypeOK
<1>7. \/ /\ a \in Compensable
         /\ completions' = Append(completions, a)
         /\ steps' = Append(steps, a)
      \/ UNCHANGED <<completions, steps>>
  BY DEF Returns, ReturnsBadResult, Register
<1>8. /\ completions' \in Seq(Compensable)
      /\ steps' = completions'
      /\ Len(completions') >= Len(completions)
      /\ \A i \in 1..Len(completions) : completions'[i] = completions[i]
  <2>1. completions \in Seq(Compensable) /\ steps = completions
    BY DEF SagaInv, SagaTypeOK
  <2>2. CASE UNCHANGED <<completions, steps>>
    BY <2>1, <2>2
  <2>3. CASE /\ a \in Compensable
             /\ completions' = Append(completions, a)
             /\ steps' = Append(steps, a)
    BY <2>1, <2>3, AppendAtEnd
  <2> QED BY <1>7, <2>2, <2>3
<1>9. \A i \in 1..Len(undone') : undone'[i] = completions'[started' + 1 - i]
  <2> SUFFICES ASSUME NEW i \in 1..Len(undone)
               PROVE  undone[i] = completions'[started + 1 - i]
    BY <1>5
  <2>1. started + 1 - i \in 1..Len(completions)
    BY DEF SagaInv, SagaTypeOK
  <2> QED BY <2>1, <1>8 DEF SagaInv
<1> QED BY <1>3, <1>4, <1>5, <1>6, <1>8, <1>9 DEF SagaInv, SagaTypeOK

LEMMA CompensateStep ==
  ASSUME SagaInv, Compensate
  PROVE  SagaInv'
<1>1. /\ cursor \in Nat /\ started \in Nat /\ cursor > 0 /\ cursor <= started
      /\ started <= Len(completions) /\ Len(undone) = started - cursor
      /\ undone \in Seq(Compensable) /\ completions \in Seq(Compensable)
      /\ steps = completions
  BY DEF SagaInv, SagaTypeOK, Compensate
<1>2. /\ undone' = Append(undone, completions[cursor])
      /\ cursor' = cursor - 1
      /\ UNCHANGED <<body, act, actStatus, completions, started, steps, succeeded>>
  BY <1>1 DEF Compensate
<1>3. completions[cursor] \in Compensable
  BY <1>1
<1>4. /\ undone' \in Seq(Compensable)
      /\ Len(undone') = Len(undone) + 1
      /\ \A i \in 1..Len(undone) : undone'[i] = undone[i]
      /\ undone'[Len(undone) + 1] = completions[cursor]
  BY <1>1, <1>2, <1>3, AppendAtEnd
<1>5. Len(undone) \in Nat
  BY <1>1
<1>6. Len(undone') = started - cursor' /\ cursor' \in Nat /\ cursor' <= started
  BY <1>1, <1>2, <1>4, <1>5
<1>7. \A i \in 1..Len(undone') : undone'[i] = completions[started + 1 - i]
  <2> SUFFICES ASSUME NEW i \in 1..Len(undone')
               PROVE  undone'[i] = completions[started + 1 - i]
    OBVIOUS
  <2>1. CASE i \in 1..Len(undone)
    BY <2>1, <1>4 DEF SagaInv
  <2>2. CASE i = Len(undone) + 1
    <3>1. started + 1 - i = cursor
      BY <2>2, <1>1, <1>5
    <3> QED BY <2>2, <3>1, <1>4
  <2> QED BY <2>1, <2>2, <1>4, <1>5
<1>8. body = "rolling" /\ body' = "rolling"
  BY <1>2 DEF Compensate
<1> QED BY <1>1, <1>2, <1>4, <1>6, <1>7, <1>8 DEF SagaInv, SagaTypeOK

LEMMA SagaStep == SagaInv /\ [SagaNext]_sagaVars => SagaInv'
<1> SUFFICES ASSUME SagaInv, [SagaNext]_sagaVars PROVE SagaInv'
  OBVIOUS
<1>1. CASE SagaReturns \/ SagaReturnsBadResult \/ SagaEnds
  BY <1>1 DEF SagaReturns, SagaReturnsBadResult, SagaEnds, SagaInv, SagaTypeOK
<1>2. CASE SagaRaises
  BY <1>2 DEF SagaRaises, SagaInv, SagaTypeOK
<1>3. CASE UNCHANGED sagaVars
  BY <1>3 DEF sagaVars, SagaInv, SagaTypeOK
<1>4. ASSUME NEW a \in Activity, ExecuteActivity(a) \/ WakeUp(a) \/ Raises(a)
      PROVE  SagaInv'
  BY <1>4, AttemptStep
<1>5. ASSUME NEW a \in Activity, Returns(a) \/ ReturnsBadResult(a)
      PROVE  SagaInv'
  BY <1>5, ReturnStep
<1>6. CASE Compensate
  BY <1>6, CompensateStep
<1> QED
  BY <1>1, <1>2, <1>3, <1>4, <1>5, <1>6 DEF SagaNext

LEMMA SagaAlways == SagaSpec => []SagaInv
BY SagaStart, SagaStep, PTL DEF SagaSpec

(* Every variable of the saga keeps its type. *)
THEOREM SagaTypeCorrect == SagaSpec => []SagaTypeOK
<1>1. SagaInv => SagaTypeOK
  BY DEF SagaInv
<1> QED BY <1>1, SagaAlways, PTL

(* A compensated workflow has undone exactly what its history says had
   completed before the compensation started, last one first, for every set
   of activities and every number of attempts. *)
THEOREM RollbackIsExact == SagaSpec => []RolledBack
<1>1. SagaInv => RolledBack
  <2> SUFFICES ASSUME SagaInv, body = "compensated"
               PROVE  /\ Len(undone) = started
                      /\ \A i \in 1..started : undone[i] = completions[started + 1 - i]
    BY DEF RolledBack
  <2>1. started \in Nat /\ cursor = 0 /\ Len(undone) = started - cursor
    BY DEF SagaInv, SagaTypeOK
  <2>2. Len(undone) = started
    BY <2>1
  <2> QED BY <2>2 DEF SagaInv
<1> QED BY <1>1, SagaAlways, PTL

(* No activity's function runs again after it has returned. *)
THEOREM SuccessEndsRetries == SagaSpec => []RunsUntilSuccess
<1>1. SagaInv => RunsUntilSuccess
  BY DEF SagaInv, RunsUntilSuccess
<1> QED BY <1>1, SagaAlways, PTL
=============================================================================
