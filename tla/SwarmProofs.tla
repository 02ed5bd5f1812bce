------------------------------ MODULE SwarmProofs ------------------------------
(***************************************************************************)
(* What the swarm guarantees for every set of workers, however they are    *)
(* launched and end, and every max_concurrent.                             *)
(***************************************************************************)
EXTENDS Swarm, TLAPS

(* The controller calls a worker completed only after it has ended, and its
   status file says so. *)
CompletedIsOver ==
  \A w \in Worker :
    view[w] = "completed" =>
      process[w] = "exited" /\ finding[w] /\ stored[w] = "completed"

(* After a success nothing is left to do. *)
SuccessIsFinal ==
  summary = "SUCCESS" => phase = "done" /\ \A w \in Launched : view[w] = "completed"

SwarmInv == SwarmTypeOK /\ CompletedIsOver /\ SuccessIsFinal

LEMMA SwarmInitial == SwarmInit => SwarmInv
<1> SUFFICES ASSUME SwarmInit PROVE SwarmInv
  OBVIOUS
<1>1. SwarmTypeOK
  BY DEF SwarmInit, SwarmTypeOK, Status, Terminal
<1>2. CompletedIsOver /\ SuccessIsFinal
  BY DEF SwarmInit, CompletedIsOver, SuccessIsFinal
<1> QED BY <1>1, <1>2 DEF SwarmInv

(* A status is written as given or, if it would be late, not at all. *)
LEMMA WrittenStatus ==
  ASSUME SwarmTypeOK, NEW w \in Worker, NEW s \in Status, WriteStatus(w, s)
  PROVE  /\ stored' \in [Worker -> Status]
         /\ \A v \in Worker : v # w => stored'[v] = stored[v]
         /\ s \in Terminal => stored'[w] = s
         /\ stored[w] \in Terminal => stored'[w] \in Terminal
BY DEF WriteStatus, SwarmTypeOK

LEMMA StatusNames ==
  /\ Terminal \subseteq Status
  /\ {"completed", "failed", "timed_out", "cancelled"} = Terminal
  /\ {"none", "starting", "running"} \subseteq Status
  /\ \A s \in {"none", "starting", "running"} : s \notin Terminal
BY DEF Terminal, Status

(* A step that writes the status s of w and gives w the view v, without
   touching any process. *)
LEMMA ViewStep ==
  ASSUME SwarmInv, summary # "SUCCESS",
         NEW w \in Worker, NEW s \in Status \ {"none"}, WriteStatus(w, s),
         view' \in [Worker -> Status],
         \A u \in Worker : u # w => view'[u] = view[u],
         view'[w] = "completed" =>
           process[w] = "exited" /\ finding[w] /\ (s = "completed" \/ view[w] = "completed"),
         s \in Terminal \ {"completed"} => view'[w] # "completed",
         UNCHANGED <<finding, process, rc, summary>>,
         phase' \in {"launching", "storing", "waiting", "sweeping", "done", "dead"},
         agenda' \subseteq Worker
  PROVE  SwarmInv'
<1>1. /\ stored' \in [Worker -> Status]
      /\ \A v \in Worker : v # w => stored'[v] = stored[v]
      /\ s \in Terminal => stored'[w] = s
      /\ stored[w] \in Terminal /\ s \notin Terminal => stored'[w] = stored[w]
  BY WrittenStatus DEF SwarmInv, WriteStatus, SwarmTypeOK
<1>2. SwarmTypeOK'
  BY <1>1 DEF SwarmInv, SwarmTypeOK
<1>3. CompletedIsOver'
  <2>1. "completed" \in Terminal
    BY DEF Terminal
  <2> QED BY <1>1, <2>1 DEF SwarmInv, CompletedIsOver
<1>4. SuccessIsFinal'
  BY DEF SuccessIsFinal
<1> QED BY <1>2, <1>3, <1>4 DEF SwarmInv

(* A step that moves the process of a living worker on. *)
LEMMA ProcessStep ==
  ASSUME SwarmInv, NEW w \in Alive,
         NEW pc \in {"working", "reporting", "ending", "exited"}, Proceed(w, pc),
         stored' \in [Worker -> Status],
         \A u \in Worker : u # w => stored'[u] = stored[u],
         finding' \in [Worker -> BOOLEAN],
         \A u \in Worker : u # w => finding'[u] = finding[u],
         rc' \in [Worker -> {0, 1}],
         UNCHANGED <<view, phase, agenda, summary>>
  PROVE  SwarmInv'
<1>1. w \in Worker /\ process[w] # "exited" /\ process[w] # "none"
  BY DEF Alive
<1>2. view[w] # "completed"
  BY <1>1 DEF SwarmInv, CompletedIsOver
<1>3. process' = [process EXCEPT ![w] = pc]
  BY DEF Proceed
<1>4. SwarmTypeOK'
  BY <1>3 DEF SwarmInv, SwarmTypeOK
<1>5. CompletedIsOver'
  BY <1>2, <1>3 DEF SwarmInv, SwarmTypeOK, CompletedIsOver
<1>6. SuccessIsFinal'
  BY DEF SwarmInv, SuccessIsFinal, Launched
<1> QED BY <1>4, <1>5, <1>6 DEF SwarmInv

(* A step of the controller that looks at nobody's process or status. *)
LEMMA PhaseStep ==
  ASSUME SwarmInv, UNCHANGED <<view, stored, finding, process, rc>>,
         phase' \in {"launching", "storing", "waiting", "sweeping", "done", "dead"},
         agenda' \subseteq Worker,
         summary' \in {"unknown", "SUCCESS", "PARTIAL", "FAILED"},
         summary' = "SUCCESS" =>
           phase' = "done" /\ \A w \in Launched : view[w] = "completed"
  PROVE  SwarmInv'
BY DEF SwarmInv, SwarmTypeOK, CompletedIsOver, SuccessIsFinal, Launched

LEMMA NotDoneYet == SwarmInv /\ phase # "done" => summary # "SUCCESS"
BY DEF SwarmInv, SuccessIsFinal

LEMMA SettleKeeps ==
  ASSUME SwarmInv, NEW w \in Worker, Settle(w), phase # "done", agenda' \subseteq Worker
  PROVE  SwarmInv'
<1>1. Outcome(w) \in {"completed", "failed"} /\ Outcome(w) \in Status \ {"none"}
  BY DEF Outcome, Status, Terminal
<1>2. Outcome(w) = "completed" => finding[w]
  BY DEF Outcome
<1>3. /\ WriteStatus(w, Outcome(w))
      /\ view' = [view EXCEPT ![w] = Outcome(w)]
      /\ process[w] = "exited"
      /\ UNCHANGED <<finding, process, rc, phase, summary>>
  BY DEF Settle, SetView
<1>4. view \in [Worker -> Status]
  BY DEF SwarmInv, SwarmTypeOK
<1>5. phase' \in {"launching", "storing", "waiting", "sweeping", "done", "dead"}
  BY <1>3 DEF SwarmInv, SwarmTypeOK
<1> QED BY <1>1, <1>2, <1>3, <1>4, <1>5, NotDoneYet, ViewStep

(* The view and the status of w become s, a terminal state without success. *)
LEMMA GiveUpKeeps ==
  ASSUME SwarmInv, phase # "done",
         NEW w \in Worker, NEW s \in {"failed", "timed_out", "cancelled"},
         WriteStatus(w, s), SetView(w, s), UNCHANGED <<finding, process, rc, summary>>,
         phase' \in {"launching", "storing", "waiting", "sweeping", "done", "dead"},
         agenda' \subseteq Worker
  PROVE  SwarmInv'
<1>1. s \in Status \ {"none"} /\ s # "completed"
  BY DEF Status, Terminal
<1>2. view \in [Worker -> Status] /\ view' = [view EXCEPT ![w] = s]
  BY DEF SwarmInv, SwarmTypeOK, SetView
<1> QED BY <1>1, <1>2, NotDoneYet, ViewStep

LEMMA TimeOutKeeps ==
  ASSUME SwarmInv, NEW w \in Worker, TimeOut(w), phase # "done", agenda' \subseteq Worker
  PROVE  SwarmInv'
<1>1. CASE phase' = "dead" /\ UNCHANGED <<view, stored>>
  <2>1. UNCHANGED <<view, stored, finding, process, rc, summary>>
    BY <1>1 DEF TimeOut
  <2>2. summary' # "SUCCESS" /\ summary' \in {"unknown", "SUCCESS", "PARTIAL", "FAILED"}
    BY <2>1, NotDoneYet DEF SwarmInv, SwarmTypeOK
  <2> QED BY <1>1, <2>1, <2>2, PhaseStep
<1>2. CASE SetView(w, "timed_out") /\ WriteStatus(w, "timed_out") /\ UNCHANGED phase
  BY <1>2, GiveUpKeeps DEF TimeOut, SwarmInv, SwarmTypeOK
<1> QED BY <1>1, <1>2 DEF TimeOut

LEMMA LaunchKeeps ==
  ASSUME SwarmInv, NEW w \in Worker, Launch(w)
  PROVE  SwarmInv'
<1>1. /\ view[w] = "none" /\ phase = "launching"
      /\ WriteStatus(w, "starting")
      /\ view' = [view EXCEPT ![w] = "running"]
      /\ process' = [process EXCEPT ![w] = "born"]
      /\ phase' = "storing" /\ agenda' = {w}
      /\ UNCHANGED <<finding, rc, summary>>
  BY DEF Launch, SetView
<1>2. "starting" \in Status /\ "running" \in Status
  BY DEF Status
<1>3. /\ stored' \in [Worker -> Status]
      /\ \A v \in Worker : v # w => stored'[v] = stored[v]
  BY <1>1, <1>2, WrittenStatus DEF SwarmInv
<1>4. SwarmTypeOK'
  BY <1>1, <1>2, <1>3 DEF SwarmInv, SwarmTypeOK
<1>5. CompletedIsOver'
  BY <1>1, <1>3 DEF SwarmInv, SwarmTypeOK, CompletedIsOver
<1>6. SuccessIsFinal'
  BY <1>1, NotDoneYet DEF SuccessIsFinal
<1> QED BY <1>4, <1>5, <1>6 DEF SwarmInv

LEMMA StoreRunningKeeps ==
  ASSUME SwarmInv, StoreRunning
  PROVE  SwarmInv'
<1>1. PICK w \in agenda : \/ WriteStatus(w, "running") /\ UNCHANGED view
                          \/ WriteStatus(w, "failed") /\ SetView(w, "failed")
  BY DEF StoreRunning
<1>2. w \in Worker /\ view \in [Worker -> Status]
  BY DEF SwarmInv, SwarmTypeOK
<1>3. phase = "storing" /\ phase' = "launching" /\ agenda' = {}
  BY DEF StoreRunning
<1>4. UNCHANGED <<finding, process, rc, summary>>
  BY DEF StoreRunning
<1>5. CASE WriteStatus(w, "running") /\ UNCHANGED view
  <2>1. "running" \in Status \ {"none"} /\ "running" \notin Terminal
    BY DEF Status, Terminal
  <2>2. view[w] = "completed" => process[w] = "exited" /\ finding[w]
    BY <1>2 DEF SwarmInv, CompletedIsOver
  <2> QED BY <1>2, <1>3, <1>4, <1>5, <2>1, <2>2, NotDoneYet, ViewStep
<1>6. CASE WriteStatus(w, "failed") /\ SetView(w, "failed")
  BY <1>2, <1>3, <1>4, <1>6, GiveUpKeeps
<1> QED BY <1>1, <1>5, <1>6

LEMMA RevokeKeeps ==
  ASSUME SwarmInv, NEW w \in Worker, Revoke(w)
  PROVE  SwarmInv'
<1>1. /\ phase = "launching" /\ agenda' = agenda /\ agenda \subseteq Worker
      /\ UNCHANGED <<finding, process, rc, summary>>
  BY DEF Revoke, SwarmInv, SwarmTypeOK
<1>2. CASE phase' = "dead" /\ UNCHANGED <<view, stored>>
  <2>1. summary' # "SUCCESS" /\ summary' \in {"unknown", "SUCCESS", "PARTIAL", "FAILED"}
    BY <1>1, NotDoneYet DEF SwarmInv, SwarmTypeOK
  <2> QED BY <1>1, <1>2, <2>1, PhaseStep
<1>3. CASE SetView(w, "cancelled") /\ WriteStatus(w, "cancelled") /\ UNCHANGED phase
  BY <1>1, <1>3, GiveUpKeeps
<1> QED BY <1>2, <1>3 DEF Revoke

LEMMA WorkerKeeps ==
  ASSUME SwarmInv, NEW w \in Worker,
         WorkerStarts(w) \/ WorkerCompletes(w) \/ WorkerReports(w)
           \/ WorkerFails(w) \/ WorkerExits(w) \/ WorkerDies(w)
  PROVE  SwarmInv'
<1>1. /\ stored \in [Worker -> Status]
      /\ finding \in [Worker -> BOOLEAN]
      /\ rc \in [Worker -> {0, 1}]
      /\ SwarmTypeOK
  BY DEF SwarmInv, SwarmTypeOK
<1>2. {"running", "completed", "failed"} \subseteq Status
  BY DEF Status, Terminal
<1>3. CASE WorkerStarts(w)
  <2>1. w \in Alive
    BY <1>3 DEF WorkerStarts, Alive
  <2>2. WriteStatus(w, "running") /\ Proceed(w, "working") /\ UNCHANGED <<view, finding, rc, phase, agenda, summary>>
    BY <1>3 DEF WorkerStarts
  <2> QED BY <1>1, <1>2, <2>1, <2>2, WrittenStatus, ProcessStep
<1>4. CASE WorkerCompletes(w)
  <2>1. w \in Alive
    BY <1>4 DEF WorkerCompletes, Alive
  <2>2. WriteStatus(w, "completed") /\ Proceed(w, "reporting") /\ UNCHANGED <<view, finding, rc, phase, agenda, summary>>
    BY <1>4 DEF WorkerCompletes
  <2> QED BY <1>1, <1>2, <2>1, <2>2, WrittenStatus, ProcessStep
<1>5. CASE WorkerReports(w)
  <2>1. w \in Alive
    BY <1>5 DEF WorkerReports, Alive
  <2>2. finding' = [finding EXCEPT ![w] = TRUE] /\ Proceed(w, "ending") /\ UNCHANGED <<view, stored, rc, phase, agenda, summary>>
    BY <1>5 DEF WorkerReports
  <2>3. finding' \in [Worker -> BOOLEAN] /\ \A u \in Worker : u # w => finding'[u] = finding[u]
    BY <1>1, <2>2
  <2> QED BY <1>1, <2>1, <2>2, <2>3, ProcessStep
<1>6. CASE WorkerFails(w)
  <2>1. /\ w \in Alive /\ WriteStatus(w, "failed") /\ Proceed(w, "exited")
        /\ rc' = [rc EXCEPT ![w] = 1] /\ UNCHANGED <<view, finding, phase, agenda, summary>>
    BY <1>6 DEF WorkerFails
  <2> QED BY <1>1, <1>2, <2>1, WrittenStatus, ProcessStep
<1>7. CASE WorkerExits(w)
  <2>1. w \in Alive /\ Proceed(w, "exited")
    BY <1>7 DEF WorkerExits, Alive
  <2> QED BY <1>1, <1>7, <2>1, ProcessStep DEF WorkerExits
<1>8. CASE WorkerDies(w)
  BY <1>1, <1>8, ProcessStep DEF WorkerDies
<1> QED BY <1>3, <1>4, <1>5, <1>6, <1>7, <1>8

LEMMA SwarmStep == ASSUME SwarmInv, [SwarmNext]_swarmVars PROVE SwarmInv'
<1> DEFINE Phases == {"launching", "storing", "waiting", "sweeping", "done", "dead"}
<1>1. /\ phase \in Phases
      /\ agenda \subseteq Worker
      /\ summary \in {"unknown", "SUCCESS", "PARTIAL", "FAILED"}
  BY DEF SwarmInv, SwarmTypeOK
<1>2. CASE StoreRunning
  BY <1>2, StoreRunningKeeps
<1>3. CASE BeginWait
  <2>1. summary # "SUCCESS"
    BY <1>3, NotDoneYet DEF BeginWait
  <2> QED BY <1>1, <1>3, <2>1, PhaseStep DEF BeginWait
<1>4. CASE EndWait
  <2>1. summary # "SUCCESS"
    BY <1>4, NotDoneYet DEF EndWait
  <2>2. agenda' \subseteq Worker
    BY <1>4 DEF EndWait
  <2> QED BY <1>1, <1>4, <2>1, <2>2, PhaseStep DEF EndWait
<1>5. CASE Summarise
  <2>1. Result \in {"SUCCESS", "PARTIAL", "FAILED"}
        /\ (Result = "SUCCESS" => \A w \in Launched : view[w] = "completed")
    BY DEF Result
  <2> QED BY <1>1, <1>5, <2>1, PhaseStep DEF Summarise
<1>6. ASSUME NEW w \in Worker, Launch(w) PROVE SwarmInv'
  BY <1>6, LaunchKeeps
<1>7. ASSUME NEW w \in Worker, LaunchFails(w) PROVE SwarmInv'
  BY <1>1, <1>7, GiveUpKeeps DEF LaunchFails
<1>8. ASSUME NEW w \in Worker, Revoke(w) PROVE SwarmInv'
  BY <1>8, RevokeKeeps
<1>9. ASSUME NEW w \in Worker,
             WorkerStarts(w) \/ WorkerCompletes(w) \/ WorkerReports(w)
               \/ WorkerFails(w) \/ WorkerExits(w) \/ WorkerDies(w)
      PROVE  SwarmInv'
  BY <1>9, WorkerKeeps
<1>10. ASSUME NEW w \in Worker, Poll(w) PROVE SwarmInv'
  <2>1. phase # "done" /\ agenda' \subseteq Worker /\ (Settle(w) \/ TimeOut(w))
    BY <1>1, <1>10 DEF Poll
  <2> QED BY <2>1, SettleKeeps, TimeOutKeeps
<1>11. ASSUME NEW w \in Worker, SupervisorFails(w) PROVE SwarmInv'
  BY <1>1, <1>11, GiveUpKeeps DEF SupervisorFails
<1>12. ASSUME NEW w \in Worker, Sweep(w) PROVE SwarmInv'
  <2>1. phase # "done" /\ agenda' \subseteq Worker
    BY <1>1, <1>12 DEF Sweep
  <2>2. CASE Settle(w) \/ TimeOut(w)
    BY <2>1, <2>2, SettleKeeps, TimeOutKeeps
  <2>3. CASE UNCHANGED <<view, stored, finding, process, rc, phase, summary>>
    <3>1. summary # "SUCCESS"
      BY <2>1, NotDoneYet
    <3> QED BY <1>1, <2>1, <2>3, <3>1, PhaseStep
  <2> QED BY <1>12, <2>2, <2>3 DEF Sweep
<1>13. CASE UNCHANGED swarmVars
  BY <1>13 DEF swarmVars, SwarmInv, SwarmTypeOK, CompletedIsOver, SuccessIsFinal,
               Launched
<1> QED BY <1>2, <1>3, <1>4, <1>5, <1>6, <1>7, <1>8, <1>9, <1>10, <1>11, <1>12, <1>13
        DEF SwarmNext

LEMMA SwarmInvariant == SwarmSpec => []SwarmInv
BY SwarmInitial, SwarmStep, PTL DEF SwarmSpec

(* Every variable keeps its type. *)
THEOREM SwarmTypeCorrect == SwarmSpec => []SwarmTypeOK
<1>1. SwarmInv => SwarmTypeOK
  BY DEF SwarmInv
<1> QED BY <1>1, SwarmInvariant, PTL

(* SUCCESS is only said of a swarm whose workers have all ended and succeeded. *)
THEOREM SuccessIsHonest == SwarmSpec => []HonestSuccess
<1>1. SwarmInv => HonestSuccess
  BY DEF SwarmInv, CompletedIsOver, SuccessIsFinal, HonestSuccess, Launched
<1> QED BY <1>1, SwarmInvariant, PTL

-----------------------------------------------------------------------------
(* Only WriteStatus writes a status. *)
LEMMA StatusWriters ==
  SwarmInv /\ [SwarmNext]_swarmVars =>
    UNCHANGED stored \/ \E w \in Worker, s \in Status : WriteStatus(w, s)
<1> SUFFICES ASSUME SwarmInv, [SwarmNext]_swarmVars
             PROVE  UNCHANGED stored \/ \E w \in Worker, s \in Status : WriteStatus(w, s)
  OBVIOUS
<1>1. {"starting", "running", "failed", "completed", "timed_out", "cancelled"} \subseteq Status
  BY DEF Status, Terminal
<1>2. agenda \subseteq Worker
  BY DEF SwarmInv, SwarmTypeOK
<1>3. ASSUME NEW w \in Worker, Settle(w)
      PROVE  \E s \in Status : WriteStatus(w, s)
  <2>1. Outcome(w) \in Status
    BY <1>1 DEF Outcome
  <2> QED BY <1>3, <2>1 DEF Settle
<1>4. ASSUME NEW w \in Worker, TimeOut(w)
      PROVE  UNCHANGED stored \/ \E s \in Status : WriteStatus(w, s)
  BY <1>1, <1>4 DEF TimeOut
<1>5. ASSUME NEW w \in Worker, Sweep(w) \/ Poll(w)
      PROVE  UNCHANGED stored \/ \E s \in Status : WriteStatus(w, s)
  BY <1>3, <1>4, <1>5 DEF Sweep, Poll
<1>6. ASSUME StoreRunning PROVE \E w \in Worker, s \in Status : WriteStatus(w, s)
  BY <1>1, <1>2, <1>6 DEF StoreRunning
<1>7. ASSUME NEW w \in Worker,
             Launch(w) \/ LaunchFails(w) \/ Revoke(w) \/ SupervisorFails(w)
      PROVE  UNCHANGED stored \/ \E s \in Status : WriteStatus(w, s)
  BY <1>1, <1>7 DEF Launch, LaunchFails, Revoke, SupervisorFails
<1>8. ASSUME NEW w \in Worker,
             WorkerStarts(w) \/ WorkerCompletes(w) \/ WorkerReports(w)
               \/ WorkerFails(w) \/ WorkerExits(w) \/ WorkerDies(w)
      PROVE  UNCHANGED stored \/ \E s \in Status : WriteStatus(w, s)
  BY <1>1, <1>8 DEF WorkerStarts, WorkerCompletes, WorkerReports, WorkerFails,
                    WorkerExits, WorkerDies
<1>9. ASSUME BeginWait \/ EndWait \/ Summarise \/ UNCHANGED swarmVars
      PROVE  UNCHANGED stored
  BY <1>9 DEF BeginWait, EndWait, Summarise, swarmVars
<1> QED BY <1>5, <1>6, <1>7, <1>8, <1>9 DEF SwarmNext

LEMMA TerminalStep ==
  SwarmInv /\ [SwarmNext]_swarmVars =>
    [\A w \in Worker : stored[w] \in Terminal => stored'[w] \in Terminal]_swarmVars
<1> SUFFICES ASSUME SwarmInv, [SwarmNext]_swarmVars, NEW w \in Worker,
                    stored[w] \in Terminal
             PROVE  stored'[w] \in Terminal
  OBVIOUS
<1>1. CASE UNCHANGED stored
  BY <1>1
<1>2. ASSUME NEW v \in Worker, NEW s \in Status, WriteStatus(v, s)
      PROVE  stored'[w] \in Terminal
  <2>1. SwarmTypeOK
    BY DEF SwarmInv
  <2>2. /\ \A u \in Worker : u # v => stored'[u] = stored[u]
        /\ stored[v] \in Terminal => stored'[v] \in Terminal
    BY <1>2, <2>1, WrittenStatus
  <2> QED BY <2>2
<1> QED BY <1>1, <1>2, StatusWriters

(* A worker that has ended is never again reported as under way, whichever
   process writes last. *)
THEOREM TerminalAlwaysSticks == SwarmSpec => TerminalSticks
BY SwarmInvariant, TerminalStep, PTL DEF SwarmSpec, TerminalSticks

-----------------------------------------------------------------------------
(* Who misjudges a worker.                                                 *)

(* A worker that ended with 0 has left its findings, and none is launched
   twice. *)
EndsWithFindings ==
  \A w \in Worker :
    /\ process[w] = "ending" \/ (process[w] = "exited" /\ rc[w] = 0) => finding[w]
    /\ process[w] # "none" => view[w] # "none"

LEMMA EndsStep ==
  ASSUME SwarmTypeOK, EndsWithFindings, [SwarmNext]_swarmVars
  PROVE  EndsWithFindings'
<1> USE DEF SwarmTypeOK, EndsWithFindings
<1>1. ASSUME UNCHANGED <<process, rc, finding>>,
             \A w \in Worker : view[w] # "none" => view'[w] # "none"
      PROVE  EndsWithFindings'
  BY <1>1
<1>2. ASSUME NEW w \in Worker, Launch(w) PROVE EndsWithFindings'
  BY <1>2 DEF Launch, SetView
<1>3. ASSUME NEW w \in Worker,
             WorkerStarts(w) \/ WorkerCompletes(w) \/ WorkerReports(w)
      PROVE  EndsWithFindings'
  BY <1>3 DEF WorkerStarts, WorkerCompletes, WorkerReports, Proceed
<1>4. ASSUME NEW w \in Worker, WorkerFails(w) \/ WorkerDies(w)
      PROVE  EndsWithFindings'
  BY <1>4 DEF WorkerFails, WorkerDies, Proceed, Alive
<1>5. ASSUME NEW w \in Worker, WorkerExits(w) PROVE EndsWithFindings'
  BY <1>5 DEF WorkerExits, Proceed
<1>6. ASSUME NEW w \in Worker,
             \/ LaunchFails(w) \/ Revoke(w) \/ SupervisorFails(w)
             \/ Settle(w) \/ TimeOut(w)
      PROVE  EndsWithFindings'
  <2>1. UNCHANGED <<process, rc, finding>>
    BY <1>6 DEF LaunchFails, Revoke, SupervisorFails, Settle, TimeOut
  <2>2. UNCHANGED view \/ \E s \in Status \ {"none"} : SetView(w, s)
    BY <1>6 DEF LaunchFails, Revoke, SupervisorFails, Settle, TimeOut, Outcome,
       Status, Terminal
  <2>3. \A u \in Worker : view[u] # "none" => view'[u] # "none"
    BY <2>2 DEF SetView
  <2> QED BY <1>1, <2>1, <2>3
<1>7. ASSUME NEW w \in Worker, Poll(w) \/ Sweep(w) PROVE EndsWithFindings'
  BY <1>1, <1>6, <1>7 DEF Poll, Sweep
<1>8. CASE StoreRunning
  <2>1. UNCHANGED <<process, rc, finding>>
    BY <1>8 DEF StoreRunning
  <2>2. \A u \in Worker : view[u] # "none" => view'[u] # "none"
    BY <1>8 DEF StoreRunning, SetView
  <2> QED BY <1>1, <2>1, <2>2
<1>9. CASE BeginWait \/ EndWait \/ Summarise \/ UNCHANGED swarmVars
  BY <1>1, <1>9 DEF BeginWait, EndWait, Summarise, swarmVars
<1> QED BY <1>2, <1>3, <1>4, <1>5, <1>6, <1>7, <1>8, <1>9 DEF SwarmNext

(* The steps that declare a worker failed. *)
LEMMA WhoDeclaresFailed ==
  ASSUME SwarmTypeOK, EndsWithFindings, [SwarmNext]_swarmVars, NEW w \in Worker,
         Open(w), process[w] = "exited", rc[w] = 0, view'[w] = "failed"
  PROVE  SupervisorFails(w) \/ StoreRunning
<1> USE DEF SwarmTypeOK
<1>0. view[w] # "failed" /\ finding[w]
  BY DEF Open, Terminal, EndsWithFindings
<1>1. view' # view
  BY <1>0
<1>2. ASSUME NEW u \in Worker, Launch(u) \/ Revoke(u) PROVE FALSE
  BY <1>0, <1>2 DEF Launch, Revoke, SetView
<1>3. ASSUME NEW u \in Worker, TimeOut(u) PROVE FALSE
  BY <1>0, <1>3 DEF TimeOut, SetView
<1>4. ASSUME NEW u \in Worker, Settle(u) PROVE FALSE
  <2>1. view' = [view EXCEPT ![u] = Outcome(u)]
    BY <1>4 DEF Settle, SetView
  <2>2. Outcome(w) = "completed"
    BY <1>0 DEF Outcome
  <2> QED BY <1>0, <2>1, <2>2
<1>5. ASSUME NEW u \in Worker, Poll(u) \/ Sweep(u) PROVE FALSE
  BY <1>1, <1>3, <1>4, <1>5 DEF Poll, Sweep
<1>6. ASSUME NEW u \in Worker, LaunchFails(u) \/ SupervisorFails(u)
      PROVE  u = w /\ SupervisorFails(w)
  <2>1. u = w
    BY <1>0, <1>6 DEF LaunchFails, SupervisorFails, SetView
  <2>2. ~LaunchFails(w)
    BY DEF LaunchFails, EndsWithFindings
  <2> QED BY <1>6, <2>1, <2>2
<1>7. ASSUME NEW u \in Worker,
             \/ WorkerStarts(u) \/ WorkerCompletes(u) \/ WorkerReports(u)
             \/ WorkerFails(u) \/ WorkerExits(u) \/ WorkerDies(u)
      PROVE  FALSE
  BY <1>1, <1>7 DEF WorkerStarts, WorkerCompletes, WorkerReports, WorkerFails,
     WorkerExits, WorkerDies
<1>8. ASSUME BeginWait \/ EndWait \/ Summarise \/ UNCHANGED swarmVars PROVE FALSE
  BY <1>1, <1>8 DEF BeginWait, EndWait, Summarise, swarmVars
<1> QED BY <1>2, <1>5, <1>6, <1>7, <1>8 DEF SwarmNext

(* HonestOutcome fails through the supervisor only: a worker that exited
   with 0 has left its findings, and every other look at it calls it
   completed, unless the write that ends its launch fails. *)
THEOREM SupervisorMisjudges ==
  SwarmSpec =>
    [][\A w \in Worker :
         /\ Open(w) /\ process[w] = "exited" /\ rc[w] = 0
         /\ view'[w] = "failed"
         => SupervisorFails(w) \/ StoreRunning]_swarmVars
<1>1. SwarmInit => EndsWithFindings
  BY DEF SwarmInit, EndsWithFindings
<1>2. SwarmTypeOK /\ EndsWithFindings /\ [SwarmNext]_swarmVars =>
        EndsWithFindings'
  BY EndsStep
<1>3. SwarmTypeOK /\ EndsWithFindings /\ [SwarmNext]_swarmVars =>
        [\A w \in Worker :
           /\ Open(w) /\ process[w] = "exited" /\ rc[w] = 0
           /\ view'[w] = "failed"
           => SupervisorFails(w) \/ StoreRunning]_swarmVars
  BY WhoDeclaresFailed
<1> QED BY <1>1, <1>2, <1>3, SwarmTypeCorrect, PTL DEF SwarmSpec
=============================================================================
