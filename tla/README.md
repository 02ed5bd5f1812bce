# SintraPrime-Unified: a verification project

SintraPrime-Unified is a Python (and partly TypeScript) platform for legal
practice: a FastAPI portal over PostgreSQL, a durable workflow engine, agent
and swarm runtimes, and many packages of domain knowledge and integrations.
This directory holds TLA+ models of the parts in which several actors share
state, TLC configurations that check them on small instances, and theorems
that TLAPS proves for every instance.

All paths below are relative to the repository's root.

## 1. Inventory

### 1.1 Components that keep shared state

**Durable workflow engine** (`orchestration/durable_execution.py`).
*State*: an SQLite store (`workflows`, `history`, `activities`,
`side_effects`) shared by every engine process; per process the asyncio tasks
that run workflow bodies and the flag that admission is open.
*Operations*: `start_workflow`, `_dispatch_workflow`, `_run_workflow`,
`recover_dispatches`, `start_recovery_worker`, `cancel_workflow`,
`resume_workflow`, `shutdown`, `execute_idempotent_side_effect`, and the
activities, retries and compensations a body performs.
*Hard*: processes interleave between SQL statements, leases expire under
owners that only stall, a process dies between any two statements, a record
loaded before an `await` is saved whole after it, a provider's timeout says
nothing.
*Correct if*: a body is entered at most once; leases are coherent; what has
left dispatch does not return; what was claimed is dispatched; an idempotency
key has one receipt and one external mutation; cancellation and signals last;
a failed body undoes what it had completed, in reverse order.

**Mission Control** (`portal/services/mission_control_command_service.py`,
`mission_control_approval_service.py`, `durable_orchestration_authority.py`,
`portal/database.py`, the two Mission Control routers).
*State*: the tables `runs`, `mission_control_run_approvals`,
`mission_control_commands` (and their events and receipts), one transaction
per HTTP request; the engine's store outside the transaction.
*Operations*: submit a command (start, cancel, refusal-only), approve or
reject a run, activate an approved run.
*Hard*: READ COMMITTED transactions check rows and update them later by
primary key; unique constraints and row locks make requests wait; a rollback
does not undo `start_workflow`.
*Correct if*: nothing runs without a committed approval; the runs table tells
the truth about the engine; an approval is neither wasted nor used twice; one
idempotency key has one command; no request waits for ever.

**Durable missions and reconciliation** (`mission_wiring/`). *State*: mission
records in memory, written through to a store at every transition; a
reconciliation queue in memory. *Operations*: request, approve, record intent,
execute, record outcome, cancel, resolve; enqueue, review, resolve an item;
recover after a restart. *Hard*: crashes between two saves, saves that raise
with memory already changed, UNKNOWN outcomes, calls in an unusual order.
*Correct if*: no external effect is executed twice or without a record, and
every unclear one is put before an operator, once.

**Run control** (`portal/services/mission_control_run_control_service.py`).
*State*: one control row per run with `state_version`, a hash-chained event
list. *Operations*: create, guarded transitions by compare-and-swap. *Hard*:
overlapping READ COMMITTED transactions of several calls. *Correct if*:
transitions follow the table, events and row agree, history only grows.

**Scheduler** (`scheduler/`). *State*: a heap with an index, readers that wait
on it; task statuses, timers, one timer slot per task. *Operations*: enqueue,
dequeue, promote, remove; schedule, cancel, pause, resume, start, stop, fire,
run. *Hard*: the heap's stale entries with several readers; timer threads and
the API write the same task object. *Correct if*: tasks come in order and
once, no reader sleeps beside work, cancelled tasks stay so, recurring tasks
recur. The API's endpoints run in threads of their own.

**Swarm runtime** (`swarm_runtime/`). *State*: the controller's view of its
workers, their processes, the status and findings files. *Operations*:
launch, poll, supervise, revoke, report. *Hard*: two writers of one status
file; decisions on a view that is as old as the launch. *Correct if*: SUCCESS
is true and final, what has ended is not reported as running.

**Governance engine** (`governance/`). *State*: agent statuses and the
emergency flag, approval requests. *Operations*: register, pause, resume,
terminate, kill, stop and clear, the dead man's switch; request, approve,
reject, expire, wait. *Hard*: flags and statuses read outside the lock.
*Correct if*: an emergency stop holds, an allowed call was approved.

**Agent runtime** (`agent_runtime/`), **cancellation bus**, **portal
orchestration planner**, **Stripe webhooks** and the rest are listed in
`PROJECT.json` with the reason each is left out (see section 6).

### 1.2 How they interact

The routers call the command and approval services with the request's
database session. Both call `DurableOrchestrationAuthority`, which writes
`runs` in the session and calls the engine for `start_workflow` and
`cancel_workflow`. The engine keeps its own store, runs bodies
(`portal/services/legal_workflow_handler.py` is the one registered in
production) as asyncio tasks and offers them
`execute_idempotent_side_effect`. Missions, agents, swarm and scheduler have
stores of their own and meet the rest only through their callers.

The rest of the repository (phases, universe core, agents, domain packages,
TypeScript applications, adapters) is listed component by component in
`PROJECT.json`; it is request-response code, pure computation, data or user
interface.

## 2. Modules

| module | models | role |
|---|---|---|
| `DurableDispatch` | start, dispatch, run, recovery, cancel, resume, shutdown | detailed model |
| `WorkflowLifecycle` | the engine's promise to a client | abstract specification, implemented by `DurableDispatch` |
| `DurableDispatchProofs` | | theorems |
| `SideEffects` | `execute_idempotent_side_effect` for one key | detailed model |
| `DecidedOnce` | the promise of an idempotency key | abstract specification, implemented by `SideEffects` |
| `SideEffectsProofs` | | theorems |
| `GovernedRun` | command ledger, approvals, dispatch of runs | detailed model, with the engine reduced to what the portal sees |
| `RunApproval` | the promise to the Principal about a run that needs an approval | abstract specification, implemented by `GovernedRun` |
| `GovernedRunProofs` | | theorems |
| `ActivitySaga` | activities with retries, compensations of a failed body | detailed model; its theorems are in `ControlProofs` |
| `MissionLifecycle` | missions, reconciliation queue, restart census | detailed model |
| `AccountedEffect` | an effect contacted and settled at most once | abstract specification, implemented by `MissionLifecycle` |
| `MissionLifecycleProofs` | | theorems |
| `TaskQueue` | `scheduler/task_queue.py` | detailed model |
| `PriorityQueue` | a set of waiting tasks served in order | abstract specification, implemented by `TaskQueue` |
| `TaskTimers` | `scheduler/task_scheduler.py` on its timers | detailed model |
| `SchedulerProofs` | | theorems on both |
| `Swarm`, `SwarmProofs` | controller, supervisor, workers | detailed model, theorems |
| `RunControl` | control row and event chain | detailed model |
| `Governance` | intervention controller, approval gate, `before_action` | detailed model |
| `ControlProofs` | | theorems on run control, governance and sagas |
| `MCComponents` | the seven components that share no state, in one instance | for TLC |
| `ComponentsProofs` | | theorems: the composition is what each component is alone |
| `MCDurableDispatch`, `MCGovernedRun` | a bound each, and a symmetry set | for TLC |

The components of `MCComponents` call nothing of each other and read no
variable of each other; `focus` picks the one that moves, so TLC explores each
as if it were alone, from its own initial state.

### 2.1 DurableDispatch

One SQL statement (each `DurableStore` method commits by itself) is one
action. Coroutines of one process give way only at a real suspension: `Busy`,
`Idle` and `Serving` express the event loop, so of one process at most one
coroutine is between two statements, while the statements of different
processes interleave freely.

| TLA+ | code |
|---|---|
| `row[w]` | the row of `workflows`: status, request hash, dispatch owner and lease, and the signals in its state |
| `history[w]` | how many history events of each type |
| `call[c]` | a call of `start_workflow`, `cancel_workflow`, `resume_workflow`, with the record it has loaded |
| `task[t]` | a task made by `_dispatch_workflow`, with the record `_run_workflow` has loaded (`snap`) |
| `worker[e]` | the list `recover_dispatches` is walking through |
| `StartWorkflow`, `StartInsert`, `StartReload`, `StartLogClaimed`, `StartDispatch` | the statements of `start_workflow`, in order |
| `ClaimDispatch`, `Handoff` | `try_claim_dispatch` and the rest of `_dispatch_workflow` |
| `Release`, `Begin`, `BodyReturns`, ..., `SaveCompensated` | the statements of `_run_workflow` |
| `RecoverFind`, `RecoverDispatch` | `recover_dispatches` |
| `Cancel...`, `Resume...` | load, save and log of `cancel_workflow` and `resume_workflow` |
| `Boot`, `Crash`, `Shutdown`, `ShutdownEnds` | the life of a process |
| `ExpireLease` | the clock passes `dispatch_lease_expires_at` |

Time: the code only compares a lease with now, so a lease is `live` or
`expired`. An expired lease whose owner is alive is a stall; `MaxStalls`
bounds those. A lease whose owner is dead may always expire.

Left out: `WAITING` and `COMPENSATING`, which no statement writes; I/O errors
of SQLite; the batch limit of the recovery query; dispatch attempt counts;
inputs JSON cannot encode (for results the case is one outcome of
`BodyReturns`). A run's activities are part of its body.

### 2.2 SideEffects

One key, any number of callers, each in a process of its own (the strongest
interleaving). Every await is open to the steps of all others: `Verify` is the
moment the provider looks for the key, `SendRequest` the later one in which the
caller calls `provider.execute` on that answer. The owner id is a fresh uuid
per call and is modelled by the call. The provider is external: `Land` applies a request, `Drop` loses it,
`Found` is what `verify_or_reconcile` reports, and `MayGiveUp` says whether a
caller may stop waiting while its request is still under way. `Verifies` and
`Prompt` describe the provider; `MaxTimeouts` bounds `TimeoutError`s, without
which callers could time out for ever one after the other.

`Crash` stands for the death of the process and for cancellation of the task;
at `complete` also for a result JSON cannot encode. `hook` is the
`fail_receipt_once` attribute by which a provider makes the caller lose its
acknowledgement. `provider_request_id` and attempt counts are left out. The
function has no caller outside the engine module and its tests today.

### 2.3 GovernedRun

One action per statement that reads or flushes a contended row. `draft[q]` is
what the open transaction of request `q` has written; other requests see
`run`, `approval` and `command`, which change only at `Commit`. `RunLocked`,
`ApprovalLocked` and `CommandLocked` are PostgreSQL's row locks and
unique-index waits. The session is built with `autoflush=False` and
`expire_on_commit=False`; objects loaded in a transaction keep their values,
so `ActivateLoadRun` also answers the second status check inside
`activate_run`, and `Mark` issues no UPDATE for a value it already has.
`Abort` is everything that can end a transaction early, at every step, in
particular between `start_workflow` and the commit.

Every exception, a refusal included, leaves the endpoint and makes `get_db`
roll back: `raised` is the end of all of them. A request creates at most one
run, command and workflow, which are named after the request. A client can
name a run as soon as the endpoint of its start has answered, which may be
before the commit and in spite of its failure. `seen` is the row `cancel_run` has loaded. `workflow[q]` lives in
the engine's store and is not rolled back; `WorkflowEnds` is what the engine
does on its own. Workflows that ended and workflows that were cancelled are
both `over`: the portal only sees that neither can be cancelled.

Simplifications: one tenant and requester; a foreign tenant's id behaves like
an absent row; foreign-key share locks are ignored; a preallocated workflow id
is supported by the code and never passed in production; `Policies` are the
policies of the tenant's missions (today only one capability is classified,
as approval required; the model covers direct and denied ones as well); refusals by capability or input hash in the approval
endpoints behave like the refusals and aborts that are there; a commit whose
answer is lost is a commit; updates of `failure_reason` alone, events, audit
rows and receipts are left out. `approve_and_start` has no caller and is not
modelled.

### 2.4 ActivitySaga

The body of one workflow, of which `DurableDispatch` has only the outcome. One
event loop: an action lasts from one suspension to the next. `act[a]` is the
coroutine of `ActivityExecutor.run` for activity `a`, `actStatus` its row,
`steps` the compensator's list, `cursor` the iterator `reversed(_steps)`.
Activities may be under way together and go on after the body has raised.
`ReturnsBadResult` and `SagaReturnsBadResult` are results JSON rejects: the
save of the record raises inside the `try`, and so does every later save of
that record. A crash, and the `CancelledError` of a shutdown, which no `except
Exception` catches, end the behaviour: the list is in memory only.

### 2.5 MissionLifecycle

`mem` and `disk` are the manager's records and those of the store; `Store` is
`_transition` or `_persist`: memory first, then the save, which may raise.
`ProcessEnds`, `CrashInIntent` (between the two saves of `record_intent`) and
`Restart` with `RecoverAfterRestart` are the fault model. `Contact` is the
driver's external call, made once after `executing()` has returned; `contacts`
counts it. Items are one per mission and reason, as `enqueue` makes them.

### 2.6 TaskQueue and TaskTimers

Each method of the queue holds its lock from beginning to end and is one
action, except that a reader gives the lock up while it waits (`Wait`, and
`WaitExpires` when its timeout is over). `heap` keeps the entries that
`promote` and a repeated `enqueue` have made invalid. `PriorityQueue` lets a
reader go empty-handed only if its wait timed out or nothing waits.

A timer is a `chain`: `armed`, `fired` (beyond `cancel()`), `due` (it has
looked at the status), `running`, and back to `armed` when it starts its
successor. `Client` are the threads that call the API: the endpoints of
`scheduler_api.py` run side by side, and `_lock` covers only the look-up of a
task and the write of its status (`Begin`). A `schedule` or `resume` then reads
the status (`Arm`), starts a timer (`CreateTimer`) and stores it
(`StoreTimer`); a `cancel` or `pause` disarms what is in the slot (`Disarm`);
any of these steps may meet those of another call on the same task. `slot` is
`_timer_threads`, which may name another chain than the one that runs.
`Outcomes` are the statuses `_run_task` may write, over whatever is there.
`told` and `overlapped` are history: what the last call on a task to return
achieved, and which tasks two calls were at work on at once.

Simplifications: the timer a run makes for the next one is started and stored
in one step (the interval is at least a minute, and no step between the two
sees a difference); the walk of `stop()` over the timers is one step; saves are
left out.

### 2.7 Swarm

The controller is one thread (`phase`, `agenda`); each worker is a process
with its own life (`process`, `rc`). `view` is the controller's `WorkerState`,
`stored` is `status.json`, which both sides write. The clock is abstract: a
worker may have been up for longer or shorter than any limit. The wait ends
at its deadline at the latest. `Direct` are the workers that `launch()` starts
by itself, which asks for no slot; `SlotFree` holds back only those of
`launch_all` and `launch_all_governed`. No bound on the processes alive is
claimed: `launch()` has none.

### 2.8 RunControl

Transactions overlap; `draftRow`, `draftLog` are what the holder of the row's
lock has written and not yet committed, `request[c]` what a caller has read
and checked. A second writer waits in `Write` until the row is free and
matches the version in its WHERE clause against what is then committed. Hashes
are the sequence number they cover.

### 2.9 Governance

What runs under a component's lock is one action; `BeginResume` and
`WatchdogLooks` read the emergency flag before the lock is taken.
`register_agent` replaces the entry of an agent that is known, and does not
look at the flag; `fresh` are the agents registered, or registered again, since
the last stop. A guarded call goes from the emergency check over its request
to the wait; `LookAtRequest`, `LookAtClock`, `ExpireSeen` and `ReturnStatus`
are the four steps of `is_approved`, of which only the third has the lock.

## 3. Runs

Deadlock checking is off in all of them: clients make finitely many calls, so
every instance stops.

| run | instance | shows |
|---|---|---|
| `dispatch` | 2 engines, one that may stop and one with the recovery worker, 2 calls, 2 request hashes, 3 tasks, 1 stall | `TypeOK`, `StartsOnce`, `LeaseCoherence`, `OutcomeHasRun`, `AcceptedRequest`, `InHand`, `QuietCancelHolds`, `KeepsPromise`, `Dispatched` hold |
| `dispatch_interrupted` | 2 engines, 2 calls | `InterruptedFinish` fails |
| `dispatch_cancel` | the same | `CancelIsFinal` fails |
| `sideeffects` | 3 callers, 2 request hashes, a verifying provider, 1 stall, 1 timeout | `TypeOK`, `SentIsStored`, `OneUntilStalled`, `NothingSentOnceMade`, `OneReceipt`, `EveryCallEnds` hold |
| `sideeffects_stall` | 2 callers, 1 stall | `OneMutation` fails |
| `sideeffects_unverified` | 2 callers, provider without verification | `NoBlindRetry` fails |
| `governedrun` | 1 key, 4 requests about runs that need an approval, or 2 under all policies | `TypeOK`, `NothingUnapproved`, `ActiveIsTruthful`, `OneCommand`, `NoCircularWait`, `KeepsDecision`, `RequestsAdvance`, `EveryRequestEnds` hold |
| `governedrun_twice` | 4 requests, 1 key | `ConsumedOnce` fails |
| `swarm_outcome` | 1 worker | `HonestOutcome` fails |
| `scheduler_stop` | 1 recurring task, 1 timer, 1 client | `StopsWhenTold` fails |
| `governance_halt` | 1 agent | `EmergencyHalts` fails |
| `components` | see below | missions: `KeepsAccount`, `ContactOnRecord`, `InheritedQueued`, `OneActiveItem`; queue: `KeepsOrder`, `NoneSleepsOnWork`; timers: `CancelHolds`, `KeepsRunning`; swarm: `HonestSuccess`, `TerminalSticks`; run control: `ChainMatchesRow`, `HistoryGrows`; governance: `StopHolds`, `AllowedAsAnswered`; saga: `RolledBack`, `RunsUntilSuccess`; and the types of all, hold |

### 3.1 The bounds

- *Dispatch*. Two engines are a claimant and a rival; a third adds no new
  kind of claim because a row has one owner. Both run bodies and both may
  stall; one may crash or shut down (`Mortal`), and the other has the recovery
  worker that takes over from both. Two calls are two
  racing starts, with or without a conflict, or a start and a cancel or a
  signal. Three tasks are the stalled one, its successor, and one more after a
  crash of that. One workflow suffices: no statement touches two rows except
  the recovery list, which is walked row by row. What the bounds leave open -
  more calls, recovery on every engine, an engine that never registered the
  workflow type - the theorems close: every
  safety property of this run is proved for all values of the constants.
- *Side effects*. Three callers are an owner, a rival that takes over and a
  third that waits for either; one stall and one or two timeouts give each of
  them a reason to write late. One key: rows of different keys never meet.
- *Governed runs*. Four requests are a start, a decision and two activations
  (or a cancellation), or a start and three that wait for the rows of its run;
  under one key their commands collide. With runs that are dispatched or denied
  at once among them, two requests arrive (`Mixed`). More requests and keys are
  left to the theorems, which cover every property of the run but
  `EveryRequestEnds`.
- *Missions*: one, because only the recovery pass touches several, each by itself,
  with four faults, enough for saves that raise and two generations of crashed
  processes in one behaviour. *Queue*: two tasks, two priorities, two readers, four entries:
  enough for a promoted entry, its garbage and a reader that finds only
  garbage. *Timers*: a one-time or a recurring task (`OneTask`) on two
  timers under two clients: the doubled timer of a pause and resume that overlap
  a run, and a cancel that overtakes a resume. *Swarm*: two
  workers, one of `launch` and one of `launch_all`, room for one: the one that
  is revoked or given up and lives on, and its successor. *Run control*: two
  transactions, versions up to four. *Governance*: two agents, so that one is
  registered after a stop, and a gated call. *Saga*: three activities with a
  compensation and one without, two attempts: two that complete, and one that
  completes while these are undone.
- *Symmetry* is used in `governedrun_twice` only, which checks an invariant.

### 3.2 Fairness

- `DurableDispatch!Fairness`: a live event loop runs its coroutines; the
  recovery worker is `while not cancelled: recover; sleep`; clocks advance, so
  a dead owner's lease expires; the process manager boots a process that is
  off. Nothing forces client calls, crashes or shutdowns. Recovery is only
  fair where `start_recovery_worker` was called (`RecoveryEngines`); outside
  the tests nothing in the repository calls it yet, so `Dispatched` describes
  a deployment that does.
- `SideEffects!Fairness`: living callers go on, the provider deals with what
  it received, the lease clock advances.
- `GovernedRun!Fairness`: only that a request that can take its next step
  takes one. `Abort` is not fair: nothing relies on a failure.
- `TaskTimers!TimersFairSpec` (in `ComponentsSpec`): started timers fire, their
  threads are scheduled and task functions return. The API's clients are free to
  stop anywhere, also in a call.
- `Swarm!SwarmFairSpec`, of `swarm_outcome` only: the controller's loop goes on
  and its deadline comes.

## 4. What the code does and its documents do not say

- *Interrupted workflows* (`dispatch_interrupted`). `ORCHESTRATION.md` says
  workflows survive process restarts, and the engine lists the resumption of
  interrupted workflows among its features. Recovery selects CLAIMED rows and
  expired DISPATCHING ones: a workflow that was RUNNING when its process
  stopped stays RUNNING for ever.
- *Cancellation undone* (`dispatch_cancel`). `_run_workflow` saves the record
  it loaded before it awaited the body; the cancellation stored meanwhile is
  overwritten. A signal stored meanwhile is lost in the same way.
- *Two mutations for one key* (`sideeffects_stall`). Nothing renews the lease
  while its owner awaits the provider; two callers may both find nothing to
  reconcile and send.
- *Retry without evidence* (`sideeffects_unverified`). With a provider that
  cannot verify, the next call for an UNKNOWN key sends again.
- *Approval consumed twice* (`governedrun_twice`). Two activations read
  PENDING, the second waits for the first one's commit and overwrites
  CONSUMED with CONSUMED; two workflows run for one approved run. The service
  calls this consumption exactly-once and atomic.
- *A stopped task runs on* (`scheduler_stop`). `interrupt`, which is `cancel`,
  says that it stops a running task, and `pause` that it pauses one. The run
  that is under way writes its outcome over the CANCELLED or PAUSED it meets,
  and a recurring task then gets its next timer. `CancelHolds` is what is left:
  a task that was not being run when the call returned stays stopped. For
  one-time tasks not even that, if a `resume` was past its look at the status
  when the `cancel` came: the timer it goes on to make runs the task.
- *A stopped agent runs* (`governance_halt`). The emergency stop announces that
  all agents are halted and nothing starts until a human clears it.
  `register_agent` replaces the entry of a stopped agent by a running one, and a
  call that looked at the flag before the stop is allowed when its approval
  comes during it. `StopHolds` is what is left: nothing else brings an agent
  back.
- *A finished worker declared failed* (`swarm_outcome`). The supervisor judges
  heartbeats by the controller's own `WorkerState`, which only the launch
  touches. A worker that ran longer than the limit and exited with 0 between
  two polls is marked FAILED, and a terminal state is never polled again,
  whereas the controller promises a result "based on actual worker outcomes".

Each has a `violation` run that produces the behaviour and an entry under
`findings` with the sentence it contradicts.

Further remarks, without a run of their own; of most of these cases no sentence
of the repository speaks:

- `reconcile_resolve` is documented as the only exit from
  RECONCILIATION_REQUIRED (`durable_mission.py:435`); `awaiting_approval`
  (line 243) checks no state and is another. The intent on the record keeps
  such a mission from executing again (`KeepsAccount`).
- A blocking `dequeue` that wakes to a heap of nothing but garbage pops it all
  and returns None (`task_queue.py:70-76`), although its docstring (58-60) names
  a timeout or a drained queue as the only causes, `SCHEDULER.md:209` has it wait
  for an item, and `async_dequeue` (136) promises a task. A drain, on the other
  hand, does not release a blocked reader: it finds the heap empty and waits
  again. `KeepsOrder` admits the first, since nothing waits at that moment, and
  says nothing of the second.
- `clear_emergency_stop` promises to "allow agents to resume"
  (`governance_api.py:317`); it leaves them `emergency_stopped`, and
  `resume_agent` only takes a paused one: what brings them back is a new
  registration.
- `governance_api.py:115` says that an approval unblocks the waiting agent. An
  approver may be told True and the call still be refused: at the deadline of
  the request, where EXPIRED is written over APPROVED after a look that was made
  before it, and at the end of the wait, if the approval comes after the last
  poll. `AllowedAsAnswered` says that this takes a request past its deadline
  wherever the call has found it refused.
- With a provider that can verify and a request that lands after its caller
  gave up, a second caller may verify, find nothing, and send after the landing:
  `NoBlindRetry` takes more than the ability to verify.
- `SCHEDULER.md:295` lists "Retry with backoff", which `TaskExecutor` does
  within one run. The scheduler's own retries do not happen for one-time tasks:
  a failed one becomes PENDING and no timer is armed for it. `TaskExecutor`
  leaves a timed-out attempt running beside the retry.
- A swarm worker that is revoked is stored as CANCELLED whatever it has
  reported; a worker of `launch` shares the controller's process group, and
  `launch` itself has no bound on concurrency.
- A delegation consumes its approval before the delegation's id is checked for
  reuse (`delegation.py:211`).
- An activity whose result JSON rejects has run, is reported as failed, keeps
  its row RUNNING and is not compensated. An activity that completes after
  COMPENSATION_STARTED is never undone. A body whose own result JSON rejects is
  not compensated either, and its workflow stays RUNNING.
- A run that is cancelled a second time, or after its workflow ended, becomes
  FAILED with DURABLE_WORKFLOW_NOT_FOUND.

## 5. Proofs

All theorems are of the form `Spec => []Inv` or `Spec => [][A]_v` (or the
abstract specification) and hold for every value of the constants under the
assumptions in the modules: recovery and registration concern existing
engines, `Nil` is none of the values it stands beside, bounds are naturals,
`Verifies` and `Prompt` are Booleans. Every property of the passing runs is
among them except the four liveness properties (see the end of the section).
Two kinds of theorems go beyond the runs' properties: what is left of a promise
that a `violation` run shows broken, under the condition it takes, and the
safety half of a liveness property, that is an action property by which the
fair steps can only lead forward.

| broken by the run | what remains, proved |
|---|---|
| `CancelIsFinal` (`dispatch_cancel`) | `QuietCancelsHold`: a cancellation that no run and no resume under way has overtaken is final |
| `OneMutation` (`sideeffects_stall`) | `MutatedOnce`: one mutation until a lease expires under a working owner |
| `NoBlindRetry` (`sideeffects_unverified`) | `NoRetryOfWhatIsMade`: once the mutation is made nothing is sent, if the provider verifies and requests are prompt, until a lease expires under a working owner |
| `StopsWhenTold` (`scheduler_stop`) | `CancellationHolds`: a call that meets no run under way stops the task, a one-time task if its calls did not overlap |
| `EmergencyHalts` (`governance_halt`) | `StopAlwaysHolds`: none but a new registration brings an agent back |
| `ConsumedOnce` (`governedrun_twice`) | `ConsumedOnceIfApart`: it holds if no two activations of a run are past the check at once |
| `HonestOutcome` (`swarm_outcome`) | `SupervisorMisjudges`: only the supervisor's checks, or a launch that could not be written, call such a worker failed |

| liveness | its safety half, proved |
|---|---|
| `Dispatched` | `DispatchesInHand`: behind every dispatch lease there is a task that will release it, or a dead owner |
| `EveryCallEnds` | `OwnersComeToTheirEnd`: the owner of the row waits for nobody and each step takes it on |
| `EveryRequestEnds` | `NoTransactionDeadlock` and `RequestsKeepAdvancing`: no circle of waits, and every step takes its request nearer to its end |
| `KeepsRunning` | `ArmedTasksHaveTimers` and `ArmedTimersGoRound`: a task that is armed has a timer, and that timer only goes round |

**DurableDispatchProofs.** `Typed` is `TypeOK` with the facts that calls and
tasks under way name an engine and a workflow. `TableInv` adds
`LeaseCoherence`, that every record held in a variable of a call or a task is
free of a lease (`SnapshotsClean`), and that a released task's row has settled
(`RunsSettled`): this is what makes writing stale records back harmless for
leases, and gives `LeasesCoherent`, `NeverRedispatched`, `DispatchesInHand`
and `QuietCancelsHold`: the records that tasks and resumes hold are the only
stale ones, and without them the row changes by compare-and-swap alone. `RunInv` adds that
at most one task per workflow has passed `Release` (`OneRun`) and that the
started event marks the only task that is past `Begin` (`StartsMarked`);
`BodyStartsOnce` and `OutcomesHaveRuns` follow. The release is the
serialisation point: it succeeds for one task only, because it needs a
DISPATCHING row and leaves a RUNNING one. `AcceptInv` follows a start call
from the moment it knows the stored request (`RequestsAccepted`).
`EngineKeepsPromise` is the refinement of `WorkflowLifecycle`: `Release` maps
to `Grant`, a settling save of `cancel_workflow` to `Withdraw`, `Begin` to
`Enter`, every other step to `Accept` or a stutter.

**SideEffectsProofs.** `Inv` is `TypeOK` with `RowCoherent` (owner, status and
result agree) and `CallsCoherent` (a call past the hash check carries the
stored request; a call that is about to complete has a result).
`ConflictsStayOut` and `OneReceiptForAll` (refinement of `DecidedOnce`) follow
for any provider, any number of stalls, timeouts and crashes. `MutatedOnce`
assumes a verifying provider and prompt requests, and speaks of the time until
a lease expires under a working owner, which the run `sideeffects_stall` shows
to be necessary; its invariant `Exclusive` says that only the holder of a live
lease is between claim and receipt, and that what such a caller has been told
by the provider still holds when it sends. `NoRetryOfWhatIsMade` follows from
the same invariant. `OwnersComeToTheirEnd` counts the owner's own steps.

**GovernedRunProofs.** `TypeInv` adds that a request under way has a key and a
run (`Named`). `Held`: two open transactions never both hold the approval row
of one run, and a decision is inserted only where there is none, so an
APPROVED decision once committed stands. `Approved`: an activation past
`LoadApproval` concerns a run with such a decision, and a start that
dispatches has a direct policy; hence `NothingStartsUnapproved`. `Keyed`: an
inserted command excludes any other under its key until the transaction ends,
and a request that is done carries the committed one; hence
`OneCommandPerKey`.

`Backed` ties the tables to the
engine: every run reference, committed or in a draft, names a workflow started
by the request it names, and every consumption in a draft belongs to a request
that has got past `start_workflow`; as a workflow, once started, stays so,
`ActiveRunsAreTruthful` and `ConsumptionsAreStarts` follow.

`Orderly`: a transaction that has written the run only dispatches and commits,
one that has written the approval may still write the run; so commands,
approvals and runs are locked in this order and waits never close a circle
(`NoTransactionDeadlock`, by cases on the length of a chain of waits, which is
at most three). `RequestsKeepAdvancing` follows the program counters; a refusal
that goes back to its lookup finds its key taken, and a key is never freed.

`DecisionsAreKept` is the refinement of `RunApproval`. `PromiseInv` joins the
invariants above with `Gated` (only runs that have been asked for and need an
approval are approved, rejected or shown as waiting for one) and `Together` (an
activation at its commit has drafted both CONSUMED and ACTIVE, and such a run
is ACTIVE only with its approval CONSUMED). The commit of a decision maps to
`Decide`, of an activation to `Activate`, of anything else to `Leave` or a
stutter; a dispatch for an activation maps to `Begin`, also when the request
fails afterwards; every other step is a stutter. The promise says
nothing about how often an execution begins: that is `ConsumedOnce`, which
fails, and `ConsumedOnceIfApart`, whose invariant `Spent` says that after a
success no activation of the run is past its check.

**MissionLifecycleProofs.** `IInv` relates memory, store and history: records
have the shapes the operations leave (`Shapes`), the store is at most one
failed save or crash behind (`Behind`), a contact is made at most once, by when
the store cannot execute the mission again (`Once`), the missions found in flight are queued once recovery has
gone through (`Inherited`), items and index agree (`Indexed`), and a dead
process has no memory (`Down`). It gives `ContactsOnRecord`,
`InheritedAreQueued`, `ActiveItemsAreOne` and the refinement
`ManagerKeepsAccount`.

**SchedulerProofs.** `QueueInv`: every indexed entry is in the heap, no number
is given twice, and where readers sleep the heap is empty; with it each step
maps to one of `PriorityQueue` (`QueueKeepsOrder`) and `NoReaderSleepsOnWork`
holds. `CancellationHolds`: after a cancellation that met no run, what
can still reach a recurring task is a timer that looks at the status before it
runs it; for a one-time task whose calls never overlapped there is no armed
timer, and no call that is about to make one, at all.
`ToldInv`, for the timers of recurring tasks: two tasks never have one timer in
their slots (`SlotsApart`), a caller is told only when its call is through
(`ToldWhenThrough`), and then there is a timer (`ArmedHasTimer`), which
`ArmedTimersGoRound` follows through its round.

**SwarmProofs.** The controller calls a worker completed only when it has
ended, left findings and stands as completed in its own file
(`CompletedIsOver`), and a success is said only of workers it calls completed and
is the controller's last act (`SuccessIsFinal`). They give `SuccessIsHonest`;
`TerminalAlwaysSticks` follows step by step. `SupervisorMisjudges` rests on
`EndsWithFindings`: a worker that exited with 0 has left its findings.

**ControlProofs.** `ControlInv`: the draft extends the committed chain by
allowed transitions (`DraftExtends`), and what a caller has checked against a
version is right as long as the version stands (`RequestsAllowed`).
`StopAlwaysHolds` is inductive with the types: a
resume that looked before the stop brings back paused agents only, and the stop
leaves none; a pause changes running ones only.
`AlwaysAllowedAsAnswered`: the status and the answers given agree until
the request expires (`AnswersRecorded`), also between the unlocked steps of
`is_approved`. `SagaInv`: the
compensations are registered in the order of the completions, and what is
undone is what the iterator has walked through, which appending does not
disturb; `RollbackIsExact` and `SuccessEndsRetries` follow.

**ComponentsProofs.** Every step of the composition is a step of one component
and a stutter of the others (`ComponentsStep`), so it implements the
specification of each (`ComponentsRunAlone`); `ComponentsTypeCorrect` and
`ComponentsAreSafe` carry the components' theorems over to what the run
`components` checks. The composition schedules one task in a behaviour
(`OneTask`); the theorems it rests on do not.

Model-checked only: the liveness properties `Dispatched`, `EveryCallEnds`,
`EveryRequestEnds` and `KeepsRunning`. They need fairness, which rests on
ENABLED, and an induction over the steps that are left, neither of which the
installed provers can do; that they follow from the safety halves above, by
finitely many fair steps, is an argument on paper and TLC's check of small
instances. The properties of the `violation` runs, which the code breaks,
have no theorem but what remains of them (all but `InterruptedFinish`).

Left to prove: that `InterruptedFinish` holds for workflows whose engine never
stops; the consequence of `ToldInv` for the one-time timers; `MutatedOnce`
without the bound on stalls, for a provider that applies a key once.

## 6. Not modelled, and why

The models cover the code in which several actors share state and an order of
steps can go wrong. Measured in lines that is a small part: most of the
repository is request-response code, static data, prompt construction, user
interface and adapters, whose behaviour is a function of one call.

- *Agent runtime and delegation*, *ownership registry and capability leases of
  the swarm*, *Stripe webhooks*: tables that are checked and set under one
  lock, or in one synchronous handler; a model would restate the lock.
- *A2A protocol, LangGraph engine, orchestration planner, workflow builder,
  mission runner*: sequential interpreters in one coroutine or thread.
- *Cancellation bus*: nothing but its tests calls it.
- *APScheduler backend*: the threads are another library's. *TaskExecutor*: no
  state shared between attempts. *The SQLite copy of tasks and its reload*: no
  decision reads it while the process lives.
- *Mission Control events, audit, receipts, projections*: written or read in
  the transactions `GovernedRun` models, and decide nothing about them.
- *Input encoding, delays, I/O errors of SQLite*: data or environment; an I/O
  error after a function has returned would make the executor run it again.
- *Portal CRUD services, TypeScript applications, backend services, phases,
  universe core, decision engine, agent packages, domain knowledge,
  integrations, secure execution, operations*: for the reasons in
  `PROJECT.json`, component by component.
