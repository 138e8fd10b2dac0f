# A verification project for GOVERNEX+ (governexplus)

GOVERNEX+ is a governance, risk and compliance platform: a FastAPI service
(`src/api`) over Python managers that keep their state in memory (`src/core`).
This directory holds TLA+ modules translated from that code, TLC configurations
that check them on small instances, and TLAPS proofs of the results that matter
most. Nothing is modelled from documentation alone. Paths below are relative to
`src/`.

## 1. Inventory

The managers run on one asyncio event loop. Two handlers interleave only at an
`await` that really suspends (a notification handler, a sleep, a connector
call); everything between two of those is one atomic step. Two parts are
multi-threaded instead: the SAP extractors share a connection pool, and the
streaming pipeline has a thread for its consumer. Most of `core` has no await
and computes scores, texts or reports; the parts below keep state that several
actors change.

| Component | State | Operations | What is hard |
|---|---|---|---|
| Access requests `core/access_request` | requests, their approval steps, the rules and their approver lists | create, submit, cancel, five acts on a step, SLA scan, expiry scans | several `process_approval` calls parked in the handler, steps acted on in any order, a list shared between requests, a notice that fails after the grant |
| Provisioning `core/provisioning` | tasks and steps, a heap, four stores, a worker pool | submit, execute, retry, cancel, enqueue, start, stop | two layers of retries, workers of two generations, cancellation of what runs, a full queue |
| Firefighter `core/firefighter/manager.py` | emergency requests, sessions, timers, account locks in SAP | submit, approve, reject, extend, end, revoke, review | timers against extensions, connector calls that fail half-way, two sessions of one account |
| Certification `core/certification` | campaigns, items, decisions, counters | create, generate, start, decide, bulk certify, delegate, expire | decisions in every status, restarts, the deadline against decisions, counters recomputed by some decisions only |
| Sync scheduler `core/scheduler` | jobs, their counters, the table of running tasks | create, update, delete, pause, resume, run now, start, stop, the loop | runs by hand beside scheduled ones, deletion of what runs, restarts of the loop, the limit counted by table entries |
| Approval workflow `core/approvals/workflow.py` | a workflow's stages, decisions, status | create, decide, expire, escalate, cancel | decisions after the end, repeated decisions, approvers listed twice |
| SAP connection pool `connectors/sap/extractors/connection.py` | a queue of connections, two counters | acquire, release, close all | threads between the queue and the lock, connections cut by SAP, `close_all` while others work |
| Risk streaming `core/ara/streaming` | the group's offset, a loop, the producer's buffer | start, stop, poll, handle, commit, send | a stop under the running loop, crashes between handling and commit, results not yet confirmed |
| Workflow `core/workflow` | workflows and steps, item-level gates, MSMP configuration | executor, gate, step generation | acts on finished steps, delegation and escalation without a status check |
| Joiner, mover, leaver `core/jml` | lifecycle events, their access changes | create, approve, reject, execute | a rejected event approved later; actions that repeat |
| Mitigation `core/mitigation` | controls and their assignments | assign, approve, test, expire | expiry against review |
| Risk analysis `core/ara`, `core/rules`, `core/cross_system` | rule sets | analyse | none: functions of their input |
| AI, ML, analytics, reporting, role design | data sets | score, report | numerical, no protocol |
| Connectors, notifications, SIEM | external systems | calls | fail or return |
| API, services, repositories, frontend | rows and requests | CRUD | request-local |

How they meet: each API router constructs its own manager and calls it. A
manager calls the notification handler (a callback) and connectors (blocking or
awaited). Access requests, the queue, firefighter sessions, certification, the scheduler
and approval workflows do not call one another. An approval workflow is made from
the route of `core/approvals/engine.py`; the streaming pipeline calls the risk
engine for each event. `core/workflow/orchestrator.py` was meant
to join workflow, SLA and provisioning, but its `submit_request` calls
`sla_manager.start_tracking` and `audit_engine.log_submission`, which no class
defines, so no workflow that needs a decision gets past submission. The MSMP
part of `core/workflow` is configuration and step generation; the endpoints
that would run its workflows call methods no class defines.

What makes each part correct is stated in the property comments of its module;
PROJECT.json lists the hazards line by line with the properties that cover them.

## 2. Plan

Done: (1) access requests with their abstract promise `AccessGrant` and proofs;
(2) the provisioning engine and queue and proofs; (3) firefighter sessions and
proofs; (4) the sync scheduler and proofs; (5) certification campaigns and
proofs; (6) the SAP connection pool and proofs; (7) the streaming pipeline and
proofs; (8) the approval workflow and proofs; (9) for each component the abstract
specification of what it promises, with the refinement run and proved.

Left, in this order:

1. Joiner, mover, leaver events: `Lifecycle`, with approval, rejection and
   locking. As written `_execute_action` records a simulated success, so there is
   little that can fail.
2. The item-level provisioning gate and the workflow executor of `core/workflow`;
   MSMP step generation as a function against a reference definition.
3. Mitigation controls: assignments, tests and expiry; delegation of
   `core/approvals/delegation.py`; tenant lifecycle.

## 3. The modules and the code

`PROJECT.json` maps every definition to its lines. In general an action is a
whole handler up to its first suspending `await`, and the rest of the handler is
an action of its own; a call the code refuses changes nothing and is no step.
Display fields, texts, logs and read-only queries are left out.

**AccessRequest** (`core/access_request/manager.py`, `workflow.py`, `models.py`,
router `api/routers/access_requests.py`). `steps[r]` is the workflow of a
request, one step per rule that may generate one, in the order of `Priority`;
`approvers` of a step is the set of `approver_ids` with `lead` its first element.
`shared` says the list is the rule's own `specific_approvers`, so an escalation
appends to `ruleApprovers`. `suspended` has the `process_approval` calls parked
in the notification handler: `Act` runs up to the notice, `Resume` is the rest
with `_provision_access`, `ResumeRaises` is the handler raising, `Told` the end
of the requester's notice (`telling`) inside the `try` block of
`_provision_access`. The SLA scan is
`SlaEscalate`, suspended in `slaAt` after each escalation until the next one or
`SlaLeave`, and the expiry scans take one request per action, since they suspend
between two. Nothing in the repository calls the expiry scans or the SLA scan: they
are operations of the manager that may be called at any time, or never. `dropped` is
history: a call raised out of the handler while its request was approved.
Bulk approval is a sequence of approvals. The risk analysis is a free choice
of which rules match.

**AccessGrant** is the promise to an auditor: a fixed set of approvals, each
given or refused once, one grant, and only with all of them. `AccessRequest`
instantiates it as `Grant` under a refinement mapping computed from the steps
and the access.

**ProvisioningEngine** (`core/provisioning/engine.py`) has the tasks and their
steps, and one runner per coroutine inside `execute_task`; a runner suspends in
the connector call and in the sleep between tries. **ProvisioningQueue**
(`queue.py`) EXTENDS it with the heap, the stores `processing`, `completed` and
`failed`, the worker pool and the API. `_lock` is never held across a
suspension, so taking the head and registering it are one action, and so is
settling a task. The condition variable with its one-second timeout makes every
idle worker look at the head again and again: an idle worker may take a due head
at any time. A pool that is stopped and started again leaves the old worker
running its task, hence two workers for `MaxWorkers = 1`. `due` stands for
`scheduled_time <= now`. The repository registers no callbacks.

**Firefighter** (`core/firefighter/manager.py`). Every `await` of a handler comes
after its last assignment, so handlers are atomic, and what is left is the order
of handlers and timers. The clock is relative: `left` of a session and the
`timers` of its auto-terminate tasks count down, and `Tick` waits until nothing
is due. The connector is external: unlocking fails, setting the password fails
(and the account is rolled back) or raises, locking fails or raises; `trouble` is
the history of accounts for which a call broke down half-way. Accounts start in
either lock state. One approval suffices: `requires_dual_approval`
(`manager.py:666`) is computed and never read.

**Certification** (`core/certification/manager.py`). `campaign[c]` is the record
of a campaign with its three counters and an item per user-role pair, `record` is
the latest entry of `self.decisions` of an item. `chain` is history: who was
delegated an item. Decisions are allowed in every status, as in the code. The
verdict `skip` stands for MODIFY too, the other action that decides without a
counter. No endpoint calls `process_expired_campaigns`; the model takes it as an
operation that may be called at any time.

**SyncScheduler** (`core/scheduler/sync_scheduler.py`). A job has two task copies
so that an overlap could show; `table` is `running_jobs`, `calls` counts callers
inside `run_job_now`, `open` the difference between a job's started and finished
counters. A pass of the loop is one action: it suspends only in its sleep. The
ratio of the 30-second sleep to the intervals of the jobs is left open.
`update_job` is modelled for the two fields that matter, the sync type and
`is_recurring`. The singleton is not reached from the API.

**ApprovalWorkflow** (`core/approvals/workflow.py`). One workflow, since they
share no state. `RecordDecision` is the manager's `record_decision` for somebody
the current stage lists, with `_check_completion`, `_handle_stage_completion` and
the callbacks; `RefuseDecision` is the call by anybody else, which calls the
callbacks too. `Expire` and `Escalate` are the two scans. The routes are external
input: sequences of stages, which are lists that may name somebody twice, as
`create_route` (`core/approvals/engine.py:525`) makes them. `Observed` are the
routes of after-hours requests, whose last stage is the security officer's, added
as an observer (`engine.py:361`, 448); `create_route` drops that, so no action
reads it, only the properties do. `late` says that the
due date of the current stage has passed.

**ConnectionPool** (`connectors/sap/extractors/connection.py`). `pc` is a
thread's place between the operations of the thread-safe queue, the pings and the
acquisitions of `_lock`: each is an action, for all of them are points at which
threads switch. A closed connection object stands for a new one. `Create` holds
the lock while it asks SAP, and raises both counters even when SAP refuses. `Cut`
is external. `__exit__` always calls `_release`, and only after `_acquire`
returned.

**RiskStreaming** (`core/ara/streaming/pipeline.py`, `consumer.py`,
`producer.py`). Each call of `start` makes a loop with a consumer of its own;
`stop` is two actions, since the loop runs on between the two closes. `at` and
`end` are what a loop is done with and its consumer's position, `committed` is
the offset of the group. Kafka is external: an open consumer polls and commits, a
closed one raises, the producer buffers (`buffer`) until the broker confirms or
refuses (`Confirm`; a send that raises on an open producer, `producer.py:235`, is
covered as a refusal, for both end in `_on_error` and the loop notices neither), and a `Crash` ends every loop and loses the buffer. One
partition and one member of the group: there is no rebalance. `start` is not
called again before `stop` returned.

**MCxxx** modules define the values of constants for TLC, **xxxProofs** hold
theorems.

### What the components promise

Each component has an abstract specification that it implements: a module with
far fewer variables, without the mechanism (queues, timers, tables, counters,
locks, threads), that somebody who relies on the component could be given. The
component instantiates it with a refinement mapping; the abstract specification
is a property of the component's run and a theorem.

| Promise | Of | What it says, and the mapping |
|---|---|---|
| `AccessGrant` | `AccessRequest` | a fixed set of approvals, each given or refused once; one grant, and only with all of them |
| `TaskLedger` | `ProvisioningQueue` | a task is in one place; its steps take effect one by one and never again; it returns to the queue or is given up only while nothing of it took effect; completed is final. `PlaceOf` is computed from the heap, the stores and the API calls, `Effects` are the completed steps |
| `EmergencyLease` | `Firefighter` | a request is decided once and opens at most one lease of the requested length; extensions are limited and only for a running lease with time left; no time passes for a lease that used up its budget; nothing reopens it. `PhaseOf` joins the request, its session and its review, `BudgetOf` is the time left of an active session |
| `ReviewRegister` | `Certification` | the list under review changes in a draft only; only the reviewer or a delegate signs; the system revokes what is pending after the end date only; a campaign closes in the step that takes its last decision, and what is decided stays decided. `active` and `in_review` are both open, counters and records are dropped |
| `RunSlots` | `SyncScheduler` | a job has at most one run the loop started; a pass starts no more runs than there are free slots; no run of a deleted job begins. `RunOf` is the state of the unfinished task the table names; one it does not name is `unlisted`, which the abstract module does not have |
| `StagedBallot` | `ApprovalWorkflow` | one stage votes at a time; its turn passes with as many approvals as it lists approvers; one rejection in a required stage defeats the ballot for good; only a ballot carried by every required stage is approved or announced so. An observer's votes may bind or not. `Approvals` counts, `BallotVerdict` reads the status of the current stage; the status of the workflow is dropped |
| `Lending` | `ConnectionPool` | a connection is lent to one thread, a thread borrows one, only its borrower gives it back or discards it, the shelf holds `PoolSize`, and one is opened only below the limit, which a reset raises. A connection open in no place or closed in one is `astray`, which the abstract module does not have |
| `AtLeastOnce` | `RiskStreaming` | the group's offset only goes forward, over events that were answered; an answer is never taken back, and lost only while the broker has not confirmed it |

The promises say what the code keeps and no more. `StagedBallot` does not say that a
cancelled ballot stays cancelled, nor that an observer cannot hold it up, `Lending` lets each `close_all` raise the
limit, `ReviewRegister` lets a closed campaign be opened again, `EmergencyLease`
lets a lease end before its budget is used: all of that the code does.

## 4. Runs

| Run | Question | Bounds, and why they are enough |
|---|---|---|
| `access` | Does the grant follow the votes, once, through every act, cancellation, SLA scan, expiry and failing notice? Is an approved request provisioned in the end, and can its access be revoked after its end date? Does the manager implement `AccessGrant`? | one request (requests share only the approver lists of rules; the proofs are for any number of requests), three rules cut off at two levels so that the cut happens, four users with a head who has no manager, one delegate, a handler that may raise; 110,109 states |
| `access_cancelled` | "Request has been cancelled": is it final? Violated. | one request |
| `queue` | Is a task in one place, filed truthfully, tried within its bounds and settled in the end? Does the subsystem implement `TaskLedger`: nothing that took effect is repeated or given up? | two tasks (one of two steps), a pool of one restarted once, one API caller, queue limit 1 so that it is hit, two tries per step and per task, one requeue; 269,621 states |
| `firefighter` | Do sessions end in time, are unused accounts locked, are stale entries left? Does the manager implement `EmergencyLease`? | two requests for one account, one and two hours, two extensions of an hour: overlaps, early timers and extensions of both sessions all occur; 225,859 states |
| `firefighter_extend` | Does an extended session last until its end? Violated. | as above |
| `certification` | Is nothing closed undecided, left unmarked or decided by an outsider? Does the manager implement `ReviewRegister`? | one campaign (campaigns share no state), two items of two managers, each of whom may delegate to the other; 66,522 states |
| `scheduler` | Do scheduled runs never overlap, do the counters hold, does the loop implement `RunSlots`, does the urgent due job get its turn? | two jobs for one slot, one caller per job inside `run_job_now`; two task copies show an overlap; 145,314 states |
| `approvals` | Does an approval need every required stage, and does the workflow implement `StagedBallot`, when decisions go on in any status? | five routes: none, two approvers, three stages, an approver listed twice, an observer's stage; three people, one of them in some routes only; four decisions per stage, two more than any needs; 121,328 states |
| `approvals_twice` | "All approvers must approve": did everybody? Violated. | as above |
| `approvals_observer` | "Observer, not blocker": can an observer's rejection stop a request? Violated. | as above |
| `pool` | Has every connection one owner, does the pool implement `Lending` with its limit, does `_acquire` return? | a pool of one, so that waiting and a full queue occur; three threads, so that two contend while a third closes; one `close_all`; as many connections as can be open and one more; 245,808 states |
| `streaming` | Does the pipeline implement `AtLeastOnce`, is what is committed not repeated, is every event handled in the end? | three events, one without a handler, batches of two, two starts: a crash or a stop in the first batch and a second loop that reads on; 128,306 states |

`MaxRequeues` and `MaxStarts` (queue), `MaxCalls` (scheduler), `MaxDecisions`
(approvals), `MaxCloses` (pool), `MaxEvents` and `MaxStarts` (streaming) are the
bounds the code does not have; the others are the code's own configuration with small
values. `CHECK_DEADLOCK FALSE` stands where the system really may stop: all
requests decided and expired, all tasks settled and the pool stopped for the last
time. An approval workflow stops when everybody made as many decisions as the bound
allows, the stream when the last loop ended. Firefighter, certification,
scheduler and pool are checked for deadlock.

### Fairness

`Spec` has none. Each fair specification asks only for what the runtime gives:

- *AccessRequest*: awaits of the notification handler end, with a return or an
  exception, and the event loop goes on with the call (`Resume \/ ResumeRaises`,
  `Told`). Which of the two is open, so `ApprovedIsProvisioned` excuses a request of
  which a call raised after it was approved. Approvers owe nothing, and neither do
  the expiry scans, which nothing calls: that expired access is ever revoked is not
  claimed, only that a call would select it (`EndedAccessIsRevocable`).
- *ProvisioningQueue*: coroutines that can run do and connector calls return
  (`Worker`, `ApiCall`), the sleeps between tries end (`Wake`), scheduled times come (`BecomesDue`). Nobody
  has to start the pool: `QueuedTasksSettle` allows for a pool that is stopped.
- *SyncScheduler*: the loop passes again while it runs, a run that began ends
  (`wait_for` bounds it), and the event loop begins and cancels tasks.
  `DueJobsRun` is claimed only for jobs with fewer rivals of their priority than
  slots, because the code lets more urgent jobs starve others.

- *ConnectionPool*: a thread inside `_acquire`, `_release` or `close_all` goes
  on (`Continue`); `get` has a timeout. How long a program keeps a connection is
  open, and `AcquireReturns` does not depend on it.
- *RiskStreaming*: the loop's thread runs (`Loop`). Commits may fail, the process
  may crash, nobody has to start it again: `EventsAreHandled` allows for that.

`ApprovalWorkflow`, `Firefighter` and `Certification` have no fairness: people
owe nothing, and no liveness is claimed.

All are weak: none of these steps is disabled again and again by others.

### Findings

Four runs show the code disagreeing with what it says of itself; each finding
in PROJECT.json quotes the line.

1. A cancelled access request can still be approved and provisioned
   (`api/routers/access_requests.py:256`).
2. The timer of the original end time ends an extended session
   (`core/firefighter/manager.py:1629`).
3. One approver who approves twice completes a stage of two that "all approvers
   must approve" (`core/approvals/workflow.py:108`).
4. The security officer whom the engine adds to an after-hours request as
   "Observer, not blocker" (`core/approvals/engine.py:368`) gets a stage that
   waits for him, and his rejection rejects the request: `create_route` drops
   `is_required` (`engine.py:527`). `ApprovalNeedsEveryStage` and `StagedBallot`
   therefore speak of required stages and claim nothing of his.

More were met while modelling. The modules contain the behaviour, but no run is
about it: two requests submitted before either is approved give one firefighter
account two sessions (`core/firefighter/manager.py:622`); revoking an ended
session locks the account under the other one (`core/firefighter/manager.py:941`);
a slot of the connection pool is lost with a connection that SAP refuses
(`connectors/sap/extractors/connection.py:105`); an SLA escalation appends to the
rule's own approver list (`core/access_request/workflow.py:513`); a notice that
raises after provisioning leaves temporary access FAILED and never selected for
revocation (`core/access_request/manager.py:546`; the properties of `access` name
it as their exception); a task scheduled for later hides due ones
(`core/provisioning/queue.py:213`); steps marked cancelled are executed
(`core/provisioning/engine.py:243`).

## 5. Proofs

Every theorem is about the module's `Spec` for all values of its constants that
satisfy the module's named assumptions, which TLC evaluates on the instances.
Each proof has the same shape: an inductive invariant, one lemma or step per
action, a temporal step that combines them.

Every component has a theorem that it implements its abstract specification
(section 3). These proofs have one shape too. The mapped values are named
operators; a frame lemma says which variables they depend on, so that steps which
leave those alone stutter; a lemma says how they change when the record of one
task, session, campaign, job, stage or connection changes; there is one lemma per
action that maps it to an abstract action; two lemmas, for the initial states and
for a step, collect them; and the theorem adds the inductive invariant. Each
needed that invariant, for in some state that it excludes the mapped step is not
allowed; where the one at hand was too weak the strengthening is named below.

**AccessRequestProofs.** Assumes `RulesAssumption`, `UsersAssumption`,
`ConfigAssumption`, and, except for `TypeCorrect`, that automatic approval is off
(its default). `GrantNeedsEveryApproval` is not inductive: a parked call
provisions later on the strength of a status set earlier. `Inv`
(`DecisionInvariant`) therefore says of every status what it means for the steps
(a pending request has no rejected step and not only approved ones; an approved,
provisioned, failed or expired one has only approved ones), which statuses have
been granted, and when the target holds the access. From it follow that grants
need all approvals, happen once, that pending requests have an open step
(`PendingHasOpenStep`), that status and access agree, that rejection is final, and that every step
maps to a step of `AccessGrant` or a stutter (`ManagerImplementsGrant`).
`EndedAccessCanBeRevoked` adds that temporary access has its end date from the step
that gives it (`HeldHasEnd`).

**FirefighterProofs.** `FirefighterAssumption`. `NoOverrun` needs `TimerInv`: an
active session always has a timer that wakes up at its end time or before, or a
task that has yet to read the end time, however often it was extended.
`EntriesAreActive` and `AccountsAreLockedAfterUse` are inductive with `TypeOK`:
they relate the table of active sessions and the locks to the sessions. `Decided`
ties a session and its review to the approval of its request.
`ManagerImplementsLease` rests on `TimerInv` as well: without it `Tick` could take
time from a lease that has none left.

**SyncSchedulerProofs.** `JobsAssumption`, `PriorityAssumption`,
`LimitsAssumption`. `NoOverlap` is part of the inductive invariant, together with:
only tasks of deleted jobs are being cancelled, no deleted job has a task that did
not begin, the table is within the limit, and the counters balance. The limit on
unfinished tasks follows since these inject into the table (a cardinality
argument from FiniteSetTheorems). `LoopImplementsRunSlots` counts the same way,
once more for a pass that starts several jobs: the jobs with a run are no more
than the entries of the table, and the jobs a pass starts no more than its room.

**CertificationProofs.** `ReviewerAssumption`, `VerdictsAssumption`,
`PersonsAssumption`, `AccessAssumption`. The invariant is one predicate, `Sound`,
on the record of a campaign: besides the properties themselves it says that only
listed items are decided, that an absent campaign lists none and that a delegate
is in the chain of its item. One lemma for each record a handler makes
(`VerdictSound`, `DelegationSound`, `MarkSound`, `RevokeSound`, `FreshSound`,
`StatusSound`, `EndSound`) shows that it stays sound and only advances, and
`InvNext` lifts them to the tables of the manager. `ManagerImplementsRegister` has
a lemma per record again (`VerdictShows`, `DelegationShows`, `DeadlineShows`,
`FreshShows`); who signs is in the register because `Sound` keeps a delegate in the
chain of its item.

**ProvisioningQueueProofs.** `EngineAssumption` and `QueueAssumption`.
`CompletedStepsAreNotRepeated` is not inductive: that a step is not executed
again depends on who executes its task. `IInv` adds that a worker executes the
task of the entry it holds, an API call one that no queue sees, and nobody else
either of them, so a runner alone writes the steps of its task; that all steps
before a runner are settled and none after it is completed; and how many tries a
waiting task has used for its attempts and requeues. Steps of the engine are
summarised by one predicate, `Advanced`, from which the queue's steps
follow. `QueueImplementsLedger` needs all of it: a task is requeued or dropped while
nothing took effect only because a runner's earlier steps are settled and it
alone writes them.

**ConnectionPoolProofs.** `ThreadsAssumption`, `ConnsAssumption`,
`PoolSizeAssumption`. Besides the owners, `IInv` says where in the code a thread
has a connection in its hands, and counts slots: open connections, and closed
ones still to be uncounted, are at most `created` and what the calls of
`close_all` forgot (`SlotsAreCounted`). `PoolImplementsLending` needs that no
connection is astray between two operations (`NoneAstray`), and the count for the
limit of an opening and of the queue.

**RiskStreamingProofs.** `BoundsAssumption`, `MaxPollAssumption`,
`ResetAssumption`. `CommittedIsAnswered` needs that only the newest loop has an open
consumer, that results are accepted while it has (`OneReader`), and that it
answered everything it is done with (`DoneIsAnswered`).
`PipelineImplementsAtLeastOnce` adds that positions, offsets and answers are
within the topic (`PositionsAreWithinTopic`).

**ApprovalWorkflowProofs.** `RoutesAssumption`, `MaxDecisionsAssumption`;
which routes have an observer does not matter, since no action reads `Observed`.
`ApprovalNeedsEveryStage` needs that the current stage's status tells what was
decided in it (`CurrentIsTruthful`) and that approvals are given in the last
stage; `RejectionStands` follows since a rejected stage stays the current one.
`WorkflowImplementsBallot` needs that a stage other than the last is not left
completed (`LastIsLeftOpen`), and that one more decision adds one to a count of
approvals at most (`CountAppend`).

Some results are proved and not run. Some of these were once checked by TLC and
gave their place in the run to the refinement of the same component, which tells
a reader more: `PendingHasOpenStep`, `ReviewedSessionsAreOver`, `RunningJobsRun`,
`CountersDoNotFallShort`, `CompletedStepsAreNotRepeated`, `OneSessionPerApproval`,
`StartedReviewsOnlyAdvance`, `ConcurrencyIsLimited`, `RejectionStands`,
`OpenConnectionsAreLimited`, `CommittedIsAnswered`.

Only model-checked: everything temporal that needs fairness
(`ApprovedIsProvisioned`, `QueuedTasksSettle`,
`DueJobsRun`, `AcquireReturns`, `EventsAreHandled`), which is beyond this prover:
it has neither ENABLED nor a rule for fairness. The abstract specifications state
safety only, so no refinement theorem speaks of what eventually happens.

## 6. Not modelled, and why

- *No protocol*: risk analysis and rules, the determination of approval routes,
  role design and mining, machine learning, analytics, reports, policy catalogues, firefighter monitoring. Their
  outcome is a free choice where a module needs it.
- *External*: connectors, notification delivery, SIEM. Calls that succeed or fail.
- *Never runs*: the workflow orchestrator and the MSMP endpoints (section 1); the
  controller review of firefighter sessions, which the stub `_initiate_review`
  (`core/firefighter/manager.py:1700`) overrides, and `_check_review_sla`, which
  nothing schedules. The content of the firefighter activity log is left out too.
- *Planned*: section 2.
- *Persistence*: nothing modelled here survives a restart of the process, so
  there is no recovery to check (the docstring of `core/provisioning/queue.py`
  promises persistence); only the offsets of the risk stream do, in Kafka, and
  `streaming` crashes and restarts it.
- Hazards without a property are listed with the reason in PROJECT.json; among
  them that a pause is lost when a run ends, and that a failed commit ends the
  streaming loop unnoticed. Apart from those, a firefighter account must be
  unlocked in SAP by hand before it can be requested again, since every operation
  leaves an unused account locked (`core/firefighter/manager.py:616`).
