-------------------------- MODULE ProvisioningQueue --------------------------
(***************************************************************************)
(* core/provisioning/queue.py: the priority queue in front of the engine,  *)
(* its workers, retries with backoff, manual retry and cancellation,        *)
(* composed with the engine and with the API calls that execute tasks of    *)
(* their own (provision_user and its siblings).                             *)
(*                                                                         *)
(* No code suspends while it holds ProvisioningQueue._lock, so taking a     *)
(* task from the heap and entering it in _processing is one step, and so is *)
(* settling a task whose execution returned.                                *)
(***************************************************************************)
EXTENDS ProvisioningEngine, FiniteSets

CONSTANTS
    Workers,       \* worker coroutines that can ever be created (bounds TLC)
    Callers,       \* API calls that execute a task themselves
    PriorityOf,    \* [Tasks -> Nat]: lower is more urgent
    MaxWorkers,    \* ProvisioningQueue.max_workers
    MaxQueueSize,  \* ProvisioningQueue.max_queue_size
    MaxAttempts,   \* QueuedTask.max_attempts
    MaxRequeues,   \* manual retries of a task (bounds TLC only)
    MaxStarts      \* calls of start (bounds TLC only)

ASSUME QueueAssumption ==
    /\ Runners = Workers \cup Callers /\ Workers \cap Callers = {}
    /\ PriorityOf \in [Tasks -> Nat]
    /\ IsFiniteSet(Tasks) /\ IsFiniteSet(Workers)
    /\ {MaxWorkers, MaxQueueSize, MaxAttempts} \subseteq Nat \ {0}
    /\ {MaxRequeues, MaxStarts} \subseteq Nat

VARIABLES
    queue,       \* the heap: entries of a task, a due flag and an attempt
    processing,  \* the keys of _processing
    held,        \* the entry each worker is processing (its local `queued`)
    completed,   \* the keys of _completed
    failed,      \* _failed
    accepted,    \* tasks that were enqueued
    direct,      \* tasks an API call executes itself; no task is both
    requeues,    \* manual retries so far
    running,     \* _running
    alive,       \* workers whose coroutine has not ended
    starts       \* calls of start so far

storeVars == <<queue, processing, held, completed, failed>>
clientVars == <<accepted, direct, requeues>>
poolVars == <<running, alive, starts>>
vars == <<engineVars, storeVars, clientVars, poolVars>>

-----------------------------------------------------------------------------
Entry == [task : Tasks, due : BOOLEAN, attempt : Nat]
NoEntry == [task |-> NoTask, due |-> FALSE, attempt |-> 0]

QueuedTasks == {e.task : e \in queue}

\* The heap's order: priority, then scheduled time, of which the model keeps
\* whether it has come.
Before(e, f) ==
    \/ PriorityOf[e.task] < PriorityOf[f.task]
    \/ PriorityOf[e.task] = PriorityOf[f.task] /\ e.due /\ ~ f.due

\* self._queue[0]
IsHead(e) == e \in queue /\ \A f \in queue : ~ Before(f, e)

\* The size check of enqueue
HasRoom == Cardinality(queue) < MaxQueueSize

Init ==
    /\ EngineInit
    /\ queue = {} /\ processing = {} /\ completed = {} /\ failed = {}
    /\ held = [w \in Workers |-> NoEntry]
    /\ accepted = {} /\ direct = {}
    /\ requeues = [t \in Tasks |-> 0]
    /\ running = FALSE /\ alive = {} /\ starts = 0

-----------------------------------------------------------------------------
(* Clients *)

\* A client submits its task to the engine, before or after it enqueues it
Submit(t) ==
    /\ t \notin submitted
    /\ SubmitTask(t)
    /\ UNCHANGED <<storeVars, clientVars, poolVars>>

\* enqueue, once, for now or for a scheduled time; a full queue refuses
Enqueue(t, due) ==
    /\ t \notin accepted \cup direct
    /\ HasRoom
    /\ queue' = queue \cup {[task |-> t, due |-> due, attempt |-> 0]}
    /\ accepted' = accepted \cup {t}
    /\ UNCHANGED <<engineVars, processing, held, completed, failed, direct, requeues,
                   poolVars>>

\* retry_failed: the task leaves _failed, then enqueue may refuse it
RetryFailed(t) ==
    /\ t \in failed
    /\ requeues[t] < MaxRequeues
    /\ requeues' = [requeues EXCEPT ![t] = @ + 1]
    /\ failed' = failed \ {t}
    /\ taskStatus' = [taskStatus EXCEPT ![t] = "pending"]
    /\ queue' = IF HasRoom
                THEN queue \cup {[task |-> t, due |-> TRUE, attempt |-> 0]}
                ELSE queue
    /\ UNCHANGED <<submitted, steps, exec, processing, held, completed, accepted,
                   direct, poolVars>>

\* ProvisioningQueue.cancel_task: only a queued task
CancelQueued(e) ==
    /\ e \in queue
    /\ queue' = queue \ {e}
    /\ taskStatus' = [taskStatus EXCEPT ![e.task] = "cancelled"]
    /\ UNCHANGED <<submitted, steps, exec, processing, held, completed, failed,
                   clientVars, poolVars>>

\* ProvisioningEngine.cancel_task, the /tasks/{id}/cancel endpoint
CancelSubmitted(t) ==
    /\ CancelTask(t)
    /\ UNCHANGED <<storeVars, clientVars, poolVars>>

\* provision_user, assign_roles, revoke_roles, deprovision_user: submit and
\* execute in the caller
ApiExecute(x, t) ==
    /\ exec[x] = Idle
    /\ t \notin submitted \cup accepted
    /\ submitted' = submitted \cup {t}
    /\ direct' = direct \cup {t}
    /\ Proceed(x, t, steps[t], 0, "in_progress", "failed")
    /\ UNCHANGED <<storeVars, accepted, requeues, poolVars>>

ApiCall(x) ==
    /\ CallSucceeds(x, "failed") \/ CallFails(x, "failed")
    /\ UNCHANGED <<storeVars, clientVars, poolVars>>

-----------------------------------------------------------------------------
(* Workers *)

\* _handle_failure: what becomes of the task
AfterFailure(e) ==
    IF e.attempt + 1 < MaxAttempts THEN "retry_scheduled" ELSE "failed"

\* _handle_failure: back to the heap for later, or to _failed
HandleFailure(e, rest) ==
    IF AfterFailure(e) = "retry_scheduled"
    THEN /\ queue' = rest \cup {[task |-> e.task, due |-> FALSE,
                                 attempt |-> e.attempt + 1]}
         /\ UNCHANGED failed
    ELSE queue' = rest /\ failed' = failed \cup {e.task}

\* Mutant of CountsAsDone: a partly completed task is tried again as a whole.
OnlyCompleted(status) == status = "completed"

\* The statuses _process_task files under _completed
CountsAsDone(status) == status \in {"completed", "partially_completed"}

\* Worker w is back from execute_task with entry e and the task's status
Settle(w, e, status, rest) ==
    /\ held' = [held EXCEPT ![w] = NoEntry]
    /\ processing' = processing \ {e.task}
    /\ IF CountsAsDone(status)
       THEN completed' = completed \cup {e.task} /\ queue' = rest /\ UNCHANGED failed
       ELSE HandleFailure(e, rest) /\ UNCHANGED completed

\* What a worker does after a step of execute_task: it goes on, or settles
Follow(w, e, rest) ==
    IF exec'[w] = Idle THEN Settle(w, e, taskStatus'[e.task], rest)
    ELSE /\ held' = [held EXCEPT ![w] = e]
         /\ processing' = processing \cup {e.task}
         /\ queue' = rest
         /\ UNCHANGED <<completed, failed>>

\* Mutant of Popped: the head is looked at and stays.
Peeked(e) == queue

\* heappop
Popped(e) == queue \ {e}

\* _get_next_task and _process_task: the head of the heap, when it is due
TakeNext(w, e) ==
    /\ running /\ w \in alive /\ held[w] = NoEntry
    /\ IsHead(e) /\ e.due
    /\ Begin(w, e.task, AfterFailure(e))
    /\ Follow(w, e, Popped(e))
    /\ UNCHANGED <<clientVars, poolVars>>

\* The same for a task the engine does not know: "Task not found" is a failure
TakeUnknown(w, e) ==
    /\ running /\ w \in alive /\ held[w] = NoEntry
    /\ IsHead(e) /\ e.due
    /\ e.task \notin submitted
    /\ HandleFailure(e, Popped(e))
    /\ taskStatus' = IF AfterFailure(e) = "retry_scheduled"
                     THEN [taskStatus EXCEPT ![e.task] = "retry_scheduled"]
                     ELSE taskStatus
    /\ UNCHANGED <<submitted, steps, exec, processing, held, completed, clientVars,
                   poolVars>>

WorkerCall(w) ==
    /\ \/ CallSucceeds(w, AfterFailure(held[w]))
       \/ CallFails(w, AfterFailure(held[w]))
    /\ Follow(w, held[w], queue)
    /\ UNCHANGED <<clientVars, poolVars>>

Wake(x) ==
    /\ WakeUp(x)
    /\ UNCHANGED <<storeVars, clientVars, poolVars>>

-----------------------------------------------------------------------------
(* start, stop and time *)

Start ==
    /\ ~ running /\ starts < MaxStarts
    /\ starts' = starts + 1
    /\ running' = TRUE
    /\ \E new \in SUBSET (Workers \ alive) :
        /\ Cardinality(new) = MaxWorkers
        /\ alive' = alive \cup new
    /\ UNCHANGED <<engineVars, storeVars, clientVars>>

Stop ==
    /\ running
    /\ running' = FALSE
    /\ UNCHANGED <<engineVars, storeVars, clientVars, alive, starts>>

\* Mutant of WorkerEnds: the loop of _worker is missing.
OneShotWorker(w) ==
    /\ w \in alive /\ held[w] = NoEntry
    /\ alive' = alive \ {w}
    /\ UNCHANGED <<engineVars, storeVars, clientVars, running, starts>>

\* A worker between two tasks sees that the queue was stopped
WorkerEnds(w) ==
    /\ ~ running /\ w \in alive /\ held[w] = NoEntry
    /\ alive' = alive \ {w}
    /\ UNCHANGED <<engineVars, storeVars, clientVars, running, starts>>

\* The scheduled time of an entry comes
BecomesDue(e) ==
    /\ e \in queue /\ ~ e.due
    /\ queue' = (queue \ {e}) \cup {[e EXCEPT !.due = TRUE]}
    /\ UNCHANGED <<engineVars, processing, held, completed, failed, clientVars,
                   poolVars>>

-----------------------------------------------------------------------------
Worker(w) ==
    \/ \E e \in queue : TakeNext(w, e) \/ TakeUnknown(w, e)
    \/ WorkerCall(w)
    \/ WorkerEnds(w)

Next ==
    \/ \E t \in Tasks :
        \/ Submit(t) \/ RetryFailed(t) \/ CancelSubmitted(t)
        \/ \E due \in BOOLEAN : Enqueue(t, due)
    \/ \E x \in Callers :
        \/ ApiCall(x)
        \/ \E t \in Tasks : ApiExecute(x, t)
    \/ \E e \in queue : CancelQueued(e) \/ BecomesDue(e)
    \/ \E w \in Workers : Worker(w)
    \/ \E x \in Runners : Wake(x)
    \/ Start \/ Stop

Spec == Init /\ [][Next]_vars

\* Coroutines that can run do, connector calls return, sleeps end, time passes
Fairness ==
    /\ \A w \in Workers : WF_vars(Worker(w))
    /\ \A x \in Callers : WF_vars(ApiCall(x))
    /\ \A x \in Runners : WF_vars(Wake(x))
    /\ \A t \in Tasks :
        WF_vars(\E e \in queue : e.task = t /\ BecomesDue(e))

FairSpec == Spec /\ Fairness

-----------------------------------------------------------------------------
(* Properties *)

\* Type invariant of the queue, its stores and its workers, with the engine's.
TypeOK ==
    /\ EngineTypeOK
    /\ queue \subseteq Entry
    /\ held \in [Workers -> Entry \cup {NoEntry}]
    /\ processing \cup completed \cup failed \cup accepted \cup direct \subseteq Tasks
    /\ requeues \in [Tasks -> Nat]
    /\ running \in BOOLEAN /\ alive \subseteq Workers /\ starts \in Nat

\* A task is in one place at a time, so no two workers execute it, whatever
\* retries, restarts of the pool and cancellations do; and one that nobody
\* cancelled or retried by hand is always somewhere.
OnePlace ==
    /\ \A e, f \in queue : e.task = f.task => e = f
    /\ \A v, w \in Workers :
        v # w /\ held[v] # NoEntry => held[v].task # held[w].task
    /\ processing = {held[w].task : w \in {v \in Workers : held[v] # NoEntry}}
    /\ \A t \in Tasks :
        /\ t \in QueuedTasks => t \notin processing \cup completed \cup failed
        /\ t \in processing => t \notin completed \cup failed
        /\ t \notin completed \cap failed
    /\ \A t \in accepted : taskStatus[t] # "cancelled" /\ requeues[t] = 0
        => t \in QueuedTasks \cup processing \cup completed \cup failed

\* An operation a connector reported as done is never executed again by a retry
\* of its task, automatic or by hand, or after a cancellation.
CompletedStepsAreNotRepeated ==
    [][\A t \in Tasks : \A i \in StepIds(t) :
        steps[t][i].status = "completed" => steps'[t][i].status = "completed"]_vars

\* What the stores say of the target systems: every step of a completed task
\* was settled and one of them took effect; of a failed task none did.
FiledTruthfully ==
    /\ \A t \in completed :
        /\ \A i \in StepIds(t) : steps[t][i].status \in {"completed", "failed"}
        /\ StepsOf[t] > 0 => \E i \in StepIds(t) : steps[t][i].status = "completed"
    /\ \A t \in failed : \A i \in StepIds(t) : steps[t][i].status # "completed"

\* The retries of the engine and those of the queue do not multiply: only the
\* first execution of a step may use MaxRetries tries, each later one has one.
TriesBounded ==
    \A t \in Tasks : \A i \in StepIds(t) :
        steps[t][i].retries <= MaxRetries - 1 + MaxAttempts * (1 + requeues[t])

\* The steps of a task that took effect in a target system
Effects(t) == {i \in StepIds(t) : steps[t][i].status = "completed"}

PlaceOf(t) ==
    CASE t \in QueuedTasks -> "queued"
      [] t \in processing -> "working"
      [] t \in completed -> "completed"
      [] t \in failed -> "failed"
      [] t \in direct -> "direct"
      [] t \in accepted \ (QueuedTasks \cup processing \cup completed \cup failed)
           -> "dropped"
      [] OTHER -> "out"

Ledger == INSTANCE TaskLedger WITH
    place <- [t \in Tasks |-> PlaceOf(t)],
    effects <- [t \in Tasks |-> Effects(t)]

\* The promise of TaskLedger.tla: whatever retries, restarts and cancellations
\* do, a task is tried again or given up only while nothing of it took effect,
\* its effects are never undone or repeated, and a completed task is final.
ImplementsLedger == Ledger!Spec

\* While the queue keeps running, a queued task does not stay in it for ever
\* and its processing ends.
QueuedTasksSettle ==
    <>[]running => \A t \in Tasks :
        t \in QueuedTasks ~> t \notin QueuedTasks \cup processing
=============================================================================
