-------------------------- MODULE ProvisioningEngine --------------------------
(***************************************************************************)
(* core/provisioning/engine.py: tasks made of steps, executed in order by  *)
(* execute_task, each step tried up to MaxRetries times, and cancel_task.   *)
(*                                                                         *)
(* A runner is a coroutine inside execute_task: a queue worker or an API    *)
(* call.  It suspends in the connector's call and in the sleep before a     *)
(* retry, and nowhere else, so what happens between two of those is one     *)
(* action.  The connector is external: a call succeeds or fails.            *)
(***************************************************************************)
EXTENDS Integers

CONSTANTS
    Tasks,       \* task ids
    Runners,     \* coroutines that may execute a task
    NoTask,      \* what an idle runner executes
    StepsOf,     \* [Tasks -> Nat]: the number of steps of a task
    MaxRetries   \* ProvisioningStep.max_retries

ASSUME EngineAssumption ==
    /\ NoTask \notin Tasks
    /\ StepsOf \in [Tasks -> Nat]
    /\ MaxRetries \in Nat \ {0}

VARIABLES
    submitted,   \* the keys of ProvisioningEngine._tasks
    taskStatus,  \* ProvisioningTask.status
    steps,       \* [Tasks -> sequence of steps]: status and retry_count
    exec         \* what each runner is doing inside execute_task

engineVars == <<submitted, taskStatus, steps, exec>>

-----------------------------------------------------------------------------
Status == {"pending", "in_progress", "completed", "failed",
           "partially_completed", "cancelled", "retry_scheduled"}

StepIds(t) == 1..StepsOf[t]

Idle == [task |-> NoTask, at |-> 0, asleep |-> FALSE]

Fresh(t) == [i \in StepIds(t) |-> [status |-> "pending", retries |-> 0]]

EngineInit ==
    /\ submitted = {}
    /\ taskStatus = [t \in Tasks |-> "pending"]
    /\ steps = [t \in Tasks |-> Fresh(t)]
    /\ exec = [x \in Runners |-> Idle]

\* submit_task
SubmitTask(t) ==
    /\ submitted' = submitted \cup {t}
    /\ UNCHANGED <<taskStatus, steps, exec>>

-----------------------------------------------------------------------------
(* execute_task *)

\* Mutant of Verdict: the counters are not recalculated, failed_steps is still 0.
StaleVerdict(table, onFailure) == "completed"

\* "Determine final status".  onFailure is the status the task is left with
\* when every step failed: the caller of execute_task may change it at once.
Verdict(table, onFailure) ==
    IF \A i \in DOMAIN table : table[i].status # "failed" THEN "completed"
    ELSE IF \E i \in DOMAIN table : table[i].status = "completed"
         THEN "partially_completed" ELSE onFailure

\* Mutant of HasNext: off by one.
HasNextOrLast(t, i) == i <= StepsOf[t]

\* "for step in task.steps": there is a step after step i
HasNext(t, i) == i < StepsOf[t]

\* Runner x leaves step i of t settled as in table: it enters the next step and
\* calls the connector, or finishes with the verdict.  status is the task's
\* status while it is executing.
Proceed(x, t, table, i, status, onFailure) ==
    IF HasNext(t, i)
    THEN /\ steps' = [steps EXCEPT ![t] =
                        [table EXCEPT ![i + 1].status = "in_progress"]]
         /\ taskStatus' = [taskStatus EXCEPT ![t] = status]
         /\ exec' = [exec EXCEPT ![x] =
                        [task |-> t, at |-> i + 1, asleep |-> FALSE]]
    ELSE /\ steps' = [steps EXCEPT ![t] = table]
         /\ taskStatus' = [taskStatus EXCEPT ![t] = Verdict(table, onFailure)]
         /\ exec' = [exec EXCEPT ![x] = Idle]

\* execute_task of a submitted task, up to the first connector call
Begin(x, t, onFailure) ==
    /\ exec[x] = Idle
    /\ t \in submitted
    /\ Proceed(x, t, steps[t], 0, "in_progress", onFailure)
    /\ UNCHANGED submitted

\* The connector call of the current step succeeds
CallSucceeds(x, onFailure) ==
    LET t == exec[x].task
        i == exec[x].at
    IN  /\ t # NoTask /\ ~ exec[x].asleep
        /\ Proceed(x, t, [steps[t] EXCEPT ![i].status = "completed"], i,
                   taskStatus[t], onFailure)
        /\ UNCHANGED submitted

\* Mutant of Retryable: retry_count starts over with every execution.
AlwaysRetryable(n) == n % MaxRetries # 0

\* "retry_count < max_retries", after the failure was counted
Retryable(n) == n < MaxRetries

\* It fails: the step sleeps before another try, or is settled as failed
CallFails(x, onFailure) ==
    LET t == exec[x].task
        i == exec[x].at
        n == steps[t][i].retries + 1
    IN  /\ t # NoTask /\ ~ exec[x].asleep
        /\ IF Retryable(n)
           THEN /\ steps' = [steps EXCEPT ![t][i] =
                               [status |-> "retry_scheduled", retries |-> n]]
                /\ exec' = [exec EXCEPT ![x].asleep = TRUE]
                /\ UNCHANGED taskStatus
           ELSE Proceed(x, t, [steps[t] EXCEPT ![i] =
                                 [status |-> "failed", retries |-> n]], i,
                        taskStatus[t], onFailure)
        /\ UNCHANGED submitted

\* The sleep is over: the step is tried again
WakeUp(x) ==
    LET t == exec[x].task
        i == exec[x].at
    IN  /\ t # NoTask /\ exec[x].asleep
        /\ steps' = [steps EXCEPT ![t][i].status = "in_progress"]
        /\ exec' = [exec EXCEPT ![x].asleep = FALSE]
        /\ UNCHANGED <<submitted, taskStatus>>

-----------------------------------------------------------------------------
\* cancel_task: the status is set and pending steps are marked; a runner that
\* is executing the task is not told
CancelTask(t) ==
    /\ t \in submitted
    /\ taskStatus[t] \in {"pending", "in_progress"}
    /\ taskStatus' = [taskStatus EXCEPT ![t] = "cancelled"]
    /\ steps' = [steps EXCEPT ![t] = [i \in StepIds(t) |->
                    IF steps[t][i].status = "pending"
                    THEN [steps[t][i] EXCEPT !.status = "cancelled"]
                    ELSE steps[t][i]]]
    /\ UNCHANGED <<submitted, exec>>

\* Type invariant of the engine's tables.
EngineTypeOK ==
    /\ submitted \subseteq Tasks
    /\ taskStatus \in [Tasks -> Status]
    /\ DOMAIN steps = Tasks
    /\ \A t \in Tasks :
        steps[t] \in [StepIds(t) -> [status : Status, retries : Nat]]
    /\ exec \in [Runners -> [task : Tasks \cup {NoTask}, at : Nat, asleep : BOOLEAN]]
    /\ \A x \in Runners : exec[x].task # NoTask => exec[x].at \in StepIds(exec[x].task)
=============================================================================
