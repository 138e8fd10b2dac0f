----------------------- MODULE ProvisioningQueueProofs -----------------------
(***************************************************************************)
(* What the provisioning queue guarantees for any tasks, workers, callers  *)
(* and limits.  The inductive invariant adds to OnePlace who executes      *)
(* what: a worker executes the task of the entry it holds, an API call one *)
(* of the tasks no queue ever sees, and nobody else executes it.  From     *)
(* there a runner alone writes the steps of its task, so their state up to *)
(* and after the runner's position is known.                               *)
(***************************************************************************)
EXTENDS ProvisioningQueue, TLAPS

Busy(x) == exec[x].task # NoTask

WorkersExecuteWhatTheyHold == \A w \in Workers : exec[w].task = held[w].task

CallersExecuteTheirs ==
    /\ direct \subseteq submitted
    /\ \A x \in Callers : Busy(x) => exec[x].task \in direct

ExecutedAreSubmitted == \A x \in Runners : Busy(x) => exec[x].task \in submitted

OneRunner == \A x, y \in Runners : x # y /\ Busy(x) => exec[x].task # exec[y].task

AcceptedOrDirect ==
    /\ direct \cap accepted = {}
    /\ QueuedTasks \cup processing \cup completed \cup failed \subseteq accepted

(* The tries of a task that is about to be executed for attempt n: the     *)
(* first execution may use MaxRetries, each later one adds a single one.   *)
Forgiven(n) == MaxAttempts * n
Tries(t, n) == MaxRetries - 1 + Forgiven(requeues[t]) + n

Attempt(x) == IF x \in Workers THEN held[x].attempt ELSE 0

Settled(step) == step.status \in {"completed", "failed"}

(* The steps of a task at which a runner is: what it has left, what not.   *)
StepsAt(table, at, n) ==
    \A i \in DOMAIN table :
        IF i < at THEN Settled(table[i]) /\ table[i].retries <= n + 1
                  ELSE table[i].status # "completed" /\ table[i].retries <= n

NothingDone(t, n) == StepsAt(steps[t], 0, n)

RunnersKnowTheirSteps ==
    \A x \in Runners : Busy(x) =>
        StepsAt(steps[exec[x].task], exec[x].at, Tries(exec[x].task, Attempt(x)))

WaitingTasksAreUndone ==
    /\ \A e \in queue : NothingDone(e.task, Tries(e.task, e.attempt))
    /\ \A t \in failed : NothingDone(t, Tries(t, MaxAttempts))
    /\ \A t \in Tasks \ (accepted \cup direct) : NothingDone(t, Tries(t, 0))

CompletedAreSettled ==
    \A t \in completed :
        /\ \A i \in StepIds(t) : Settled(steps[t][i])
        /\ StepsOf[t] > 0 => \E i \in StepIds(t) : steps[t][i].status = "completed"

AttemptsAreLimited ==
    /\ \A e \in queue : e.attempt < MaxAttempts
    /\ \A w \in Workers : held[w].attempt < MaxAttempts

IInv ==
    /\ TypeOK
    /\ WorkersExecuteWhatTheyHold
    /\ CallersExecuteTheirs
    /\ ExecutedAreSubmitted
    /\ OneRunner
    /\ AcceptedOrDirect
    /\ OnePlace
    /\ RunnersKnowTheirSteps
    /\ WaitingTasksAreUndone
    /\ CompletedAreSettled
    /\ AttemptsAreLimited
    /\ TriesBounded

-----------------------------------------------------------------------------
(* What a runner does to its task.                                         *)

Record == [status : Status, retries : Nat]
Table(t) == [StepIds(t) -> Record]
Execution == [task : Tasks \cup {NoTask}, at : Nat, asleep : BOOLEAN]

(* Runner x moves on in task t, or is through with it and has a verdict.   *)
Advanced(x, t, onFailure, n) ==
    /\ steps'[t] \in Table(t)
    /\ steps' = [steps EXCEPT ![t] = steps'[t]]
    /\ taskStatus'[t] \in Status
    /\ taskStatus' = [taskStatus EXCEPT ![t] = taskStatus'[t]]
    /\ exec'[x] \in Execution
    /\ exec' = [exec EXCEPT ![x] = exec'[x]]
    /\ \A i \in StepIds(t) :
         steps[t][i].status = "completed" => steps'[t][i].status = "completed"
    /\ \/ /\ exec'[x].task = t
          /\ exec'[x].at \in StepIds(t)
          /\ StepsAt(steps'[t], exec'[x].at, n)
       \/ /\ exec'[x] = Idle
          /\ taskStatus'[t] = Verdict(steps'[t], onFailure)
          /\ \A i \in StepIds(t) : Settled(steps'[t][i]) /\ steps'[t][i].retries <= n + 1

(* Numbers of steps and of tries are naturals, which bound the tries.      *)
LEMMA StepNumbers == \A t \in Tasks : StepsOf[t] \in Nat /\ StepIds(t) = 1..StepsOf[t]
  BY EngineAssumption DEF StepIds

LEMMA ForgivenTypes == \A n \in Nat : /\ Forgiven(n) \in Nat
                                     /\ Forgiven(n + 1) = Forgiven(n) + MaxAttempts
<1>1. MaxAttempts \in Nat
  BY QueueAssumption
<1>2. QED
  BY <1>1 DEF Forgiven

LEMMA TriesTypes ==
    ASSUME TypeOK, NEW t \in Tasks, NEW n \in Nat
    PROVE  Tries(t, n) \in Nat /\ Tries(t, n) >= MaxRetries - 1
<1>1. MaxRetries \in Nat \ {0}
  BY EngineAssumption
<1>2. requeues[t] \in Nat
  BY DEF TypeOK
<1>3. Forgiven(requeues[t]) \in Nat
  BY <1>2, ForgivenTypes
<1>4. QED
  BY <1>1, <1>3 DEF Tries

(* Proceed, from a step that is settled in the table.                      *)
LEMMA ProceedAdvances ==
    ASSUME TypeOK, NEW x \in Runners, NEW t \in Tasks, NEW table \in Table(t), NEW i \in Nat,
           NEW status \in Status, NEW onFailure \in Status, NEW n \in Nat,
           StepsAt(table, i + 1, n),
           \A j \in StepIds(t) : steps[t][j].status = "completed" => table[j].status = "completed",
           Proceed(x, t, table, i, status, onFailure)
    PROVE  Advanced(x, t, onFailure, n)
<1>1. /\ DOMAIN steps = Tasks /\ taskStatus \in [Tasks -> Status]
      /\ exec \in [Runners -> Execution]
  BY DEF TypeOK, EngineTypeOK, Execution
<1>2. DOMAIN table = StepIds(t) /\ StepIds(t) = 1..StepsOf[t] /\ StepsOf[t] \in Nat
  BY StepNumbers DEF Table
<1>3. \A j \in StepIds(t) : table[j] \in Record
  BY DEF Table
<1>4. CASE HasNext(t, i)
  <2>1. i + 1 \in StepIds(t)
    BY <1>2, <1>4 DEF HasNext
  <2> DEFINE after == [table EXCEPT ![i + 1].status = "in_progress"]
             here == [task |-> t, at |-> i + 1, asleep |-> FALSE]
  <2>2. /\ steps' = [steps EXCEPT ![t] = after]
        /\ taskStatus' = [taskStatus EXCEPT ![t] = status]
        /\ exec' = [exec EXCEPT ![x] = here]
    BY <1>4 DEF Proceed
  <2>3. after \in Table(t) /\ DOMAIN after = StepIds(t)
    BY <2>1, <1>3 DEF Table, Record, Status
  <2>4. StepsAt(after, i + 1, n)
    <3>1. \A j \in StepIds(t) : j # i + 1 => after[j] = table[j]
      BY <1>2
    <3>2. after[i + 1].status = "in_progress" /\ after[i + 1].retries = table[i + 1].retries
      BY <1>2, <1>3, <2>1 DEF Record
    <3>3. table[i + 1].retries <= n
      BY <1>2, <2>1 DEF StepsAt
    <3> HIDE DEF after
    <3>4. QED
      BY <3>1, <3>2, <3>3, <1>2, <2>1, <2>3 DEF StepsAt
  <2>5. \A j \in StepIds(t) : steps[t][j].status = "completed" => after[j].status = "completed"
    <3> SUFFICES ASSUME NEW j \in StepIds(t), steps[t][j].status = "completed"
                 PROVE  after[j].status = "completed"
      OBVIOUS
    <3>1. table[j].status = "completed"
      OBVIOUS
    <3>2. j # i + 1
      BY <3>1, <1>2, <2>1 DEF StepsAt
    <3>3. QED
      BY <3>1, <3>2, <1>2
  <2>6. here \in Execution /\ here.task = t /\ here.at = i + 1
    BY DEF Execution
  <2> HIDE DEF after, here
  <2>7. steps'[t] = after /\ taskStatus'[t] = status /\ exec'[x] = here
    BY <2>2, <1>1
  <2>8. QED
    BY <2>1, <2>2, <2>3, <2>4, <2>5, <2>6, <2>7 DEF Advanced
<1>5. CASE ~ HasNext(t, i)
  <2>1. /\ steps' = [steps EXCEPT ![t] = table]
        /\ taskStatus' = [taskStatus EXCEPT ![t] = Verdict(table, onFailure)]
        /\ exec' = [exec EXCEPT ![x] = Idle]
    BY <1>5 DEF Proceed
  <2>2. \A j \in StepIds(t) : Settled(table[j]) /\ table[j].retries <= n + 1
    BY <1>2, <1>5 DEF HasNext, StepsAt
  <2>3. Verdict(table, onFailure) \in Status
    BY DEF Verdict, Status
  <2>4. Idle \in Execution
    BY DEF Idle, Execution
  <2>5. steps'[t] = table /\ taskStatus'[t] = Verdict(table, onFailure) /\ exec'[x] = Idle
    BY <2>1, <1>1
  <2>6. QED
    BY <2>1, <2>2, <2>3, <2>4, <2>5 DEF Advanced
<1>6. QED
  BY <1>4, <1>5

(* A task begins where nothing is done.                                    *)
LEMMA BeginAdvances ==
    ASSUME TypeOK, NEW x \in Runners, NEW t \in Tasks, NEW onFailure \in Status, NEW n \in Nat,
           NothingDone(t, n),
           Proceed(x, t, steps[t], 0, "in_progress", onFailure)
    PROVE  Advanced(x, t, onFailure, n)
<1>1. steps[t] \in Table(t) /\ DOMAIN steps[t] = 1..StepsOf[t]
  BY StepNumbers DEF TypeOK, EngineTypeOK, Table, Record
<1>2. StepsAt(steps[t], 0 + 1, n)
  BY <1>1 DEF NothingDone, StepsAt
<1>3. "in_progress" \in Status
  BY DEF Status
<1>4. QED
  BY <1>1, <1>2, <1>3, ProceedAdvances, Zenon

(* The outcome of a connector call, by whoever executes the task.          *)
LEMMA CallAdvances ==
    ASSUME TypeOK, RunnersKnowTheirSteps, ExecutedAreSubmitted,
           NEW x \in Runners, NEW n \in Nat, n >= MaxRetries - 1, NEW onFailure \in Status,
           Busy(x) => StepsAt(steps[exec[x].task], exec[x].at, n),
           CallSucceeds(x, onFailure) \/ CallFails(x, onFailure)
    PROVE  /\ Busy(x) /\ exec[x].task \in Tasks
           /\ Advanced(x, exec[x].task, onFailure, n)
           /\ submitted' = submitted
<1> DEFINE t == exec[x].task
           i == exec[x].at
           k == steps[t][i].retries + 1
<1>1. Busy(x) /\ submitted' = submitted /\ ~ exec[x].asleep
  BY DEF Busy, CallSucceeds, CallFails
<1>2. t \in Tasks /\ i \in StepIds(t) /\ i \in Nat
  BY <1>1 DEF TypeOK, EngineTypeOK, Busy
<1>3. steps[t] \in Table(t) /\ DOMAIN steps[t] = StepIds(t) /\ StepIds(t) = 1..StepsOf[t]
  BY <1>2, StepNumbers DEF TypeOK, EngineTypeOK, Table, Record
<1>4. taskStatus[t] \in Status
  BY <1>2 DEF TypeOK, EngineTypeOK
<1>5. StepsAt(steps[t], i, n)
  BY <1>1
<1>6. steps[t][i] \in Record
  BY <1>2, <1>3 DEF Table
<1>7. steps[t][i].retries \in Nat /\ steps[t][i].retries <= n /\ k \in Nat
  BY <1>2, <1>3, <1>5, <1>6 DEF Record, StepsAt
<1>8. steps[t][i].status # "completed"
  BY <1>2, <1>3, <1>5 DEF StepsAt
<1>9. ASSUME NEW new \in Record, new.retries <= n + 1, Settled(new),
             Proceed(x, t, [steps[t] EXCEPT ![i] = new], i, taskStatus[t], onFailure)
      PROVE  Advanced(x, t, onFailure, n)
  <2> DEFINE table == [steps[t] EXCEPT ![i] = new]
  <2>1. table \in Table(t) /\ DOMAIN table = StepIds(t)
    BY <1>2, <1>3 DEF Table
  <2>2. \A j \in StepIds(t) : table[j] = IF j = i THEN new ELSE steps[t][j]
    BY <1>2, <1>3
  <2>3. Proceed(x, t, table, i, taskStatus[t], onFailure)
    BY <1>9
  <2> HIDE DEF table
  <2>4. StepsAt(table, i + 1, n)
    <3> SUFFICES ASSUME NEW j \in StepIds(t)
                 PROVE  IF j < i + 1 THEN Settled(table[j]) /\ table[j].retries <= n + 1
                        ELSE table[j].status # "completed" /\ table[j].retries <= n
      BY <2>1 DEF StepsAt
    <3>1. j \in Int /\ i \in Int
      BY <1>2, <1>3
    <3>2. CASE j = i
      BY <3>1, <3>2, <2>2, <1>9
    <3>3. CASE j # i
      BY <3>1, <3>3, <2>2, <1>3, <1>5 DEF StepsAt
    <3>4. QED
      BY <3>2, <3>3
  <2>5. \A j \in StepIds(t) : steps[t][j].status = "completed" => table[j].status = "completed"
    BY <2>2, <1>8
  <2> HIDE DEF t, i
  <2>6. QED
    BY <2>1, <2>3, <2>4, <2>5, <1>2, <1>4, ProceedAdvances, Zenon
<1>10. CASE CallSucceeds(x, onFailure)
  <2> DEFINE new == [steps[t][i] EXCEPT !.status = "completed"]
  <2>1. new \in Record /\ new.retries = steps[t][i].retries /\ new.status = "completed"
    BY <1>6 DEF Record, Status
  <2>2. [steps[t] EXCEPT ![i].status = "completed"] = [steps[t] EXCEPT ![i] = new]
    OBVIOUS
  <2>3. Proceed(x, t, [steps[t] EXCEPT ![i] = new], i, taskStatus[t], onFailure)
    BY <1>10, <2>2 DEF CallSucceeds
  <2>4. new.retries <= n + 1 /\ Settled(new)
    BY <2>1, <1>7 DEF Settled
  <2> HIDE DEF new, t, i
  <2>5. Advanced(x, t, onFailure, n)
    BY <2>1, <2>3, <2>4, <1>9
  <2>6. QED
    BY <2>5, <1>1, <1>2 DEF t
<1>11. CASE CallFails(x, onFailure) /\ Retryable(k)
  <2> DEFINE new == [status |-> "retry_scheduled", retries |-> k]
             after == [steps[t] EXCEPT ![i] = new]
             there == [exec[x] EXCEPT !.asleep = TRUE]
  <2>1. /\ steps' = [steps EXCEPT ![t][i] = new]
        /\ exec' = [exec EXCEPT ![x].asleep = TRUE]
        /\ taskStatus' = taskStatus
    BY <1>11 DEF CallFails
  <2>2. steps' = [steps EXCEPT ![t] = after] /\ exec' = [exec EXCEPT ![x] = there]
    BY <2>1
  <2>3. k <= n
    BY <1>7, <1>11, EngineAssumption DEF Retryable
  <2>4. new \in Record /\ new.status = "retry_scheduled" /\ new.retries = k
    BY <1>7 DEF Record, Status
  <2>5. there \in Execution /\ there.task = t /\ there.at = i
    BY DEF TypeOK, EngineTypeOK, Execution
  <2> HIDE DEF new, there
  <2>6. after \in Table(t) /\ DOMAIN after = StepIds(t)
    BY <1>2, <1>3, <2>4 DEF Table
  <2>7. \A j \in StepIds(t) : after[j] = IF j = i THEN new ELSE steps[t][j]
    BY <1>2, <1>3
  <2> HIDE DEF after
  <2>8. StepsAt(after, i, n)
    <3> SUFFICES ASSUME NEW j \in StepIds(t)
                 PROVE  IF j < i THEN Settled(after[j]) /\ after[j].retries <= n + 1
                        ELSE after[j].status # "completed" /\ after[j].retries <= n
      BY <2>6 DEF StepsAt
    <3>1. CASE j = i
      BY <3>1, <2>3, <2>4, <2>7, <1>2
    <3>2. CASE j # i
      BY <3>2, <2>7, <1>3, <1>5 DEF StepsAt
    <3>3. QED
      BY <3>1, <3>2
  <2>9. \A j \in StepIds(t) : steps[t][j].status = "completed" => after[j].status = "completed"
    BY <2>7, <1>8
  <2>10. steps'[t] = after /\ exec'[x] = there /\ taskStatus'[t] = taskStatus[t]
    BY <2>1, <2>2, <1>2 DEF TypeOK, EngineTypeOK
  <2>11. taskStatus' = [taskStatus EXCEPT ![t] = taskStatus[t]]
    BY <2>1, <1>2 DEF TypeOK, EngineTypeOK
  <2> HIDE DEF t, i, k
  <2>12. Advanced(x, t, onFailure, n)
    BY <2>2, <2>5, <2>6, <2>8, <2>9, <2>10, <2>11, <1>2, <1>4 DEF Advanced
  <2>13. QED
    BY <2>12, <1>1, <1>2 DEF t
<1>12. CASE CallFails(x, onFailure) /\ ~ Retryable(k)
  <2> DEFINE new == [status |-> "failed", retries |-> k]
  <2>1. Proceed(x, t, [steps[t] EXCEPT ![i] = new], i, taskStatus[t], onFailure)
    BY <1>12 DEF CallFails
  <2>2. new \in Record /\ new.retries <= n + 1 /\ Settled(new)
    BY <1>7 DEF Record, Status, Settled
  <2> HIDE DEF new, t, i
  <2>3. Advanced(x, t, onFailure, n)
    BY <2>1, <2>2, <1>9
  <2>4. QED
    BY <2>3, <1>1, <1>2 DEF t
<1>13. QED
  BY <1>10, <1>11, <1>12

(* The end of the sleep before a retry, by whoever executes the task.      *)
LEMMA WakeAdvances ==
    ASSUME TypeOK, NEW x \in Runners, NEW n \in Nat, NEW onFailure,
           Busy(x) => StepsAt(steps[exec[x].task], exec[x].at, n),
           WakeUp(x)
    PROVE  /\ Busy(x) /\ exec[x].task \in Tasks
           /\ Advanced(x, exec[x].task, onFailure, n)
           /\ exec'[x].task = exec[x].task
           /\ submitted' = submitted /\ taskStatus' = taskStatus
<1> DEFINE t == exec[x].task
           i == exec[x].at
           new == [steps[t][i] EXCEPT !.status = "in_progress"]
           after == [steps[t] EXCEPT ![i] = new]
           there == [exec[x] EXCEPT !.asleep = FALSE]
<1>1. Busy(x) /\ submitted' = submitted /\ taskStatus' = taskStatus
  BY DEF Busy, WakeUp
<1>2. t \in Tasks /\ i \in StepIds(t)
  BY <1>1 DEF TypeOK, EngineTypeOK, Busy
<1>3. steps[t] \in Table(t) /\ DOMAIN steps[t] = StepIds(t) /\ StepIds(t) = 1..StepsOf[t]
  BY <1>2, StepNumbers DEF TypeOK, EngineTypeOK, Table, Record
<1>4. StepsAt(steps[t], i, n)
  BY <1>1
<1>5. steps[t][i] \in Record
  BY <1>2, <1>3 DEF Table
<1>6. new \in Record /\ new.status = "in_progress" /\ new.retries = steps[t][i].retries
  BY <1>5 DEF Record, Status
<1>7. steps[t][i].status # "completed" /\ steps[t][i].retries <= n
  BY <1>2, <1>3, <1>4 DEF StepsAt
<1>8. steps' = [steps EXCEPT ![t] = after] /\ exec' = [exec EXCEPT ![x] = there]
  BY DEF WakeUp
<1>9. there \in Execution /\ there.task = t /\ there.at = i
  BY DEF TypeOK, EngineTypeOK, Execution
<1> HIDE DEF new, there
<1>10. after \in Table(t) /\ DOMAIN after = StepIds(t)
  BY <1>2, <1>3, <1>6 DEF Table
<1>11. \A j \in StepIds(t) : after[j] = IF j = i THEN new ELSE steps[t][j]
  BY <1>2, <1>3
<1> HIDE DEF after
<1>12. StepsAt(after, i, n)
  <2> SUFFICES ASSUME NEW j \in StepIds(t)
               PROVE  IF j < i THEN Settled(after[j]) /\ after[j].retries <= n + 1
                      ELSE after[j].status # "completed" /\ after[j].retries <= n
    BY <1>10 DEF StepsAt
  <2>1. CASE j = i
    BY <2>1, <1>6, <1>7, <1>11, <1>2, <1>3
  <2>2. CASE j # i
    BY <2>2, <1>11, <1>3, <1>4 DEF StepsAt
  <2>3. QED
    BY <2>1, <2>2
<1>13. \A j \in StepIds(t) : steps[t][j].status = "completed" => after[j].status = "completed"
  BY <1>11, <1>7
<1>14. steps'[t] = after /\ exec'[x] = there /\ taskStatus'[t] = taskStatus[t]
  BY <1>1, <1>8, <1>2 DEF TypeOK, EngineTypeOK
<1>15. taskStatus' = [taskStatus EXCEPT ![t] = taskStatus[t]] /\ taskStatus[t] \in Status
  BY <1>1, <1>2 DEF TypeOK, EngineTypeOK
<1> HIDE DEF t, i
<1>16. Advanced(x, t, onFailure, n)
  BY <1>2, <1>8, <1>9, <1>10, <1>12, <1>13, <1>14, <1>15 DEF Advanced
<1>17. QED
  BY <1>1, <1>2, <1>9, <1>14, <1>16 DEF t

-----------------------------------------------------------------------------
(* What such a step leaves of the invariant.                               *)

(* No runner but x, and no task but t, is touched.                         *)
LEMMA AdvanceEngine ==
    ASSUME IInv, NEW x \in Runners, NEW t \in Tasks, NEW n, NEW onFailure,
           Advanced(x, t, onFailure, n),
           \A y \in Runners \ {x} : exec[y].task # t,
           submitted \subseteq submitted', submitted' \subseteq Tasks, t \in submitted'
    PROVE  /\ EngineTypeOK' /\ ExecutedAreSubmitted' /\ OneRunner'
           /\ exec'[x].task \in {t, NoTask}
           /\ \A y \in Runners \ {x} : exec'[y] = exec[y]
           /\ \A u \in Tasks \ {t} : steps'[u] = steps[u] /\ taskStatus'[u] = taskStatus[u]
<1>1. EngineTypeOK
  BY DEF IInv, TypeOK
<1>2. \A y \in Runners : exec[y] \in Execution
  BY <1>1 DEF EngineTypeOK, Execution
<1>3. /\ exec' = [exec EXCEPT ![x] = exec'[x]] /\ exec'[x] \in Execution
      /\ (exec'[x].task = t /\ exec'[x].at \in StepIds(t)) \/ exec'[x] = Idle
  BY DEF Advanced
<1>4. exec'[x].task \in {t, NoTask}
  BY <1>3 DEF Idle
<1>5. \A y \in Runners \ {x} : exec'[y] = exec[y]
  BY <1>1, <1>3 DEF EngineTypeOK
<1>6. \A u \in Tasks \ {t} : steps'[u] = steps[u] /\ taskStatus'[u] = taskStatus[u]
  BY <1>1 DEF Advanced, EngineTypeOK
<1>7. EngineTypeOK'
  <2>1. DOMAIN steps' = Tasks /\ taskStatus' \in [Tasks -> Status]
    BY <1>1 DEF Advanced, EngineTypeOK
  <2>2. \A u \in Tasks : steps'[u] \in [StepIds(u) -> [status : Status, retries : Nat]]
    BY <1>1, <1>6 DEF Advanced, EngineTypeOK, Table, Record
  <2>3. exec' \in [Runners -> [task : Tasks \cup {NoTask}, at : Nat, asleep : BOOLEAN]]
    BY <1>1, <1>3 DEF EngineTypeOK, Execution
  <2>4. ASSUME NEW y \in Runners, exec'[y].task # NoTask
        PROVE  exec'[y].at \in StepIds(exec'[y].task)
    <3>1. CASE y = x
      BY <3>1, <2>4, <1>3 DEF Idle
    <3>2. CASE y # x
      BY <3>2, <2>4, <1>5, <1>1 DEF EngineTypeOK
    <3>3. QED
      BY <3>1, <3>2
  <2>5. QED
    BY <2>1, <2>2, <2>3, <2>4 DEF EngineTypeOK
<1>8. ExecutedAreSubmitted'
  BY <1>4, <1>5 DEF IInv, ExecutedAreSubmitted, Busy
<1>9. OneRunner'
  <2> SUFFICES ASSUME NEW y \in Runners, NEW z \in Runners, y # z, exec'[y].task # NoTask
               PROVE  exec'[y].task # exec'[z].task
    BY DEF OneRunner, Busy
  <2>1. CASE y = x
    BY <2>1, <1>4, <1>5
  <2>2. CASE z = x
    BY <2>2, <1>4, <1>5
  <2>3. CASE y # x /\ z # x
    BY <2>3, <1>5 DEF IInv, OneRunner, Busy
  <2>4. QED
    BY <2>1, <2>2, <2>3
<1>10. QED
  BY <1>4, <1>5, <1>6, <1>7, <1>8, <1>9

(* The tries of a later attempt of the task are more.                      *)
LEMMA TriesGrow ==
    ASSUME TypeOK, NEW t \in Tasks, NEW a \in Nat, a < MaxAttempts
    PROVE  /\ Tries(t, a) \in Nat /\ Tries(t, a) + 1 = Tries(t, a + 1)
           /\ Tries(t, a) + 1 <= Tries(t, MaxAttempts)
           /\ Tries(t, MaxAttempts) = MaxRetries - 1 + MaxAttempts * (1 + requeues[t])
<1>1. MaxRetries \in Nat \ {0} /\ MaxAttempts \in Nat \ {0} /\ requeues[t] \in Nat
  BY EngineAssumption, QueueAssumption DEF TypeOK
<1>2. Forgiven(requeues[t]) \in Nat /\ Forgiven(requeues[t] + 1) = Forgiven(requeues[t]) + MaxAttempts
  BY <1>1, ForgivenTypes
<1>3. Forgiven(requeues[t] + 1) = MaxAttempts * (1 + requeues[t])
  BY <1>1 DEF Forgiven
<1>4. QED
  BY <1>1, <1>2, <1>3 DEF Tries

(* After the step no try of the task exceeds what its attempt allows.      *)
LEMMA AdvanceTries ==
    ASSUME IInv, NEW x \in Runners, NEW t \in Tasks, NEW a \in Nat, NEW onFailure, a < MaxAttempts,
           Advanced(x, t, onFailure, Tries(t, a)),
           \A u \in Tasks \ {t} : steps'[u] = steps[u],
           requeues' = requeues
    PROVE  TriesBounded'
<1>1. TypeOK /\ TriesBounded
  BY DEF IInv
<1>2. Tries(t, a) \in Nat /\ Tries(t, a) + 1 <= MaxRetries - 1 + MaxAttempts * (1 + requeues[t])
  BY <1>1, TriesGrow
<1> DEFINE most == MaxRetries - 1 + MaxAttempts * (1 + requeues[t])
<1>3. most \in Int
  BY <1>1, TriesTypes, EngineAssumption, QueueAssumption DEF TypeOK
<1>4. ASSUME NEW i \in StepIds(t)
      PROVE  steps'[t][i].retries <= most
  <2>1. steps'[t][i].retries \in Nat
    BY DEF Advanced, Table, Record
  <2>2. steps'[t][i].retries <= Tries(t, a) + 1
    <3>1. CASE exec'[x].task = t /\ exec'[x].at \in StepIds(t) /\ StepsAt(steps'[t], exec'[x].at, Tries(t, a))
      <4>1. DOMAIN steps'[t] = StepIds(t)
        BY DEF Advanced, Table
      <4>2. QED
        BY <3>1, <4>1, <2>1, <1>2 DEF StepsAt
    <3>2. CASE exec'[x] = Idle /\ \A j \in StepIds(t) : steps'[t][j].retries <= Tries(t, a) + 1
      BY <3>2
    <3>3. QED
      BY <3>1, <3>2 DEF Advanced
  <2> HIDE DEF most
  <2>3. Tries(t, a) + 1 <= most
    BY <1>2 DEF most
  <2>4. QED
    BY <2>1, <2>2, <2>3, <1>2, <1>3
<1>5. QED
  BY <1>1, <1>4 DEF TriesBounded

(* An API call, which no store of the queue knows of, moves on.            *)
LEMMA CallerStep ==
    ASSUME IInv, NEW x \in Callers, NEW t \in Tasks, NEW onFailure,
           Advanced(x, t, onFailure, Tries(t, 0)),
           \A y \in Runners \ {x} : exec[y].task # t,
           submitted \subseteq submitted', submitted' \subseteq Tasks, t \in submitted',
           t \in direct', direct \subseteq direct', direct' \subseteq direct \cup {t}, t \notin accepted,
           UNCHANGED <<storeVars, accepted, requeues, poolVars>>
    PROVE  IInv'
<1>0. x \in Runners /\ x \notin Workers /\ \A w \in Workers : w \in Runners
  BY QueueAssumption
<1>1. /\ EngineTypeOK' /\ ExecutedAreSubmitted' /\ OneRunner'
      /\ exec'[x].task \in {t, NoTask}
      /\ \A y \in Runners \ {x} : exec'[y] = exec[y]
      /\ \A u \in Tasks \ {t} : steps'[u] = steps[u] /\ taskStatus'[u] = taskStatus[u]
  BY <1>0, AdvanceEngine
<1>2. TypeOK'
  BY <1>1 DEF IInv, TypeOK, storeVars, poolVars
<1>3. WorkersExecuteWhatTheyHold'
  BY <1>0, <1>1 DEF IInv, WorkersExecuteWhatTheyHold, storeVars
<1>4. CallersExecuteTheirs'
  <2>0. direct' \subseteq submitted'
    BY DEF IInv, CallersExecuteTheirs
  <2> SUFFICES ASSUME NEW y \in Callers, exec'[y].task # NoTask
               PROVE  exec'[y].task \in direct'
    BY <2>0 DEF CallersExecuteTheirs, Busy
  <2>1. CASE y = x
    BY <2>1, <1>1
  <2>2. CASE y # x
    <3>1. y \in Runners
      BY QueueAssumption
    <3>2. QED
      BY <2>2, <3>1, <1>1 DEF IInv, CallersExecuteTheirs, Busy
  <2>3. QED
    BY <2>1, <2>2
<1>5. AcceptedOrDirect'
  BY DEF IInv, AcceptedOrDirect, storeVars, QueuedTasks
<1>6. \A u \in QueuedTasks \cup processing \cup completed \cup failed \cup accepted : u # t /\ u \in Tasks
  BY DEF IInv, AcceptedOrDirect, TypeOK
<1>7. OnePlace'
  <2>1. \A u \in accepted : taskStatus'[u] = taskStatus[u]
    BY <1>1, <1>6
  <2>2. QED
    BY <2>1 DEF IInv, OnePlace, storeVars, QueuedTasks
<1>8. RunnersKnowTheirSteps'
  <2> SUFFICES ASSUME NEW y \in Runners, exec'[y].task # NoTask
               PROVE  StepsAt(steps'[exec'[y].task], exec'[y].at,
                              MaxRetries - 1 + Forgiven(requeues'[exec'[y].task])
                              + (IF y \in Workers THEN held'[y].attempt ELSE 0))
    BY DEF RunnersKnowTheirSteps, Busy, Tries, Attempt
  <2>0. requeues' = requeues /\ held' = held
    BY DEF storeVars
  <2>1. CASE y = x
    <3>1. exec'[y].task = t /\ exec'[y] # Idle
      BY <2>1, <1>1 DEF Idle
    <3>2. StepsAt(steps'[t], exec'[y].at, Tries(t, 0))
      BY <2>1, <3>1 DEF Advanced
    <3>3. QED
      BY <2>0, <2>1, <3>1, <3>2, <1>0 DEF Tries
  <2>2. CASE y # x
    <3>1. exec'[y] = exec[y] /\ exec[y].task # NoTask /\ exec[y].task \in Tasks \ {t}
      BY <2>2, <1>1 DEF IInv, TypeOK, EngineTypeOK
    <3>2. StepsAt(steps[exec[y].task], exec[y].at, Tries(exec[y].task, Attempt(y)))
      BY <3>1 DEF IInv, RunnersKnowTheirSteps, Busy
    <3>3. QED
      BY <2>0, <3>1, <3>2, <1>1 DEF Tries, Attempt
  <2>3. QED
    BY <2>1, <2>2
<1>9. WaitingTasksAreUndone'
  <2>1. \A u \in QueuedTasks \cup failed \cup (Tasks \ (accepted \cup direct')) : u \in Tasks \ {t}
    BY <1>6
  <2>2. \A u \in Tasks \ {t} : steps'[u] = steps[u]
    BY <1>1
  <2>3. \A e \in queue : e.task \in Tasks \ {t}
    BY <2>1 DEF QueuedTasks
  <2>4. QED
    BY <2>1, <2>2, <2>3 DEF IInv, WaitingTasksAreUndone, NothingDone, Tries, storeVars
<1>10. CompletedAreSettled'
  BY <1>1, <1>6 DEF IInv, CompletedAreSettled, storeVars
<1>11. AttemptsAreLimited'
  BY DEF IInv, AttemptsAreLimited, storeVars
<1>12. TriesBounded'
  <2>1. 0 < MaxAttempts /\ 0 \in Nat
    BY QueueAssumption
  <2>2. QED
    BY <2>1, <1>0, <1>1, AdvanceTries
<1>13. QED
  BY <1>1, <1>2, <1>3, <1>4, <1>5, <1>7, <1>8, <1>9, <1>10, <1>11, <1>12 DEF IInv

-----------------------------------------------------------------------------
(* A worker's step: the entry it has is in no place but one.               *)

(* The places of a task, as OnePlace says, entry by entry.                 *)
LEMMA Places ==
    ASSUME IInv
    PROVE  /\ \A w \in Workers : held[w] = NoEntry \/ held[w] \in Entry
           /\ \A w \in Workers : held[w] # NoEntry <=> held[w].task # NoTask
           /\ \A w \in Workers : held[w] # NoEntry => held[w].task \in processing
           /\ \A t \in processing : \E w \in Workers : held[w] # NoEntry /\ held[w].task = t
           /\ \A t \in QueuedTasks \cup processing \cup completed \cup failed :
                t \in Tasks /\ t \in accepted /\ t \notin direct
           /\ \A x \in Runners : exec[x].task # NoTask =>
                \/ x \in Workers /\ held[x] # NoEntry /\ held[x].task = exec[x].task
                \/ x \in Callers /\ exec[x].task \in direct
<1>1. \A w \in Workers : held[w] = NoEntry \/ held[w] \in Entry
  BY DEF IInv, TypeOK
<1>2. \A w \in Workers : held[w] # NoEntry <=> held[w].task # NoTask
  <2>1. NoEntry.task = NoTask
    BY DEF NoEntry
  <2>2. \A e \in Entry : e.task \in Tasks
    BY DEF Entry
  <2>3. QED
    BY <1>1, <2>1, <2>2, EngineAssumption
<1>3. /\ \A w \in Workers : held[w] # NoEntry => held[w].task \in processing
      /\ \A t \in processing : \E w \in Workers : held[w] # NoEntry /\ held[w].task = t
  <2>1. processing = {held[w].task : w \in {v \in Workers : held[v] # NoEntry}}
    BY DEF IInv, OnePlace
  <2>2. QED
    BY <2>1
<1>4. \A t \in QueuedTasks \cup processing \cup completed \cup failed :
        t \in Tasks /\ t \in accepted /\ t \notin direct
  BY DEF IInv, AcceptedOrDirect, TypeOK
<1>5. \A x \in Runners : exec[x].task # NoTask =>
        \/ x \in Workers /\ held[x] # NoEntry /\ held[x].task = exec[x].task
        \/ x \in Callers /\ exec[x].task \in direct
  BY <1>2, QueueAssumption DEF IInv, WorkersExecuteWhatTheyHold, CallersExecuteTheirs, Busy
<1>6. QED
  BY <1>1, <1>2, <1>3, <1>4, <1>5

(* Worker w has entry e in its hands: it took it before, or takes it now.  *)
Has(w, e, rest) ==
    \/ held[w] = e /\ e \in Entry /\ rest = queue
    \/ held[w] = NoEntry /\ e \in queue /\ rest = queue \ {e}

LEMMA HasAlone ==
    ASSUME IInv, NEW w \in Workers, NEW e, NEW rest, Has(w, e, rest)
    PROVE  /\ e \in Entry /\ e.attempt \in Nat /\ e.attempt < MaxAttempts
           /\ e.task \in Tasks /\ e.task # NoTask
           /\ e.task \in accepted /\ e.task \notin direct
           /\ e.task \notin completed \cup failed
           /\ rest \subseteq queue
           /\ \A f \in rest : f.task # e.task
           /\ \A f \in queue : f \in rest \/ f.task = e.task
           /\ \A v \in Workers \ {w} : held[v].task # e.task
           /\ \A x \in Runners \ {w} : exec[x].task # e.task
           /\ \A t \in processing \ {e.task} :
                \E v \in Workers \ {w} : held[v] # NoEntry /\ held[v].task = t
<1>1. e \in Entry /\ e.attempt < MaxAttempts
  BY DEF Has, IInv, TypeOK, AttemptsAreLimited
<1>2. e.attempt \in Nat /\ e.task \in Tasks /\ e.task # NoTask
  BY <1>1, EngineAssumption DEF Entry
<1>3. CASE held[w] = e /\ rest = queue
  <2>1. e # NoEntry /\ e.task \in processing
    BY <1>2, <1>3, Places DEF NoEntry
  <2>2. e.task \notin QueuedTasks \cup completed \cup failed
    BY <2>1, <1>2 DEF IInv, OnePlace
  <2>3. \A f \in queue : f.task # e.task
    BY <2>2 DEF QueuedTasks
  <2>4. \A v \in Workers \ {w} : held[v].task # e.task
    BY <2>1, <1>3 DEF IInv, OnePlace
  <2>5. \A t \in processing \ {e.task} : \E v \in Workers \ {w} : held[v] # NoEntry /\ held[v].task = t
    BY <1>3, Places
  <2>6. QED
    BY <1>1, <1>2, <1>3, <2>1, <2>2, <2>3, <2>4, <2>5, Places
<1>4. CASE held[w] = NoEntry /\ e \in queue /\ rest = queue \ {e}
  <2>1. e.task \in QueuedTasks
    BY <1>4 DEF QueuedTasks
  <2>2. e.task \notin processing \cup completed \cup failed
    BY <2>1, <1>2 DEF IInv, OnePlace
  <2>3. \A f \in rest : f.task # e.task
    BY <1>4 DEF IInv, OnePlace
  <2>4. \A v \in Workers : held[v].task # e.task
    BY <2>2, <1>2, Places DEF NoEntry
  <2>5. \A t \in processing \ {e.task} : \E v \in Workers \ {w} : held[v] # NoEntry /\ held[v].task = t
    BY <1>4, Places
  <2>6. QED
    BY <1>1, <1>2, <1>4, <2>1, <2>2, <2>3, <2>4, <2>5, Places
<1>5. QED
  BY <1>3, <1>4 DEF Has

(* What a worker's step does to the stores: its entry stays in its hands,  *)
(* or it is settled: done, or back in the heap, or failed.                 *)
Requeued(e) == [task |-> e.task, due |-> FALSE, attempt |-> e.attempt + 1]

Kept(w, e, rest) ==
    /\ held' = [held EXCEPT ![w] = e]
    /\ processing' = processing \cup {e.task}
    /\ queue' = rest
    /\ UNCHANGED <<completed, failed>>

Filed(w, e, rest) ==
    /\ held' = [held EXCEPT ![w] = NoEntry]
    /\ processing' = processing \ {e.task}
    /\ \/ /\ CountsAsDone(taskStatus'[e.task])
          /\ queue' = rest /\ completed' = completed \cup {e.task} /\ failed' = failed
       \/ /\ ~ CountsAsDone(taskStatus'[e.task]) /\ e.attempt + 1 < MaxAttempts
          /\ queue' = rest \cup {Requeued(e)} /\ UNCHANGED <<completed, failed>>
       \/ /\ ~ CountsAsDone(taskStatus'[e.task]) /\ ~ (e.attempt + 1 < MaxAttempts)
          /\ queue' = rest /\ failed' = failed \cup {e.task} /\ completed' = completed

LEMMA FollowCases ==
    ASSUME NEW w, NEW e, NEW rest, Follow(w, e, rest)
    PROVE  IF exec'[w] = Idle THEN Filed(w, e, rest) ELSE Kept(w, e, rest)
  BY DEF Follow, Settle, HandleFailure, AfterFailure, Filed, Kept, Requeued

(* The stores stay disjoint and hold one entry per task.                   *)
LEMMA StoresStayDisjoint ==
    ASSUME IInv, NEW w \in Workers, NEW e, NEW rest, Has(w, e, rest),
           Kept(w, e, rest) \/ Filed(w, e, rest),
           \A u \in Tasks \ {e.task} : taskStatus'[u] = taskStatus[u],
           UNCHANGED <<clientVars, poolVars>>
    PROVE  /\ queue' \subseteq Entry
           /\ held' \in [Workers -> Entry \cup {NoEntry}]
           /\ AcceptedOrDirect'
           /\ AttemptsAreLimited'
           /\ OnePlace'
<1> USE DEF Requeued
<1>1. /\ e \in Entry /\ e.attempt \in Nat /\ e.attempt < MaxAttempts
      /\ e.task \in Tasks /\ e.task # NoTask
      /\ e.task \in accepted /\ e.task \notin direct
      /\ e.task \notin completed \cup failed
      /\ rest \subseteq queue
      /\ \A f \in rest : f.task # e.task
      /\ \A f \in queue : f \in rest \/ f.task = e.task
      /\ \A v \in Workers \ {w} : held[v].task # e.task
      /\ \A t \in processing \ {e.task} :
           \E v \in Workers \ {w} : held[v] # NoEntry /\ held[v].task = t
  BY HasAlone
<1>2. held \in [Workers -> Entry \cup {NoEntry}] /\ queue \subseteq Entry
  BY DEF IInv, TypeOK
<1>3. /\ held'[w] = e \/ held'[w] = NoEntry
      /\ \A v \in Workers \ {w} : held'[v] = held[v]
      /\ held' \in [Workers -> Entry \cup {NoEntry}]
  BY <1>1, <1>2 DEF Kept, Filed
<1>4. Requeued(e) \in Entry /\ Requeued(e).task = e.task /\ Requeued(e).attempt = e.attempt + 1
  BY <1>1 DEF Entry
<1> HIDE DEF Requeued
<1>5. queue' \subseteq Entry
  BY <1>1, <1>2, <1>4 DEF Kept, Filed
<1>6. QueuedTasks' \subseteq QueuedTasks \cup {e.task} /\ QueuedTasks \ {e.task} \subseteq QueuedTasks'
  BY <1>1, <1>4 DEF Kept, Filed, QueuedTasks
<1>7. AcceptedOrDirect'
  BY <1>1, <1>6 DEF IInv, AcceptedOrDirect, clientVars, Kept, Filed
<1>8. AttemptsAreLimited'
  <2>1. \A v \in Workers : held'[v].attempt < MaxAttempts
    BY <1>1, <1>3, QueueAssumption DEF IInv, AttemptsAreLimited, NoEntry
  <2>2. \A f \in queue' : f.attempt < MaxAttempts
    BY <1>1, <1>4 DEF IInv, AttemptsAreLimited, Kept, Filed
  <2>3. QED
    BY <2>1, <2>2 DEF AttemptsAreLimited
<1>9. \A f, g \in queue' : f.task = g.task => f = g
  BY <1>1, <1>4 DEF IInv, OnePlace, Kept, Filed
<1>10. \A v, u \in Workers : v # u /\ held'[v] # NoEntry => held'[v].task # held'[u].task
  <2> SUFFICES ASSUME NEW v \in Workers, NEW u \in Workers, v # u, held'[v] # NoEntry
               PROVE  held'[v].task # held'[u].task
    OBVIOUS
  <2>1. CASE v # w /\ u # w
    BY <2>1, <1>3 DEF IInv, OnePlace
  <2>2. CASE v = w
    BY <2>2, <1>1, <1>3
  <2>3. CASE u = w
    <3>1. held'[v] = held[v] /\ held[v].task # NoTask
      BY <2>3, <1>3, Places
    <3>2. QED
      BY <2>3, <3>1, <1>1, <1>3 DEF NoEntry
  <2>4. QED
    BY <2>1, <2>2, <2>3
<1>11. processing' = {held'[v].task : v \in {u \in Workers : held'[u] # NoEntry}}
  <2>1. ASSUME NEW v \in Workers, held'[v] # NoEntry
        PROVE  held'[v].task \in processing'
    <3>1. CASE v = w
      BY <3>1, <2>1, <1>2, <1>3 DEF Kept, Filed
    <3>2. CASE v # w
      BY <3>2, <2>1, <1>1, <1>3, Places DEF Kept, Filed
    <3>3. QED
      BY <3>1, <3>2
  <2>2. ASSUME NEW t \in processing'
        PROVE  \E v \in Workers : held'[v] # NoEntry /\ held'[v].task = t
    <3>1. CASE t = e.task
      <4>1. held'[w] = e /\ e # NoEntry
        BY <3>1, <2>2, <1>1, <1>2 DEF Kept, Filed, NoEntry
      <4>2. QED
        BY <4>1, <3>1
    <3>2. CASE t # e.task
      <4>1. t \in processing
        BY <3>2, <2>2 DEF Kept, Filed
      <4>2. PICK v \in Workers \ {w} : held[v] # NoEntry /\ held[v].task = t
        BY <4>1, <3>2, <1>1
      <4>3. QED
        BY <4>2, <1>3
    <3>3. QED
      BY <3>1, <3>2
  <2>3. QED
    BY <2>1, <2>2
<1>12. \A t \in Tasks :
         /\ t \in QueuedTasks' => t \notin processing' \cup completed' \cup failed'
         /\ t \in processing' => t \notin completed' \cup failed'
         /\ t \notin completed' \cap failed'
  <2> SUFFICES ASSUME NEW t \in Tasks
               PROVE  /\ t \in QueuedTasks' => t \notin processing' \cup completed' \cup failed'
                      /\ t \in processing' => t \notin completed' \cup failed'
                      /\ t \notin completed' \cap failed'
    OBVIOUS
  <2>1. CASE t # e.task
    <3>1. /\ t \in QueuedTasks' => t \in QueuedTasks
          /\ t \in processing' => t \in processing
          /\ t \in completed' => t \in completed
          /\ t \in failed' => t \in failed
      BY <2>1, <1>6 DEF Kept, Filed
    <3>2. QED
      BY <3>1 DEF IInv, OnePlace
  <2>2. CASE t = e.task
    <3>1. queue' = rest => t \notin QueuedTasks'
      BY <2>2, <1>1 DEF QueuedTasks
    <3>2. CASE Kept(w, e, rest)
      BY <3>1, <3>2, <2>2, <1>1 DEF Kept
    <3>3. CASE Filed(w, e, rest)
      BY <3>1, <3>3, <2>2, <1>1 DEF Filed
    <3>4. QED
      BY <3>2, <3>3
  <2>3. QED
    BY <2>1, <2>2
<1>13. \A t \in accepted' : taskStatus'[t] # "cancelled" /\ requeues'[t] = 0
         => t \in QueuedTasks' \cup processing' \cup completed' \cup failed'
  <2> SUFFICES ASSUME NEW t \in accepted, taskStatus'[t] # "cancelled", requeues[t] = 0
               PROVE  t \in QueuedTasks' \cup processing' \cup completed' \cup failed'
    BY DEF clientVars
  <2>1. CASE t = e.task
    <3>1. queue' = rest \cup {Requeued(e)} => t \in QueuedTasks'
      BY <2>1, <1>4 DEF QueuedTasks
    <3>2. QED
      BY <2>1, <3>1 DEF Kept, Filed
  <2>2. CASE t # e.task
    <3>1. t \in Tasks
      BY DEF IInv, TypeOK
    <3>2. t \in QueuedTasks \cup processing \cup completed \cup failed
      BY <2>2, <3>1 DEF IInv, OnePlace
    <3>3. QED
      BY <2>2, <3>2, <1>6 DEF Kept, Filed
  <2>3. QED
    BY <2>1, <2>2
<1>14. OnePlace'
  BY <1>9, <1>10, <1>11, <1>12, <1>13 DEF OnePlace
<1>15. QED
  BY <1>3, <1>5, <1>7, <1>8, <1>14

(* What the verdict on a settled table tells the queue.                    *)
LEMMA VerdictTells ==
    ASSUME NEW t \in Tasks, NEW e, NEW table \in Table(t), \A i \in StepIds(t) : Settled(table[i])
    PROVE  /\ CountsAsDone(Verdict(table, AfterFailure(e))) /\ StepsOf[t] > 0
                => \E i \in StepIds(t) : table[i].status = "completed"
           /\ ~ CountsAsDone(Verdict(table, AfterFailure(e)))
                => \A i \in StepIds(t) : table[i].status # "completed"
           /\ Verdict(table, AfterFailure(e)) # "cancelled"
<1>1. DOMAIN table = StepIds(t) /\ StepIds(t) = 1..StepsOf[t] /\ StepsOf[t] \in Nat
  BY StepNumbers DEF Table
<1>2. AfterFailure(e) \in {"retry_scheduled", "failed"}
  BY DEF AfterFailure
<1>3. CASE \A i \in StepIds(t) : table[i].status # "failed"
  <2>1. Verdict(table, AfterFailure(e)) = "completed"
    BY <1>1, <1>3 DEF Verdict
  <2>2. StepsOf[t] > 0 => 1 \in StepIds(t)
    BY <1>1
  <2>3. QED
    BY <2>1, <2>2, <1>3 DEF Settled, CountsAsDone
<1>4. CASE ~ \A i \in StepIds(t) : table[i].status # "failed"
  <2>1. CASE \E i \in StepIds(t) : table[i].status = "completed"
    BY <2>1, <1>1, <1>4 DEF Verdict, CountsAsDone
  <2>2. CASE ~ \E i \in StepIds(t) : table[i].status = "completed"
    <3>1. Verdict(table, AfterFailure(e)) = AfterFailure(e)
      BY <2>2, <1>1, <1>4 DEF Verdict
    <3>2. QED
      BY <3>1, <2>2, <1>2 DEF CountsAsDone
  <2>3. QED
    BY <2>1, <2>2
<1>5. QED
  BY <1>3, <1>4

(* Nothing is done in a task none of whose steps took effect.              *)
LEMMA FailedAgain ==
    ASSUME TypeOK, NEW t \in Tasks, NEW a \in Nat, a < MaxAttempts, NEW table \in Table(t),
           \A i \in StepIds(t) : table[i].status # "completed" /\ table[i].retries <= Tries(t, a) + 1
    PROVE  StepsAt(table, 0, Tries(t, a + 1))
<1>1. Tries(t, a) + 1 = Tries(t, a + 1)
  BY TriesGrow
<1>2. DOMAIN table = StepIds(t) /\ StepIds(t) = 1..StepsOf[t] /\ StepsOf[t] \in Nat
  BY StepNumbers DEF Table
<1>3. QED
  BY <1>1, <1>2 DEF StepsAt

(* A worker moves on in the task of its entry, and follows the outcome.    *)
LEMMA WorkerStep ==
    ASSUME IInv, NEW w \in Workers, NEW e, NEW rest, Has(w, e, rest),
           Advanced(w, e.task, AfterFailure(e), Tries(e.task, e.attempt)),
           Follow(w, e, rest),
           e.task \in submitted, submitted' = submitted,
           UNCHANGED <<clientVars, poolVars>>
    PROVE  IInv'
<1> DEFINE t == e.task
           a == e.attempt
<1>0. w \in Runners /\ w \notin Callers
  BY QueueAssumption
<1>1. /\ e \in Entry /\ a \in Nat /\ a < MaxAttempts
      /\ t \in Tasks /\ t # NoTask /\ t \in accepted /\ t \notin direct
      /\ t \notin completed \cup failed
      /\ rest \subseteq queue
      /\ \A f \in rest : f.task # t
      /\ \A y \in Runners \ {w} : exec[y].task # t
  BY HasAlone
<1>2. TypeOK /\ submitted' \subseteq Tasks /\ submitted \subseteq submitted'
  BY DEF IInv, TypeOK, EngineTypeOK
<1>3. requeues' = requeues /\ accepted' = accepted /\ direct' = direct
  BY DEF clientVars
<1>4. /\ EngineTypeOK' /\ ExecutedAreSubmitted' /\ OneRunner'
      /\ exec'[w].task \in {t, NoTask}
      /\ \A y \in Runners \ {w} : exec'[y] = exec[y]
      /\ \A u \in Tasks \ {t} : steps'[u] = steps[u] /\ taskStatus'[u] = taskStatus[u]
  BY <1>0, <1>1, <1>2, AdvanceEngine
<1>5. IF exec'[w] = Idle THEN Filed(w, e, rest) ELSE Kept(w, e, rest)
  BY FollowCases
<1>6. /\ queue' \subseteq Entry
      /\ held' \in [Workers -> Entry \cup {NoEntry}]
      /\ AcceptedOrDirect' /\ AttemptsAreLimited' /\ OnePlace'
  BY <1>4, <1>5, StoresStayDisjoint
<1>7. TypeOK'
  <2>1. processing' \cup completed' \cup failed' \subseteq Tasks
    BY <1>1, <1>2, <1>5 DEF Kept, Filed, TypeOK
  <2>2. QED
    BY <2>1, <1>2, <1>4, <1>6 DEF TypeOK, clientVars, poolVars
<1>8. \A v \in Workers \ {w} : held'[v] = held[v]
  BY <1>2, <1>5 DEF Kept, Filed, TypeOK
<1>9. held'[w] = IF exec'[w] = Idle THEN NoEntry ELSE e
  BY <1>2, <1>5 DEF Kept, Filed, TypeOK
<1>10. exec'[w] # Idle => /\ exec'[w].task = t
                          /\ StepsAt(steps'[t], exec'[w].at, Tries(t, a))
  BY DEF Advanced
<1>11. exec'[w] = Idle => /\ taskStatus'[t] = Verdict(steps'[t], AfterFailure(e))
                          /\ \A i \in StepIds(t) : /\ Settled(steps'[t][i])
                                                   /\ steps'[t][i].retries <= Tries(t, a) + 1
  BY <1>1 DEF Advanced, Idle
<1>12. steps'[t] \in Table(t)
  BY DEF Advanced
<1>13. WorkersExecuteWhatTheyHold'
  <2>1. Idle.task = NoTask /\ NoEntry.task = NoTask
    BY DEF Idle, NoEntry
  <2>2. exec'[w].task = held'[w].task
    BY <2>1, <1>9, <1>10
  <2>3. \A v \in Workers \ {w} : exec'[v].task = held'[v].task
    BY <1>4, <1>8, QueueAssumption DEF IInv, WorkersExecuteWhatTheyHold
  <2>4. QED
    BY <2>2, <2>3 DEF WorkersExecuteWhatTheyHold
<1>14. CallersExecuteTheirs'
  <2>1. \A y \in Callers : exec'[y] = exec[y]
    BY <1>0, <1>4, QueueAssumption
  <2>2. QED
    BY <2>1, <1>3 DEF IInv, CallersExecuteTheirs, Busy
<1>15. RunnersKnowTheirSteps'
  <2> SUFFICES ASSUME NEW y \in Runners, exec'[y].task # NoTask
               PROVE  StepsAt(steps'[exec'[y].task], exec'[y].at,
                              MaxRetries - 1 + Forgiven(requeues'[exec'[y].task])
                              + (IF y \in Workers THEN held'[y].attempt ELSE 0))
    BY DEF RunnersKnowTheirSteps, Busy, Tries, Attempt
  <2>1. CASE y = w
    <3>1. exec'[y] # Idle
      BY <2>1 DEF Idle
    <3>2. QED
      BY <2>1, <3>1, <1>3, <1>9, <1>10 DEF Tries
  <2>2. CASE y # w
    <3>1. exec'[y] = exec[y] /\ exec[y].task # NoTask /\ exec[y].task \in Tasks \ {t}
      BY <2>2, <1>1, <1>2, <1>4 DEF TypeOK, EngineTypeOK
    <3>2. StepsAt(steps[exec[y].task], exec[y].at, Tries(exec[y].task, Attempt(y)))
      BY <3>1 DEF IInv, RunnersKnowTheirSteps, Busy
    <3>3. Attempt(y) = IF y \in Workers THEN held'[y].attempt ELSE 0
      BY <2>2, <1>8 DEF Attempt
    <3>4. steps'[exec'[y].task] = steps[exec[y].task]
      BY <3>1, <1>4
    <3>5. QED
      BY <3>1, <3>2, <3>3, <3>4, <1>3 DEF Tries
  <2>3. QED
    BY <2>1, <2>2
<1>16. WaitingTasksAreUndone'
  <2>1. \A u \in Tasks \ {t}, m \in Nat : NothingDone(u, Tries(u, m)) =>
          StepsAt(steps'[u], 0, MaxRetries - 1 + Forgiven(requeues'[u]) + m)
    BY <1>3, <1>4 DEF NothingDone, Tries
  <2>2. \A f \in rest : f.task \in Tasks \ {t} /\ f.attempt \in Nat /\ f \in queue
    BY <1>1, <1>2 DEF TypeOK, Entry
  <2>3. \A f \in rest : StepsAt(steps'[f.task], 0, MaxRetries - 1 + Forgiven(requeues'[f.task]) + f.attempt)
    BY <2>1, <2>2 DEF IInv, WaitingTasksAreUndone
  <2>4. \A u \in failed : StepsAt(steps'[u], 0, MaxRetries - 1 + Forgiven(requeues'[u]) + MaxAttempts)
    <3>1. MaxAttempts \in Nat /\ \A u \in failed : u \in Tasks \ {t}
      BY <1>1, <1>2, QueueAssumption DEF TypeOK
    <3>2. QED
      BY <3>1, <2>1 DEF IInv, WaitingTasksAreUndone
  <2>5. \A u \in Tasks \ (accepted' \cup direct') :
           StepsAt(steps'[u], 0, MaxRetries - 1 + Forgiven(requeues'[u]) + 0)
    <3>1. \A u \in Tasks \ (accepted' \cup direct') : u \in Tasks \ {t} /\ u \in Tasks \ (accepted \cup direct)
      BY <1>1, <1>3
    <3>2. QED
      BY <3>1, <2>1 DEF IInv, WaitingTasksAreUndone
  <2>6. ASSUME exec'[w] = Idle, ~ CountsAsDone(taskStatus'[t])
        PROVE  StepsAt(steps'[t], 0, Tries(t, a + 1))
    <3>1. \A i \in StepIds(t) : steps'[t][i].status # "completed"
      BY <2>6, <1>1, <1>11, <1>12, VerdictTells
    <3> DEFINE table == steps'[t]
    <3>2. table \in Table(t) /\ \A i \in StepIds(t) : table[i].status # "completed" /\ table[i].retries <= Tries(t, a) + 1
      BY <3>1, <2>6, <1>11, <1>12
    <3> HIDE DEF table, t, a
    <3>3. StepsAt(table, 0, Tries(t, a + 1))
      BY <3>2, <1>1, <1>2, FailedAgain
    <3>4. QED
      BY <3>3 DEF table
  <2>7. \A f \in queue' : StepsAt(steps'[f.task], 0, MaxRetries - 1 + Forgiven(requeues'[f.task]) + f.attempt)
    <3>1. CASE queue' = rest
      BY <3>1, <2>3
    <3>2. CASE exec'[w] = Idle /\ ~ CountsAsDone(taskStatus'[t]) /\ queue' = rest \cup {Requeued(e)}
      <4>1. Requeued(e).task = t /\ Requeued(e).attempt = a + 1
        BY DEF Requeued
      <4>2. StepsAt(steps'[t], 0, MaxRetries - 1 + Forgiven(requeues'[t]) + (a + 1))
        BY <3>2, <2>6, <1>3 DEF Tries
      <4>3. QED
        BY <3>2, <4>1, <4>2, <2>3
    <3>3. QED
      BY <3>1, <3>2, <1>5 DEF Kept, Filed
  <2>8. \A u \in failed' : StepsAt(steps'[u], 0, MaxRetries - 1 + Forgiven(requeues'[u]) + MaxAttempts)
    <3>1. CASE failed' = failed
      BY <3>1, <2>4
    <3>2. CASE exec'[w] = Idle /\ ~ CountsAsDone(taskStatus'[t]) /\ ~ (a + 1 < MaxAttempts) /\ failed' = failed \cup {t}
      <4>1. a + 1 = MaxAttempts
        BY <3>2, <1>1, QueueAssumption
      <4>2. StepsAt(steps'[t], 0, MaxRetries - 1 + Forgiven(requeues'[t]) + MaxAttempts)
        BY <3>2, <4>1, <2>6, <1>3 DEF Tries
      <4>3. QED
        BY <3>2, <4>2, <2>4
    <3>3. QED
      BY <3>1, <3>2, <1>5 DEF Kept, Filed
  <2>9. QED
    BY <2>5, <2>7, <2>8 DEF WaitingTasksAreUndone, NothingDone, Tries
<1>17. CompletedAreSettled'
  <2> SUFFICES ASSUME NEW u \in completed'
               PROVE  /\ \A i \in StepIds(u) : Settled(steps'[u][i])
                      /\ StepsOf[u] > 0 => \E i \in StepIds(u) : steps'[u][i].status = "completed"
    BY DEF CompletedAreSettled
  <2>1. CASE u \in completed
    <3>1. u \in Tasks \ {t}
      BY <2>1, <1>1, <1>2 DEF TypeOK
    <3>2. QED
      BY <2>1, <3>1, <1>4 DEF IInv, CompletedAreSettled
  <2>2. CASE u \notin completed
    <3>1. u = t /\ exec'[w] = Idle /\ CountsAsDone(taskStatus'[t])
      BY <2>2, <1>5 DEF Kept, Filed
    <3>2. QED
      BY <3>1, <1>1, <1>11, <1>12, VerdictTells
  <2>3. QED
    BY <2>1, <2>2
<1>18. TriesBounded'
  BY <1>0, <1>1, <1>3, <1>4, AdvanceTries
<1>19. QED
  BY <1>4, <1>6, <1>7, <1>13, <1>14, <1>15, <1>16, <1>17, <1>18 DEF IInv

-----------------------------------------------------------------------------
(* The invariant holds at first, and every step keeps it.                  *)

(* Everything is empty, no step was tried.                                 *)
LEMMA InitInv == Init => IInv
<1> SUFFICES ASSUME Init PROVE IInv
  OBVIOUS
<1>1. /\ queue = {} /\ processing = {} /\ completed = {} /\ failed = {} /\ submitted = {}
      /\ accepted = {} /\ direct = {}
      /\ \A w \in Workers : held[w] = NoEntry
      /\ \A x \in Runners : exec[x] = Idle
  BY DEF Init, EngineInit
<1>2. \A t \in Tasks : \A i \in StepIds(t) : steps[t][i] = [status |-> "pending", retries |-> 0]
  BY DEF Init, EngineInit, Fresh
<1>3. QueuedTasks = {}
  BY <1>1 DEF QueuedTasks
<1>4. Idle.task = NoTask /\ NoEntry.task = NoTask /\ NoEntry.attempt = 0 /\ Idle \in Execution
  BY DEF Idle, NoEntry, Execution
<1>5. TypeOK
  <2>1. exec \in [Runners -> Execution]
    BY <1>4 DEF Init, EngineInit
  <2>2. DOMAIN steps = Tasks /\ taskStatus \in [Tasks -> Status]
    BY DEF Init, EngineInit, Status
  <2>3. \A t \in Tasks : steps[t] \in [StepIds(t) -> [status : Status, retries : Nat]]
    BY DEF Init, EngineInit, Fresh, Status
  <2>4. EngineTypeOK
    BY <1>1, <1>4, <2>1, <2>2, <2>3 DEF EngineTypeOK, Execution
  <2>5. held \in [Workers -> Entry \cup {NoEntry}] /\ requeues \in [Tasks -> Nat]
    BY DEF Init
  <2>6. QED
    BY <1>1, <2>4, <2>5 DEF TypeOK, Init
<1>6. \A x \in Runners : ~ Busy(x)
  BY <1>1, <1>4 DEF Busy
<1>7. WorkersExecuteWhatTheyHold
  BY <1>1, <1>4, QueueAssumption DEF WorkersExecuteWhatTheyHold
<1>8. CallersExecuteTheirs /\ ExecutedAreSubmitted /\ OneRunner /\ RunnersKnowTheirSteps
  <2>1. direct \subseteq submitted
    BY <1>1
  <2>2. QED
    BY <1>6, <2>1, QueueAssumption
       DEF CallersExecuteTheirs, ExecutedAreSubmitted, OneRunner, RunnersKnowTheirSteps
<1>9. AcceptedOrDirect /\ CompletedAreSettled
  BY <1>1, <1>3 DEF AcceptedOrDirect, CompletedAreSettled
<1>10. OnePlace
  BY <1>1, <1>3 DEF OnePlace
<1>11. \A t \in Tasks : NothingDone(t, Tries(t, 0))
  <2> SUFFICES ASSUME NEW t \in Tasks PROVE NothingDone(t, Tries(t, 0))
    OBVIOUS
  <2>1. 0 <= Tries(t, 0) /\ Tries(t, 0) \in Nat
    BY <1>5, TriesTypes
  <2>2. DOMAIN steps[t] = StepIds(t) /\ \A i \in StepIds(t) : i \in 1..StepsOf[t]
    BY <1>5, StepNumbers DEF TypeOK, EngineTypeOK
  <2>3. \A i \in StepIds(t) : steps[t][i].status # "completed" /\ steps[t][i].retries = 0
    BY <1>2
  <2>4. StepsOf[t] \in Nat
    BY StepNumbers
  <2>5. QED
    BY <2>1, <2>2, <2>3, <2>4 DEF NothingDone, StepsAt
<1>12. WaitingTasksAreUndone
  BY <1>1, <1>11 DEF WaitingTasksAreUndone
<1>13. AttemptsAreLimited
  BY <1>1, <1>4, QueueAssumption DEF AttemptsAreLimited
<1>14. TriesBounded
  <2> SUFFICES ASSUME NEW t \in Tasks, NEW i \in StepIds(t)
               PROVE  steps[t][i].retries <= MaxRetries - 1 + MaxAttempts * (1 + requeues[t])
    BY DEF TriesBounded
  <2>1. 0 \in Nat /\ 0 < MaxAttempts
    BY QueueAssumption
  <2>2. /\ Tries(t, 0) \in Nat /\ Tries(t, 0) + 1 <= Tries(t, MaxAttempts)
        /\ Tries(t, MaxAttempts) = MaxRetries - 1 + MaxAttempts * (1 + requeues[t])
    BY <1>5, <2>1, TriesGrow
  <2>3. steps[t][i].retries = 0
    BY <1>2
  <2>4. Tries(t, MaxAttempts) \in Nat
    BY <1>5, QueueAssumption, TriesTypes
  <2>5. QED
    BY <2>2, <2>3, <2>4
<1>15. QED
  BY <1>5, <1>7, <1>8, <1>9, <1>10, <1>12, <1>13, <1>14 DEF IInv

(* submit_task, start, stop and the end of a worker touch no task.         *)
LEMMA PoolSteps ==
    ASSUME IInv,
           (\E t \in Tasks : Submit(t)) \/ Start \/ Stop \/ (\E w \in Workers : WorkerEnds(w))
    PROVE  IInv'
<1>1. /\ UNCHANGED <<taskStatus, steps, exec, storeVars, clientVars>>
      /\ submitted \subseteq submitted' /\ submitted' \subseteq Tasks
      /\ running' \in BOOLEAN /\ alive' \subseteq Workers /\ starts' \in Nat
  <2>1. /\ submitted \subseteq Tasks /\ running \in BOOLEAN
        /\ alive \subseteq Workers /\ starts \in Nat
    BY DEF IInv, TypeOK, EngineTypeOK
  <2>2. ASSUME NEW t \in Tasks, Submit(t)
        PROVE  <1>1!:
    BY <2>1, <2>2 DEF Submit, SubmitTask, poolVars
  <2>3. ASSUME Start
        PROVE  <1>1!:
    BY <2>1, <2>3 DEF Start, engineVars
  <2>4. ASSUME Stop
        PROVE  <1>1!:
    BY <2>1, <2>4 DEF Stop, engineVars
  <2>5. ASSUME NEW w \in Workers, WorkerEnds(w)
        PROVE  <1>1!:
    BY <2>1, <2>5 DEF WorkerEnds, engineVars
  <2>6. QED
    BY <2>2, <2>3, <2>4, <2>5
<1> USE <1>1 DEF IInv, storeVars, clientVars
<1>2. TypeOK'
  BY DEF TypeOK, EngineTypeOK
<1>3. WorkersExecuteWhatTheyHold' /\ CallersExecuteTheirs' /\ ExecutedAreSubmitted' /\ OneRunner'
  BY DEF WorkersExecuteWhatTheyHold, CallersExecuteTheirs, ExecutedAreSubmitted, OneRunner, Busy
<1>4. AcceptedOrDirect' /\ OnePlace' /\ AttemptsAreLimited'
  BY DEF AcceptedOrDirect, OnePlace, AttemptsAreLimited, QueuedTasks
<1>5. RunnersKnowTheirSteps' /\ WaitingTasksAreUndone'
  BY DEF RunnersKnowTheirSteps, WaitingTasksAreUndone, Busy, NothingDone, Tries, Attempt
<1>6. CompletedAreSettled' /\ TriesBounded'
  BY DEF CompletedAreSettled, TriesBounded
<1>7. QED
  BY <1>2, <1>3, <1>4, <1>5, <1>6

(* enqueue: nothing was done of a task that is new to the queue.           *)
LEMMA EnqueueStep ==
    ASSUME IInv, NEW t \in Tasks, NEW due \in BOOLEAN, Enqueue(t, due)
    PROVE  IInv'
<1> DEFINE new == [task |-> t, due |-> due, attempt |-> 0]
<1>1. /\ queue' = queue \cup {new} /\ accepted' = accepted \cup {t}
      /\ UNCHANGED <<engineVars, processing, held, completed, failed, direct, requeues, poolVars>>
      /\ t \notin accepted /\ t \notin direct
  BY DEF Enqueue
<1>2. new \in Entry /\ new.task = t /\ new.attempt = 0
  BY DEF Entry
<1> HIDE DEF new
<1>3. t \notin QueuedTasks \cup processing \cup completed \cup failed
  BY <1>1 DEF IInv, AcceptedOrDirect
<1>4. QueuedTasks' = QueuedTasks \cup {t}
  BY <1>1, <1>2 DEF QueuedTasks
<1>5. TypeOK'
  BY <1>1, <1>2 DEF IInv, TypeOK, EngineTypeOK, engineVars, poolVars
<1>6. WorkersExecuteWhatTheyHold' /\ CallersExecuteTheirs' /\ ExecutedAreSubmitted' /\ OneRunner'
  BY <1>1 DEF IInv, WorkersExecuteWhatTheyHold, CallersExecuteTheirs, ExecutedAreSubmitted,
              OneRunner, Busy, engineVars
<1>7. AcceptedOrDirect'
  BY <1>1, <1>4 DEF IInv, AcceptedOrDirect
<1>8. OnePlace'
  <2>1. \A e, f \in queue' : e.task = f.task => e = f
    BY <1>1, <1>2, <1>3 DEF IInv, OnePlace, QueuedTasks
  <2>2. \A u \in accepted' : taskStatus'[u] # "cancelled" /\ requeues'[u] = 0
          => u \in QueuedTasks' \cup processing' \cup completed' \cup failed'
    BY <1>1, <1>4 DEF IInv, OnePlace, engineVars
  <2>3. QED
    BY <1>1, <1>3, <1>4, <2>1, <2>2 DEF IInv, OnePlace
<1>9. RunnersKnowTheirSteps'
  BY <1>1 DEF IInv, RunnersKnowTheirSteps, Busy, Tries, Attempt, engineVars
<1>10. WaitingTasksAreUndone'
  <2>1. NothingDone(t, Tries(t, 0))
    BY <1>1 DEF IInv, WaitingTasksAreUndone
  <2>2. \A f \in queue' : NothingDone(f.task, Tries(f.task, f.attempt))
    BY <1>1, <1>2, <2>1 DEF IInv, WaitingTasksAreUndone
  <2>3. QED
    BY <1>1, <2>2 DEF IInv, WaitingTasksAreUndone, NothingDone, Tries, engineVars
<1>11. CompletedAreSettled' /\ TriesBounded'
  BY <1>1 DEF IInv, CompletedAreSettled, TriesBounded, engineVars
<1>12. AttemptsAreLimited'
  BY <1>1, <1>2, QueueAssumption DEF IInv, AttemptsAreLimited
<1>13. QED
  BY <1>5, <1>6, <1>7, <1>8, <1>9, <1>10, <1>11, <1>12 DEF IInv

(* An entry leaves the heap, or its time comes.                            *)
LEMMA HeapSteps ==
    ASSUME IInv, NEW e \in queue, CancelQueued(e) \/ BecomesDue(e)
    PROVE  IInv'
<1> DEFINE later == [e EXCEPT !.due = TRUE]
<1>1. e \in Entry /\ e.task \in Tasks /\ e.task \in accepted /\ e.task \in QueuedTasks
  BY DEF IInv, TypeOK, Entry, AcceptedOrDirect, QueuedTasks
<1>2. later \in Entry /\ later.task = e.task /\ later.attempt = e.attempt
  BY <1>1 DEF Entry
<1>3. /\ UNCHANGED <<submitted, steps, exec, processing, held, completed, failed, clientVars, poolVars>>
      /\ \/ /\ queue' = queue \ {e}
            /\ taskStatus' = [taskStatus EXCEPT ![e.task] = "cancelled"]
         \/ queue' = (queue \ {e}) \cup {later} /\ taskStatus' = taskStatus
  BY DEF CancelQueued, BecomesDue, engineVars
<1> HIDE DEF later
<1>4. QueuedTasks' \subseteq QueuedTasks /\ QueuedTasks \ {e.task} \subseteq QueuedTasks'
  <2>1. QueuedTasks' \subseteq QueuedTasks
    BY <1>1, <1>2, <1>3 DEF QueuedTasks
  <2>2. QueuedTasks \ {e.task} \subseteq QueuedTasks'
    BY <1>3 DEF QueuedTasks
  <2>3. QED
    BY <2>1, <2>2
<1>5. TypeOK'
  <2>1. taskStatus' \in [Tasks -> Status]
    BY <1>3 DEF IInv, TypeOK, EngineTypeOK, Status
  <2>2. queue' \subseteq Entry
    BY <1>2, <1>3 DEF IInv, TypeOK
  <2>3. QED
    BY <1>3, <2>1, <2>2 DEF IInv, TypeOK, EngineTypeOK, clientVars, poolVars
<1>6. WorkersExecuteWhatTheyHold' /\ CallersExecuteTheirs' /\ ExecutedAreSubmitted' /\ OneRunner'
  BY <1>3 DEF IInv, WorkersExecuteWhatTheyHold, CallersExecuteTheirs, ExecutedAreSubmitted,
              OneRunner, Busy, clientVars
<1>7. AcceptedOrDirect'
  BY <1>3, <1>4 DEF IInv, AcceptedOrDirect, clientVars
<1>8. OnePlace'
  <2>1. \A f, g \in queue' : f.task = g.task => f = g
    BY <1>2, <1>3 DEF IInv, OnePlace
  <2>2. ASSUME NEW u \in accepted, taskStatus'[u] # "cancelled", requeues[u] = 0
        PROVE  u \in QueuedTasks' \cup processing \cup completed \cup failed
    <3>1. u \in Tasks
      BY DEF IInv, TypeOK
    <3>2. CASE u = e.task
      <4>1. queue' = (queue \ {e}) \cup {later}
        BY <1>3, <2>2, <3>1, <3>2 DEF IInv, TypeOK, EngineTypeOK
      <4>2. QED
        BY <1>2, <3>2, <4>1 DEF QueuedTasks
    <3>3. CASE u # e.task
      <4>1. taskStatus'[u] = taskStatus[u]
        BY <1>3, <3>1, <3>3 DEF IInv, TypeOK, EngineTypeOK
      <4>2. QED
        BY <1>4, <2>2, <3>3, <4>1 DEF IInv, OnePlace
    <3>4. QED
      BY <3>2, <3>3
  <2>3. QED
    BY <1>3, <1>4, <2>1, <2>2 DEF IInv, OnePlace, clientVars
<1>9. RunnersKnowTheirSteps'
  BY <1>3 DEF IInv, RunnersKnowTheirSteps, Busy, Tries, Attempt, clientVars
<1>10. WaitingTasksAreUndone'
  <2>1. \A f \in queue' : NothingDone(f.task, Tries(f.task, f.attempt))
    BY <1>2, <1>3 DEF IInv, WaitingTasksAreUndone
  <2>2. QED
    BY <1>3, <2>1 DEF IInv, WaitingTasksAreUndone, NothingDone, Tries, clientVars
<1>11. CompletedAreSettled' /\ TriesBounded'
  BY <1>3 DEF IInv, CompletedAreSettled, TriesBounded, clientVars
<1>12. AttemptsAreLimited'
  BY <1>2, <1>3 DEF IInv, AttemptsAreLimited
<1>13. QED
  BY <1>5, <1>6, <1>7, <1>8, <1>9, <1>10, <1>11, <1>12 DEF IInv

(* retry_failed: the task gets as many attempts again, or a full queue     *)
(* drops it.                                                               *)
LEMMA RetryStep ==
    ASSUME IInv, NEW t \in Tasks, RetryFailed(t)
    PROVE  IInv'
<1> DEFINE new == [task |-> t, due |-> TRUE, attempt |-> 0]
<1>1. /\ t \in failed /\ failed' = failed \ {t}
      /\ queue' = queue \cup {new} \/ queue' = queue
      /\ UNCHANGED <<submitted, steps, exec, processing, held, completed, accepted, direct, poolVars>>
      /\ taskStatus' = [taskStatus EXCEPT ![t] = "pending"]
      /\ requeues' = [requeues EXCEPT ![t] = @ + 1]
  BY DEF RetryFailed
<1>2. new \in Entry /\ new.task = t /\ new.attempt = 0
  BY DEF Entry
<1> HIDE DEF new
<1>3. requeues \in [Tasks -> Nat] /\ taskStatus \in [Tasks -> Status]
  BY DEF IInv, TypeOK, EngineTypeOK
<1>4. /\ requeues'[t] = requeues[t] + 1 /\ requeues'[t] # 0
      /\ \A u \in Tasks \ {t} : requeues'[u] = requeues[u] /\ taskStatus'[u] = taskStatus[u]
  BY <1>1, <1>3
<1>5. t \notin QueuedTasks \cup processing \cup completed /\ t \in accepted /\ t \notin direct
  BY <1>1 DEF IInv, OnePlace, AcceptedOrDirect
<1>6. QueuedTasks \subseteq QueuedTasks' /\ QueuedTasks' \subseteq QueuedTasks \cup {t}
  BY <1>1, <1>2 DEF QueuedTasks
<1>7. \A x \in Runners : exec[x].task # t
  BY <1>5, Places, EngineAssumption
<1>8. TypeOK'
  <2>1. requeues' \in [Tasks -> Nat]
    BY <1>1, <1>3
  <2>2. taskStatus' \in [Tasks -> Status]
    BY <1>1, <1>3 DEF Status
  <2>3. queue' \subseteq Entry
    BY <1>1, <1>2 DEF IInv, TypeOK
  <2>4. QED
    BY <1>1, <2>1, <2>2, <2>3 DEF IInv, TypeOK, EngineTypeOK, poolVars
<1>9. WorkersExecuteWhatTheyHold' /\ CallersExecuteTheirs' /\ ExecutedAreSubmitted' /\ OneRunner'
  BY <1>1 DEF IInv, WorkersExecuteWhatTheyHold, CallersExecuteTheirs, ExecutedAreSubmitted,
              OneRunner, Busy
<1>10. AcceptedOrDirect'
  BY <1>1, <1>5, <1>6 DEF IInv, AcceptedOrDirect
<1>11. OnePlace'
  <2>1. \A f, g \in queue' : f.task = g.task => f = g
    BY <1>1, <1>2, <1>5 DEF IInv, OnePlace, QueuedTasks
  <2>2. ASSUME NEW u \in accepted, taskStatus'[u] # "cancelled", requeues'[u] = 0
        PROVE  u \in QueuedTasks' \cup processing \cup completed \cup failed'
    <3>1. u \in Tasks \ {t}
      BY <2>2, <1>4 DEF IInv, TypeOK
    <3>2. u \in QueuedTasks \cup processing \cup completed \cup failed
      BY <2>2, <3>1, <1>4 DEF IInv, OnePlace
    <3>3. QED
      BY <3>1, <3>2, <1>1, <1>6
  <2>3. \A u \in Tasks :
          /\ u \in QueuedTasks' => u \notin processing \cup completed \cup failed'
          /\ u \in processing => u \notin completed \cup failed'
          /\ u \notin completed \cap failed'
    BY <1>1, <1>5, <1>6 DEF IInv, OnePlace
  <2>4. QED
    BY <1>1, <2>1, <2>2, <2>3 DEF IInv, OnePlace
<1>12. RunnersKnowTheirSteps'
  <2> SUFFICES ASSUME NEW y \in Runners, exec'[y].task # NoTask
               PROVE  StepsAt(steps'[exec'[y].task], exec'[y].at,
                              MaxRetries - 1 + Forgiven(requeues'[exec'[y].task])
                              + (IF y \in Workers THEN held'[y].attempt ELSE 0))
    BY DEF RunnersKnowTheirSteps, Busy, Tries, Attempt
  <2>1. exec'[y] = exec[y] /\ exec[y].task \in Tasks \ {t} /\ held' = held /\ steps' = steps
    BY <1>1, <1>7 DEF IInv, TypeOK, EngineTypeOK
  <2>2. requeues'[exec[y].task] = requeues[exec[y].task]
    BY <2>1, <1>4
  <2>3. QED
    BY <2>1, <2>2 DEF IInv, RunnersKnowTheirSteps, Busy, Tries, Attempt
<1>13. WaitingTasksAreUndone'
  <2>1. \A u \in Tasks \ {t}, m \in Nat : NothingDone(u, Tries(u, m)) =>
          StepsAt(steps'[u], 0, MaxRetries - 1 + Forgiven(requeues'[u]) + m)
    BY <1>1, <1>4 DEF NothingDone, Tries
  <2>2. StepsAt(steps'[t], 0, MaxRetries - 1 + Forgiven(requeues'[t]) + 0)
    <3>1. StepsAt(steps[t], 0, MaxRetries - 1 + Forgiven(requeues[t]) + MaxAttempts)
      BY <1>1 DEF IInv, WaitingTasksAreUndone, NothingDone, Tries
    <3>2. Forgiven(requeues'[t]) = Forgiven(requeues[t]) + MaxAttempts /\ Forgiven(requeues[t]) \in Nat
      BY <1>3, <1>4, ForgivenTypes
    <3>3. MaxRetries - 1 + Forgiven(requeues'[t]) + 0 = MaxRetries - 1 + Forgiven(requeues[t]) + MaxAttempts
      BY <3>2, EngineAssumption, QueueAssumption
    <3>4. QED
      BY <1>1, <3>1, <3>3
  <2>3. \A f \in queue : f.task \in Tasks \ {t} /\ f.attempt \in Nat
    BY <1>5 DEF IInv, TypeOK, Entry, QueuedTasks
  <2>4. \A f \in queue' : StepsAt(steps'[f.task], 0, MaxRetries - 1 + Forgiven(requeues'[f.task]) + f.attempt)
    BY <1>1, <1>2, <2>1, <2>2, <2>3 DEF IInv, WaitingTasksAreUndone
  <2>5. \A u \in failed' : StepsAt(steps'[u], 0, MaxRetries - 1 + Forgiven(requeues'[u]) + MaxAttempts)
    <3>1. \A u \in failed' : u \in Tasks \ {t} /\ u \in failed
      BY <1>1 DEF IInv, TypeOK
    <3>2. MaxAttempts \in Nat
      BY QueueAssumption
    <3>3. QED
      BY <3>1, <3>2, <2>1 DEF IInv, WaitingTasksAreUndone
  <2>6. \A u \in Tasks \ (accepted' \cup direct') :
          StepsAt(steps'[u], 0, MaxRetries - 1 + Forgiven(requeues'[u]) + 0)
    <3>1. \A u \in Tasks \ (accepted' \cup direct') : u \in Tasks \ {t} /\ u \in Tasks \ (accepted \cup direct)
      BY <1>1, <1>5
    <3>2. QED
      BY <3>1, <2>1 DEF IInv, WaitingTasksAreUndone
  <2>7. QED
    BY <2>4, <2>5, <2>6 DEF WaitingTasksAreUndone, NothingDone, Tries
<1>14. CompletedAreSettled'
  BY <1>1 DEF IInv, CompletedAreSettled
<1>15. AttemptsAreLimited'
  BY <1>1, <1>2, QueueAssumption DEF IInv, AttemptsAreLimited
<1>16. TriesBounded'
  <2> SUFFICES ASSUME NEW u \in Tasks, NEW i \in StepIds(u)
               PROVE  steps'[u][i].retries <= MaxRetries - 1 + MaxAttempts * (1 + requeues'[u])
    BY DEF TriesBounded
  <2>1. steps[u][i].retries <= MaxRetries - 1 + MaxAttempts * (1 + requeues[u])
    BY DEF IInv, TriesBounded
  <2>2. CASE u # t
    BY <2>1, <2>2, <1>1, <1>4
  <2>3. CASE u = t
    <3>1. TypeOK /\ 0 < MaxAttempts /\ 0 \in Nat /\ requeues[t] \in Nat
      BY <1>3, QueueAssumption DEF IInv
    <3>2. steps[t][i].retries \in Nat
      BY <2>3, <3>1 DEF TypeOK, EngineTypeOK
    <3>3. MaxAttempts * (1 + requeues[t]) = Forgiven(requeues[t] + 1)
      BY <3>1, QueueAssumption DEF Forgiven
    <3>4. MaxAttempts * (1 + requeues'[t]) = Forgiven(requeues[t] + 1 + 1)
      BY <3>1, <1>4, QueueAssumption DEF Forgiven
    <3>5. Forgiven(requeues[t] + 1) \in Nat /\ Forgiven(requeues[t] + 1 + 1) = Forgiven(requeues[t] + 1) + MaxAttempts
      BY <3>1, ForgivenTypes
    <3>6. MaxAttempts \in Nat /\ MaxRetries \in Nat
      BY QueueAssumption, EngineAssumption
    <3>7. QED
      BY <2>1, <2>3, <3>2, <3>3, <3>4, <3>5, <3>6, <1>1
  <2>4. QED
    BY <2>2, <2>3
<1>17. QED
  BY <1>8, <1>9, <1>10, <1>11, <1>12, <1>13, <1>14, <1>15, <1>16 DEF IInv

(* ProvisioningEngine.cancel_task marks pending steps, which are neither   *)
(* settled nor tried.                                                      *)
LEMMA CancelStep ==
    ASSUME IInv, NEW t \in Tasks, CancelSubmitted(t)
    PROVE  /\ IInv'
           /\ \A u \in Tasks : \A i \in StepIds(u) :
                steps[u][i].status = "completed" => steps'[u][i].status = "completed"
<1> DEFINE marked == [i \in StepIds(t) |-> IF steps[t][i].status = "pending"
                                           THEN [steps[t][i] EXCEPT !.status = "cancelled"]
                                           ELSE steps[t][i]]
<1>1. /\ UNCHANGED <<submitted, exec, storeVars, clientVars, poolVars>>
      /\ steps' = [steps EXCEPT ![t] = marked]
      /\ taskStatus' = [taskStatus EXCEPT ![t] = "cancelled"]
  BY DEF CancelSubmitted, CancelTask
<1>2. EngineTypeOK /\ DOMAIN steps = Tasks /\ steps[t] \in Table(t) /\ taskStatus \in [Tasks -> Status]
  BY DEF IInv, TypeOK, EngineTypeOK, Table, Record
<1>3. \A i \in StepIds(t) : marked[i] \in Record /\ marked[i].retries = steps[t][i].retries
  BY <1>2 DEF Table, Record, Status
<1>4. \A i \in StepIds(t) : /\ (Settled(marked[i]) <=> Settled(steps[t][i]))
                           /\ (marked[i].status = "completed" <=> steps[t][i].status = "completed")
  <2> SUFFICES ASSUME NEW i \in StepIds(t)
               PROVE  /\ (Settled(marked[i]) <=> Settled(steps[t][i]))
                      /\ (marked[i].status = "completed" <=> steps[t][i].status = "completed")
    OBVIOUS
  <2>1. steps[t][i] \in Record
    BY <1>2 DEF Table
  <2>2. CASE steps[t][i].status = "pending"
    <3>1. marked[i].status = "cancelled"
      BY <2>1, <2>2 DEF Record
    <3>2. QED
      BY <2>2, <3>1 DEF Settled
  <2>3. CASE steps[t][i].status # "pending"
    BY <2>3
  <2>4. QED
    BY <2>2, <2>3
<1>5. DOMAIN marked = StepIds(t) /\ DOMAIN steps[t] = StepIds(t) /\ marked \in Table(t)
  BY <1>2, <1>3 DEF Table
<1> HIDE DEF marked
<1>6. steps'[t] = marked /\ \A u \in Tasks \ {t} : steps'[u] = steps[u] /\ taskStatus'[u] = taskStatus[u]
  BY <1>1, <1>2
<1>7. \A at, n : StepsAt(steps[t], at, n) => StepsAt(marked, at, n)
  <2> SUFFICES ASSUME NEW at, NEW n, StepsAt(steps[t], at, n), NEW i \in StepIds(t)
               PROVE  IF i < at THEN Settled(marked[i]) /\ marked[i].retries <= n + 1
                      ELSE marked[i].status # "completed" /\ marked[i].retries <= n
    BY <1>5 DEF StepsAt
  <2>1. IF i < at THEN Settled(steps[t][i]) /\ steps[t][i].retries <= n + 1
        ELSE steps[t][i].status # "completed" /\ steps[t][i].retries <= n
    BY <1>5, Zenon DEF StepsAt
  <2>2. /\ marked[i].retries = steps[t][i].retries
        /\ (Settled(marked[i]) <=> Settled(steps[t][i]))
        /\ (marked[i].status = "completed" <=> steps[t][i].status = "completed")
    BY <1>3, <1>4, Zenon
  <2>3. CASE i < at
    BY <2>1, <2>2, <2>3, Zenon
  <2>4. CASE ~ (i < at)
    BY <2>1, <2>2, <2>4, Zenon
  <2>5. QED
    BY <2>3, <2>4, Zenon
<1>8. \A u \in Tasks : \A at, n : StepsAt(steps[u], at, n) => StepsAt(steps'[u], at, n)
  BY <1>6, <1>7
<1>9. TypeOK'
  <2>1. \A u \in Tasks : steps'[u] \in [StepIds(u) -> [status : Status, retries : Nat]]
    BY <1>2, <1>5, <1>6 DEF EngineTypeOK, Table, Record
  <2>2. taskStatus' \in [Tasks -> Status] /\ DOMAIN steps' = Tasks
    BY <1>1, <1>2 DEF Status
  <2>3. QED
    BY <1>1, <2>1, <2>2 DEF IInv, TypeOK, EngineTypeOK, storeVars, clientVars, poolVars
<1>10. WorkersExecuteWhatTheyHold' /\ CallersExecuteTheirs' /\ ExecutedAreSubmitted' /\ OneRunner'
  BY <1>1 DEF IInv, WorkersExecuteWhatTheyHold, CallersExecuteTheirs, ExecutedAreSubmitted,
              OneRunner, Busy, storeVars, clientVars
<1>11. AcceptedOrDirect' /\ AttemptsAreLimited'
  BY <1>1 DEF IInv, AcceptedOrDirect, AttemptsAreLimited, QueuedTasks, storeVars, clientVars
<1>12. OnePlace'
  <2>1. ASSUME NEW u \in accepted, taskStatus'[u] # "cancelled"
        PROVE  taskStatus[u] # "cancelled"
    BY <2>1, <1>1, <1>2 DEF IInv, TypeOK
  <2>2. QED
    BY <1>1, <2>1 DEF IInv, OnePlace, QueuedTasks, storeVars, clientVars
<1>13. RunnersKnowTheirSteps'
  <2> SUFFICES ASSUME NEW y \in Runners, exec'[y].task # NoTask
               PROVE  StepsAt(steps'[exec'[y].task], exec'[y].at,
                              MaxRetries - 1 + Forgiven(requeues'[exec'[y].task])
                              + (IF y \in Workers THEN held'[y].attempt ELSE 0))
    BY DEF RunnersKnowTheirSteps, Busy, Tries, Attempt
  <2>1. exec' = exec /\ held' = held /\ requeues' = requeues /\ exec[y].task \in Tasks
    BY <1>1, <1>2 DEF storeVars, clientVars, EngineTypeOK
  <2>2. QED
    BY <2>1, <1>8 DEF IInv, RunnersKnowTheirSteps, Busy, Tries, Attempt
<1>14. WaitingTasksAreUndone'
  <2>1. queue' = queue /\ failed' = failed /\ accepted' = accepted /\ direct' = direct /\ requeues' = requeues
    BY <1>1 DEF storeVars, clientVars
  <2>2. (\A e \in queue : e.task \in Tasks) /\ failed \subseteq Tasks
    BY DEF IInv, TypeOK, Entry
  <2>3. QED
    BY <2>1, <2>2, <1>8 DEF IInv, WaitingTasksAreUndone, NothingDone, Tries
<1>15. \A u \in Tasks : \A i \in StepIds(u) :
          /\ Settled(steps[u][i]) => Settled(steps'[u][i])
          /\ steps[u][i].status = "completed" => steps'[u][i].status = "completed"
          /\ steps'[u][i].retries = steps[u][i].retries
  <2> SUFFICES ASSUME NEW u \in Tasks, NEW i \in StepIds(u)
               PROVE  /\ Settled(steps[u][i]) => Settled(steps'[u][i])
                      /\ steps[u][i].status = "completed" => steps'[u][i].status = "completed"
                      /\ steps'[u][i].retries = steps[u][i].retries
    OBVIOUS
  <2>1. CASE u = t
    <3>1. i \in StepIds(t) /\ steps'[u][i] = marked[i] /\ steps[u][i] = steps[t][i]
      BY <2>1, <1>6
    <3>2. /\ marked[i].retries = steps[t][i].retries
          /\ (Settled(marked[i]) <=> Settled(steps[t][i]))
          /\ (marked[i].status = "completed" <=> steps[t][i].status = "completed")
      BY <3>1, <1>3, <1>4, Zenon
    <3>3. QED
      BY <3>1, <3>2, Zenon
  <2>2. CASE u # t
    <3>1. steps'[u] = steps[u]
      BY <2>2, <1>6
    <3>2. QED
      BY <3>1
  <2>3. QED
    BY <2>1, <2>2
<1>16. CompletedAreSettled' /\ TriesBounded'
  <2>1. completed' = completed /\ completed \subseteq Tasks /\ requeues' = requeues
    BY <1>1 DEF IInv, TypeOK, storeVars, clientVars
  <2>2. CompletedAreSettled'
    BY <1>15, <2>1 DEF IInv, CompletedAreSettled
  <2>3. TriesBounded'
    BY <1>15, <2>1 DEF IInv, TriesBounded
  <2>4. QED
    BY <2>2, <2>3
<1>17. QED
  BY <1>9, <1>10, <1>11, <1>12, <1>13, <1>14, <1>15, <1>16 DEF IInv

(* What was not tried more than an attempt allows is not tried more than   *)
(* the next one allows.                                                    *)
LEMMA MoreTries ==
    ASSUME TypeOK, NEW t \in Tasks, NEW a \in Nat, a < MaxAttempts, NothingDone(t, Tries(t, a))
    PROVE  NothingDone(t, Tries(t, a + 1))
<1>1. Tries(t, a) \in Nat /\ Tries(t, a + 1) = Tries(t, a) + 1
  BY TriesGrow
<1>2. DOMAIN steps[t] = 1..StepsOf[t] /\ StepsOf[t] \in Nat
      /\ \A i \in DOMAIN steps[t] : steps[t][i].retries \in Nat
  BY StepNumbers DEF TypeOK, EngineTypeOK
<1>3. QED
  BY <1>1, <1>2 DEF NothingDone, StepsAt

(* A worker takes a task the engine does not know.                         *)
LEMMA UnknownStep ==
    ASSUME IInv, NEW w \in Workers, NEW e \in queue, TakeUnknown(w, e)
    PROVE  IInv'
<1> DEFINE t == e.task
           a == e.attempt
<1>1. /\ held[w] = NoEntry
      /\ UNCHANGED <<submitted, steps, exec, processing, held, completed, clientVars, poolVars>>
      /\ taskStatus' = taskStatus
         \/ taskStatus' = [taskStatus EXCEPT ![t] = "retry_scheduled"]
  BY DEF TakeUnknown
<1>2. \/ /\ a + 1 < MaxAttempts
         /\ queue' = (queue \ {e}) \cup {Requeued(e)} /\ failed' = failed
      \/ /\ ~ (a + 1 < MaxAttempts)
         /\ queue' = queue \ {e} /\ failed' = failed \cup {t}
  BY DEF TakeUnknown, HandleFailure, AfterFailure, Popped, Requeued
<1>3. e \in Entry /\ a \in Nat /\ t \in Tasks /\ a < MaxAttempts
  BY DEF IInv, TypeOK, Entry, AttemptsAreLimited
<1>4. Requeued(e) \in Entry /\ Requeued(e).task = t /\ Requeued(e).attempt = a + 1
  BY <1>3 DEF Requeued, Entry
<1>5. t \in QueuedTasks /\ t \notin processing \cup completed \cup failed
  BY <1>3 DEF IInv, OnePlace, QueuedTasks
<1>6. \A f \in queue \ {e} : f.task # t
  BY DEF IInv, OnePlace
<1>7. /\ QueuedTasks' \subseteq QueuedTasks
      /\ QueuedTasks \ {t} \subseteq QueuedTasks'
      /\ t \in QueuedTasks' \/ t \in failed'
      /\ t \in QueuedTasks' => t \notin failed'
      /\ failed' \subseteq failed \cup {t} /\ failed \subseteq failed'
  <2>1. QueuedTasks' \subseteq QueuedTasks /\ QueuedTasks \ {t} \subseteq QueuedTasks'
    BY <1>2, <1>4 DEF QueuedTasks
  <2>2. CASE queue' = (queue \ {e}) \cup {Requeued(e)} /\ failed' = failed
    <3>1. t \in QueuedTasks'
      BY <2>2, <1>4 DEF QueuedTasks
    <3>2. QED
      BY <2>1, <2>2, <3>1, <1>5
  <2>3. CASE queue' = queue \ {e} /\ failed' = failed \cup {t}
    <3>1. t \notin QueuedTasks'
      BY <2>3, <1>6 DEF QueuedTasks
    <3>2. QED
      BY <2>1, <2>3, <3>1, <1>5
  <2>4. QED
    BY <2>2, <2>3, <1>2
<1>8. TypeOK'
  <2>1. taskStatus' \in [Tasks -> Status]
    BY <1>1 DEF IInv, TypeOK, EngineTypeOK, Status
  <2>2. queue' \subseteq Entry /\ failed' \subseteq Tasks
    BY <1>2, <1>3, <1>4 DEF IInv, TypeOK
  <2>3. QED
    BY <1>1, <2>1, <2>2 DEF IInv, TypeOK, EngineTypeOK, clientVars, poolVars
<1>9. WorkersExecuteWhatTheyHold' /\ CallersExecuteTheirs' /\ ExecutedAreSubmitted' /\ OneRunner'
  BY <1>1 DEF IInv, WorkersExecuteWhatTheyHold, CallersExecuteTheirs, ExecutedAreSubmitted,
              OneRunner, Busy, clientVars
<1>10. AcceptedOrDirect'
  BY <1>1, <1>5, <1>7 DEF IInv, AcceptedOrDirect, clientVars
<1>11. OnePlace'
  <2>1. \A f, g \in queue' : f.task = g.task => f = g
    BY <1>2, <1>4, <1>6 DEF IInv, OnePlace
  <2>2. ASSUME NEW u \in Tasks
        PROVE  /\ u \in QueuedTasks' => u \notin processing \cup completed \cup failed'
               /\ u \in processing => u \notin completed \cup failed'
               /\ u \notin completed \cap failed'
    BY <1>5, <1>7 DEF IInv, OnePlace
  <2>3. ASSUME NEW u \in accepted, taskStatus'[u] # "cancelled", requeues[u] = 0
        PROVE  u \in QueuedTasks' \cup processing \cup completed \cup failed'
    <3>1. CASE u = t
      BY <3>1, <1>7
    <3>2. CASE u # t
      <4>1. taskStatus'[u] = taskStatus[u]
        BY <1>1, <3>2 DEF IInv, TypeOK, EngineTypeOK
      <4>2. QED
        BY <2>3, <3>2, <4>1, <1>7 DEF IInv, OnePlace
    <3>3. QED
      BY <3>1, <3>2
  <2>4. QED
    BY <1>1, <2>1, <2>2, <2>3 DEF IInv, OnePlace, clientVars
<1>12. RunnersKnowTheirSteps'
  BY <1>1 DEF IInv, RunnersKnowTheirSteps, Busy, Tries, Attempt, clientVars
<1>13. NothingDone(t, Tries(t, a + 1)) /\ (~ (a + 1 < MaxAttempts) => a + 1 = MaxAttempts)
  BY <1>3, MoreTries, QueueAssumption DEF IInv, WaitingTasksAreUndone
<1>14. WaitingTasksAreUndone'
  <2>1. \A f \in queue' : NothingDone(f.task, Tries(f.task, f.attempt))
    BY <1>2, <1>4, <1>13 DEF IInv, WaitingTasksAreUndone
  <2>2. \A u \in failed' : NothingDone(u, Tries(u, MaxAttempts))
    BY <1>2, <1>13 DEF IInv, WaitingTasksAreUndone
  <2>3. QED
    BY <1>1, <2>1, <2>2 DEF IInv, WaitingTasksAreUndone, NothingDone, Tries, clientVars
<1>15. CompletedAreSettled' /\ TriesBounded'
  BY <1>1 DEF IInv, CompletedAreSettled, TriesBounded, clientVars
<1>16. AttemptsAreLimited'
  BY <1>1, <1>2, <1>4 DEF IInv, AttemptsAreLimited
<1>17. QED
  BY <1>8, <1>9, <1>10, <1>11, <1>12, <1>14, <1>15, <1>16 DEF IInv

(* A completed step stays completed whoever advances.                      *)
StaysCompleted ==
    \A t \in Tasks : \A i \in StepIds(t) :
        steps[t][i].status = "completed" => steps'[t][i].status = "completed"

LEMMA AdvanceKeepsCompleted ==
    ASSUME TypeOK, NEW x, NEW t \in Tasks, NEW onFailure, NEW n, Advanced(x, t, onFailure, n)
    PROVE  StaysCompleted
<1>1. \A u \in Tasks \ {t} : steps'[u] = steps[u]
  BY DEF TypeOK, EngineTypeOK, Advanced
<1>2. QED
  BY <1>1 DEF StaysCompleted, Advanced

(* The three steps of a worker inside execute_task.                        *)
LEMMA WorkerSteps ==
    ASSUME IInv, NEW w \in Workers,
           (\E e \in queue : TakeNext(w, e)) \/ WorkerCall(w)
    PROVE  IInv' /\ StaysCompleted
<1>0. TypeOK /\ w \in Runners
  BY QueueAssumption DEF IInv
<1>1. ASSUME NEW e \in queue, TakeNext(w, e)
      PROVE  IInv' /\ StaysCompleted
  <2> DEFINE t == e.task
             n == Tries(t, e.attempt)
             onFailure == AfterFailure(e)
             rest == Popped(e)
  <2>1. /\ held[w] = NoEntry /\ t \in submitted /\ submitted' = submitted
        /\ Proceed(w, t, steps[t], 0, "in_progress", onFailure)
        /\ Follow(w, e, rest)
        /\ UNCHANGED <<clientVars, poolVars>>
    BY <1>1 DEF TakeNext, Begin
  <2>2. t \in Tasks /\ e.attempt \in Nat /\ NothingDone(t, n)
    BY DEF IInv, TypeOK, Entry, WaitingTasksAreUndone
  <2>3. n \in Nat /\ onFailure \in Status
    BY <1>0, <2>2, TriesTypes DEF AfterFailure, Status
  <2>4. Has(w, e, rest)
    BY <2>1 DEF Has, Popped
  <2> HIDE DEF t, n, onFailure, rest
  <2>5. Advanced(w, t, onFailure, n)
    BY <1>0, <2>1, <2>2, <2>3, BeginAdvances
  <2>6. StaysCompleted
    BY <1>0, <2>2, <2>5, AdvanceKeepsCompleted
  <2>7. Advanced(w, e.task, AfterFailure(e), Tries(e.task, e.attempt))
    BY <2>5 DEF t, n, onFailure
  <2>8. e.task \in submitted
    BY <2>1 DEF t
  <2>9. IInv'
    BY <2>1, <2>4, <2>7, <2>8, WorkerStep
  <2>10. QED
    BY <2>6, <2>9
<1>2. ASSUME WorkerCall(w)
      PROVE  IInv' /\ StaysCompleted
  <2> DEFINE e == held[w]
             onFailure == AfterFailure(e)
             n == Tries(exec[w].task, e.attempt)
  <2>1. /\ CallSucceeds(w, onFailure) \/ CallFails(w, onFailure)
        /\ Follow(w, e, queue)
        /\ UNCHANGED <<clientVars, poolVars>>
    BY <1>2 DEF WorkerCall
  <2>2. Busy(w)
    BY <2>1 DEF Busy, CallSucceeds, CallFails
  <2>3. e.task = exec[w].task /\ e # NoEntry
    BY <2>2, Places DEF IInv, WorkersExecuteWhatTheyHold, Busy
  <2>4. e \in Entry
    BY <2>3, Places
  <2>5. e.task \in Tasks /\ e.attempt \in Nat /\ exec[w].task \in Tasks
    BY <2>3, <2>4 DEF Entry
  <2>6. n \in Nat /\ n >= MaxRetries - 1 /\ onFailure \in Status
    BY <1>0, <2>5, TriesTypes DEF AfterFailure, Status
  <2>7. StepsAt(steps[exec[w].task], exec[w].at, n)
    BY <1>0, <2>2 DEF IInv, RunnersKnowTheirSteps, Attempt
  <2>8. Has(w, e, queue) /\ e.task \in submitted
    BY <2>2, <2>3, <2>4, <1>0 DEF Has, IInv, ExecutedAreSubmitted
  <2>9. RunnersKnowTheirSteps /\ ExecutedAreSubmitted
    BY DEF IInv
  <2> HIDE DEF e, onFailure, n
  <2>10. Advanced(w, exec[w].task, onFailure, n) /\ submitted' = submitted
    BY <1>0, <2>1, <2>6, <2>7, <2>9, CallAdvances
  <2>11. Advanced(w, e.task, AfterFailure(e), Tries(e.task, e.attempt))
    BY <2>3, <2>10 DEF onFailure, n
  <2>12. StaysCompleted
    BY <1>0, <2>5, <2>11, AdvanceKeepsCompleted
  <2>13. IInv'
    BY <2>1, <2>8, <2>10, <2>11, WorkerStep
  <2>14. QED
    BY <2>12, <2>13
<1>3. QED
  BY <1>1, <1>2

(* An API call begins, or goes on.                                         *)
LEMMA CallerSteps ==
    ASSUME IInv, NEW x \in Callers, ApiCall(x) \/ \E t \in Tasks : ApiExecute(x, t)
    PROVE  IInv' /\ StaysCompleted
<1>0. TypeOK /\ x \in Runners /\ x \notin Workers
  BY QueueAssumption DEF IInv
<1>1. "failed" \in Status /\ 0 \in Nat
  BY DEF Status
<1>2. ASSUME NEW t \in Tasks, ApiExecute(x, t)
      PROVE  IInv' /\ StaysCompleted
  <2> DEFINE n == Tries(t, 0)
  <2>1. /\ exec[x] = Idle /\ t \notin submitted /\ t \notin accepted
        /\ submitted' = submitted \cup {t} /\ direct' = direct \cup {t}
        /\ Proceed(x, t, steps[t], 0, "in_progress", "failed")
        /\ UNCHANGED <<storeVars, accepted, requeues, poolVars>>
    BY <1>2 DEF ApiExecute
  <2>2. \A y \in Runners : exec[y].task # t
    BY <2>1, EngineAssumption DEF IInv, ExecutedAreSubmitted, Busy
  <2>3. n \in Nat
    BY <1>0, <1>1, TriesTypes
  <2>4. NothingDone(t, n)
    <3>1. CASE t \notin direct
      BY <2>1, <3>1 DEF IInv, WaitingTasksAreUndone
    <3>2. CASE t \in direct
      BY <2>1, <3>2 DEF IInv, CallersExecuteTheirs
    <3>3. QED
      BY <3>1, <3>2
  <2>5. submitted' \subseteq Tasks /\ submitted \subseteq submitted' /\ t \in submitted'
    BY <1>0, <2>1 DEF TypeOK, EngineTypeOK
  <2>6. t \in direct' /\ direct \subseteq direct' /\ direct' \subseteq direct \cup {t}
    BY <2>1
  <2>7. Advanced(x, t, "failed", n)
    <3> HIDE DEF n
    <3>1. QED
      BY <1>0, <1>1, <2>1, <2>3, <2>4, BeginAdvances
  <2>8. IInv'
    BY <2>1, <2>2, <2>5, <2>6, <2>7, CallerStep
  <2>9. StaysCompleted
    <3> HIDE DEF n
    <3>1. QED
      BY <1>0, <2>7, AdvanceKeepsCompleted
  <2>10. QED
    BY <2>8, <2>9
<1>3. ASSUME ApiCall(x)
      PROVE  IInv' /\ StaysCompleted
  <2> DEFINE t == exec[x].task
             n == Tries(t, 0)
  <2>1. /\ CallSucceeds(x, "failed") \/ CallFails(x, "failed")
        /\ UNCHANGED <<storeVars, clientVars, poolVars>>
    BY <1>3 DEF ApiCall
  <2>2. Busy(x)
    BY <2>1 DEF Busy, CallSucceeds, CallFails
  <2>3. t \in Tasks /\ t \in submitted /\ t \in direct
    BY <1>0, <2>2 DEF IInv, TypeOK, EngineTypeOK, Busy, ExecutedAreSubmitted, CallersExecuteTheirs
  <2>4. n \in Nat /\ n >= MaxRetries - 1
    BY <1>0, <1>1, <2>3, TriesTypes
  <2>5. StepsAt(steps[exec[x].task], exec[x].at, n)
    BY <1>0, <2>2 DEF IInv, RunnersKnowTheirSteps, Attempt
  <2>6. RunnersKnowTheirSteps /\ ExecutedAreSubmitted
    BY DEF IInv
  <2>7. t \notin accepted /\ \A y \in Runners \ {x} : exec[y].task # t
    BY <1>0, <2>2, <2>3 DEF IInv, AcceptedOrDirect, OneRunner, Busy
  <2>8. Advanced(x, exec[x].task, "failed", n) /\ submitted' = submitted
    <3> HIDE DEF n
    <3>1. QED
      BY <1>0, <1>1, <2>1, <2>4, <2>5, <2>6, CallAdvances
  <2>9. Advanced(x, t, "failed", n) /\ submitted' = submitted
    BY <2>8
  <2> HIDE DEF t
  <2>10. IInv'
    <3>1. submitted' \subseteq Tasks /\ submitted \subseteq submitted' /\ t \in submitted'
      BY <1>0, <2>3, <2>9 DEF TypeOK, EngineTypeOK
    <3>2. t \in direct' /\ direct \subseteq direct' /\ direct' \subseteq direct \cup {t}
      BY <2>1, <2>3 DEF clientVars
    <3>3. UNCHANGED <<storeVars, accepted, requeues, poolVars>>
      BY <2>1 DEF clientVars
    <3>4. QED
      BY <3>1, <3>2, <3>3, <2>3, <2>7, <2>9, CallerStep
  <2>11. StaysCompleted
    <3> HIDE DEF n
    <3>1. QED
      BY <1>0, <2>3, <2>9, AdvanceKeepsCompleted
  <2>12. QED
    BY <2>10, <2>11
<1>4. QED
  BY <1>2, <1>3

(* The sleep of a runner ends: it keeps what it has.                       *)
LEMMA WakeStep ==
    ASSUME IInv, NEW x \in Runners, Wake(x)
    PROVE  IInv' /\ StaysCompleted
<1>0. TypeOK /\ WakeUp(x) /\ UNCHANGED <<storeVars, clientVars, poolVars>>
  BY DEF IInv, Wake
<1>1. Busy(x)
  BY <1>0 DEF Busy, WakeUp
<1>2. CASE x \in Callers
  <2> DEFINE t == exec[x].task
             n == Tries(t, 0)
  <2>1. t \in Tasks /\ t \in submitted /\ t \in direct /\ t \notin accepted
    BY <1>0, <1>1, <1>2 DEF IInv, TypeOK, EngineTypeOK, Busy, ExecutedAreSubmitted,
                            CallersExecuteTheirs, AcceptedOrDirect
  <2>2. n \in Nat
    BY <1>0, <2>1, TriesTypes
  <2>3. StepsAt(steps[exec[x].task], exec[x].at, n)
    BY <1>1, <1>2, QueueAssumption DEF IInv, RunnersKnowTheirSteps, Attempt
  <2>4. \A y \in Runners \ {x} : exec[y].task # t
    BY <1>1 DEF IInv, OneRunner, Busy
  <2>5. Advanced(x, exec[x].task, "failed", n) /\ submitted' = submitted
    <3> HIDE DEF n
    <3>1. QED
      BY <1>0, <2>2, <2>3, WakeAdvances
  <2>6. Advanced(x, t, "failed", n)
    BY <2>5
  <2> HIDE DEF t
  <2>7. IInv'
    <3>1. submitted' \subseteq Tasks /\ submitted \subseteq submitted' /\ t \in submitted'
      BY <1>0, <2>1, <2>5 DEF TypeOK, EngineTypeOK
    <3>2. t \in direct' /\ direct \subseteq direct' /\ direct' \subseteq direct \cup {t}
      BY <1>0, <2>1 DEF clientVars
    <3>3. UNCHANGED <<storeVars, accepted, requeues, poolVars>>
      BY <1>0 DEF clientVars
    <3>4. QED
      BY <1>2, <3>1, <3>2, <3>3, <2>1, <2>4, <2>6, CallerStep
  <2>8. StaysCompleted
    <3> HIDE DEF n
    <3>1. QED
      BY <1>0, <2>1, <2>6, AdvanceKeepsCompleted
  <2>9. QED
    BY <2>7, <2>8
<1>3. CASE x \in Workers
  <2> DEFINE e == held[x]
             onFailure == AfterFailure(e)
             n == Tries(exec[x].task, e.attempt)
  <2>1. e.task = exec[x].task /\ e # NoEntry
    BY <1>1, <1>3, Places DEF IInv, WorkersExecuteWhatTheyHold, Busy
  <2>2. e \in Entry
    BY <2>1, <1>3, Places
  <2>3. e.task \in Tasks /\ e.attempt \in Nat /\ exec[x].task \in Tasks
    BY <2>1, <2>2 DEF Entry
  <2>4. n \in Nat
    BY <1>0, <2>3, TriesTypes
  <2>5. StepsAt(steps[exec[x].task], exec[x].at, n)
    BY <1>1, <1>3 DEF IInv, RunnersKnowTheirSteps, Attempt
  <2>6. Has(x, e, queue) /\ e.task \in submitted
    BY <1>1, <2>1, <2>2 DEF Has, IInv, ExecutedAreSubmitted
  <2>7. e.task \in processing
    BY <2>1, <1>3, Places
  <2>8. [held EXCEPT ![x] = e] = held
    BY <1>0, <1>3 DEF TypeOK
  <2> HIDE DEF e, onFailure, n
  <2>9. /\ Advanced(x, exec[x].task, onFailure, n)
        /\ exec'[x].task = exec[x].task /\ submitted' = submitted
    BY <1>0, <2>4, <2>5, WakeAdvances
  <2>10. exec'[x] # Idle
    BY <2>9, <1>1 DEF Idle, Busy
  <2>11. Follow(x, e, queue)
    BY <1>0, <2>7, <2>8, <2>10 DEF Follow, storeVars
  <2>12. Advanced(x, e.task, AfterFailure(e), Tries(e.task, e.attempt))
    BY <2>1, <2>9 DEF onFailure, n
  <2>13. UNCHANGED <<clientVars, poolVars>>
    BY <1>0
  <2>14. IInv'
    BY <1>3, <2>6, <2>9, <2>11, <2>12, <2>13, WorkerStep
  <2>15. StaysCompleted
    BY <1>0, <2>3, <2>12, AdvanceKeepsCompleted
  <2>16. QED
    BY <2>14, <2>15
<1>4. QED
  BY <1>2, <1>3, QueueAssumption

(* Every step keeps the invariant, and no step undoes a completed one.     *)
LEMMA NextInv == IInv /\ [Next]_vars => IInv' /\ StaysCompleted
<1> SUFFICES ASSUME IInv, [Next]_vars PROVE IInv' /\ StaysCompleted
  OBVIOUS
<1>1. steps' = steps => StaysCompleted
  BY DEF StaysCompleted
<1>2. ASSUME NEW t \in Tasks, Submit(t)
      PROVE  IInv' /\ StaysCompleted
  BY <1>1, <1>2, PoolSteps DEF Submit, SubmitTask
<1>3. ASSUME NEW t \in Tasks, RetryFailed(t)
      PROVE  IInv' /\ StaysCompleted
  BY <1>1, <1>3, RetryStep DEF RetryFailed
<1>4. ASSUME NEW t \in Tasks, CancelSubmitted(t)
      PROVE  IInv' /\ StaysCompleted
  BY <1>4, CancelStep DEF StaysCompleted
<1>5. ASSUME NEW t \in Tasks, NEW due \in BOOLEAN, Enqueue(t, due)
      PROVE  IInv' /\ StaysCompleted
  BY <1>1, <1>5, EnqueueStep DEF Enqueue, engineVars
<1>6. ASSUME NEW x \in Callers, ApiCall(x) \/ \E t \in Tasks : ApiExecute(x, t)
      PROVE  IInv' /\ StaysCompleted
  BY <1>6, CallerSteps
<1>7. ASSUME NEW e \in queue, CancelQueued(e) \/ BecomesDue(e)
      PROVE  IInv' /\ StaysCompleted
  BY <1>1, <1>7, HeapSteps DEF CancelQueued, BecomesDue, engineVars
<1>8. ASSUME NEW w \in Workers, Worker(w)
      PROVE  IInv' /\ StaysCompleted
  <2>1. ASSUME NEW e \in queue, TakeUnknown(w, e)
        PROVE  IInv' /\ StaysCompleted
    BY <1>1, <2>1, UnknownStep DEF TakeUnknown
  <2>2. ASSUME WorkerEnds(w)
        PROVE  IInv' /\ StaysCompleted
    BY <1>1, <2>2, PoolSteps DEF WorkerEnds, engineVars
  <2>3. ASSUME (\E e \in queue : TakeNext(w, e)) \/ WorkerCall(w)
        PROVE  IInv' /\ StaysCompleted
    BY <2>3, WorkerSteps
  <2>4. QED
    BY <1>8, <2>1, <2>2, <2>3 DEF Worker
<1>9. ASSUME NEW x \in Runners, Wake(x)
      PROVE  IInv' /\ StaysCompleted
  BY <1>9, WakeStep
<1>10. ASSUME Start \/ Stop
       PROVE  IInv' /\ StaysCompleted
  BY <1>1, <1>10, PoolSteps DEF Start, Stop, engineVars
<1>11. ASSUME UNCHANGED vars
       PROVE  IInv' /\ StaysCompleted
  <2> USE <1>11 DEF vars, engineVars, storeVars, clientVars, poolVars
  <2>1. TypeOK' /\ WorkersExecuteWhatTheyHold' /\ CallersExecuteTheirs' /\ ExecutedAreSubmitted' /\ OneRunner'
    BY DEF IInv, TypeOK, EngineTypeOK, WorkersExecuteWhatTheyHold, CallersExecuteTheirs,
           ExecutedAreSubmitted, OneRunner, Busy
  <2>2. AcceptedOrDirect' /\ OnePlace' /\ AttemptsAreLimited'
    BY DEF IInv, AcceptedOrDirect, OnePlace, AttemptsAreLimited, QueuedTasks
  <2>3. RunnersKnowTheirSteps' /\ WaitingTasksAreUndone'
    BY DEF IInv, RunnersKnowTheirSteps, WaitingTasksAreUndone, Busy, NothingDone, Tries, Attempt
  <2>4. CompletedAreSettled' /\ TriesBounded'
    BY DEF IInv, CompletedAreSettled, TriesBounded
  <2>5. QED
    BY <1>1, <2>1, <2>2, <2>3, <2>4 DEF IInv
<1>12. CASE UNCHANGED vars
  BY <1>11, <1>12
<1>13. CASE Next
  BY <1>2, <1>3, <1>4, <1>5, <1>6, <1>7, <1>8, <1>9, <1>10, <1>13 DEF Next
<1>14. QED
  BY <1>12, <1>13

-----------------------------------------------------------------------------
(* The theorems.                                                           *)

(* The invariant holds in every reachable state.                           *)
THEOREM Invariant == Spec => []IInv
<1>1. IInv /\ [Next]_vars => IInv'
  BY NextInv
<1>2. QED
  BY InitInv, <1>1, PTL DEF Spec

(* The tables of the engine, the stores of the queue and the workers keep  *)
(* their types (queue.py, engine.py).                                      *)
THEOREM TypeCorrect == Spec => []TypeOK
<1>1. IInv => TypeOK
  BY DEF IInv
<1>2. QED
  BY Invariant, <1>1, PTL

(* For any number of workers, of either generation, and any retries and    *)
(* cancellations, a task is in one store at a time (queue.py:205-299).     *)
THEOREM TasksAreInOnePlace == Spec => []OnePlace
<1>1. IInv => OnePlace
  BY DEF IInv
<1>2. QED
  BY Invariant, <1>1, PTL

(* A task filed as completed took effect, one filed as failed did not      *)
(* (queue.py:245-299, engine.py:246-254).                                  *)
THEOREM StoresAreTruthful == Spec => []FiledTruthfully
<1>1. IInv => FiledTruthfully
  <2> SUFFICES ASSUME IInv PROVE FiledTruthfully
    OBVIOUS
  <2>1. \A t \in completed :
          /\ \A i \in StepIds(t) : steps[t][i].status \in {"completed", "failed"}
          /\ StepsOf[t] > 0 => \E i \in StepIds(t) : steps[t][i].status = "completed"
    BY DEF IInv, CompletedAreSettled, Settled
  <2>2. ASSUME NEW t \in failed, NEW i \in StepIds(t)
        PROVE  steps[t][i].status # "completed"
    <3>1. t \in Tasks /\ NothingDone(t, Tries(t, MaxAttempts))
      BY DEF IInv, TypeOK, WaitingTasksAreUndone
    <3>2. i \in DOMAIN steps[t] /\ ~ (i < 0)
      BY <3>1, StepNumbers DEF IInv, TypeOK, EngineTypeOK
    <3>3. QED
      BY <3>1, <3>2, Zenon DEF NothingDone, StepsAt
  <2>3. QED
    BY <2>1, <2>2 DEF FiledTruthfully
<1>2. QED
  BY Invariant, <1>1, PTL

(* The engine's retries and the queue's do not multiply, for any limits    *)
(* (engine.py:299-313, queue.py:270-299).                                  *)
THEOREM TriesAreBounded == Spec => []TriesBounded
<1>1. IInv => TriesBounded
  BY DEF IInv
<1>2. QED
  BY Invariant, <1>1, PTL

(* No retry, cancellation or second execution repeats a completed step     *)
(* (engine.py:243-297).                                                    *)
THEOREM CompletedStepsStay == Spec => CompletedStepsAreNotRepeated
<1>1. IInv /\ [Next]_vars =>
        [\A t \in Tasks : \A i \in StepIds(t) :
            steps[t][i].status = "completed" => steps'[t][i].status = "completed"]_vars
  BY NextInv DEF StaysCompleted
<1>2. QED
  BY Invariant, <1>1, PTL DEF Spec, CompletedStepsAreNotRepeated

-----------------------------------------------------------------------------
(* The queue, its workers and the engine implement TaskLedger.  Place and   *)
(* EffectsOf are the mapped values; the frame lemma gives both of them for  *)
(* a step that touches one task only, and each action then maps to a move. *)

Place == [t \in Tasks |-> PlaceOf(t)]
EffectsOf == [t \in Tasks |-> Effects(t)]

Somewhere(t) == t \in QueuedTasks \cup processing \cup completed \cup failed

PlacesAre ==
    \A t \in Tasks :
        /\ t \in QueuedTasks => PlaceOf(t) = "queued" /\ Effects(t) = {}
        /\ t \in processing => PlaceOf(t) = "working"
        /\ t \in completed => PlaceOf(t) = "completed" /\ (StepsOf[t] > 0 => Effects(t) # {})
        /\ t \in failed => PlaceOf(t) = "failed" /\ Effects(t) = {}
        /\ t \in direct => PlaceOf(t) = "direct"
        /\ t \in accepted /\ ~ Somewhere(t) => PlaceOf(t) = "dropped"
        /\ t \notin accepted \cup direct => PlaceOf(t) = "out" /\ Effects(t) = {}

(* Under the invariant the place of a task can be read from one store.     *)
LEMMA InvPlaces == IInv => PlacesAre
<1> SUFFICES ASSUME IInv, NEW t \in Tasks
             PROVE  /\ t \in QueuedTasks => PlaceOf(t) = "queued" /\ Effects(t) = {}
                    /\ t \in processing => PlaceOf(t) = "working"
                    /\ t \in completed => PlaceOf(t) = "completed" /\ (StepsOf[t] > 0 => Effects(t) # {})
                    /\ t \in failed => PlaceOf(t) = "failed" /\ Effects(t) = {}
                    /\ t \in direct => PlaceOf(t) = "direct"
                    /\ t \in accepted /\ ~ Somewhere(t) => PlaceOf(t) = "dropped"
                    /\ t \notin accepted \cup direct => PlaceOf(t) = "out" /\ Effects(t) = {}
  BY DEF PlacesAre
<1>1. /\ t \in QueuedTasks => t \notin processing \cup completed \cup failed
      /\ t \in processing => t \notin completed \cup failed
      /\ t \notin completed \cap failed
  BY DEF IInv, OnePlace
<1>2. /\ t \in direct => t \notin accepted
      /\ t \in QueuedTasks \cup processing \cup completed \cup failed => t \in accepted
  BY DEF IInv, AcceptedOrDirect
<1>3. /\ t \in QueuedTasks => PlaceOf(t) = "queued"
      /\ t \in processing => PlaceOf(t) = "working"
      /\ t \in completed => PlaceOf(t) = "completed"
      /\ t \in failed => PlaceOf(t) = "failed"
      /\ t \in direct => PlaceOf(t) = "direct"
      /\ t \in accepted /\ ~ Somewhere(t) => PlaceOf(t) = "dropped"
      /\ t \notin accepted \cup direct => PlaceOf(t) = "out"
  BY <1>1, <1>2 DEF PlaceOf, Somewhere
<1>4. ASSUME NEW n, NothingDone(t, n)
      PROVE  Effects(t) = {}
  <2>1. DOMAIN steps[t] = 1..StepsOf[t] /\ StepIds(t) = 1..StepsOf[t] /\ StepsOf[t] \in Nat
    BY StepNumbers DEF IInv, TypeOK, EngineTypeOK
  <2>2. \A i \in StepIds(t) : steps[t][i].status # "completed"
    BY <1>4, <2>1 DEF NothingDone, StepsAt
  <2>3. QED
    BY <2>2 DEF Effects
<1>5. t \in QueuedTasks => Effects(t) = {}
  BY <1>4 DEF IInv, WaitingTasksAreUndone, QueuedTasks
<1>6. t \in failed \/ t \notin accepted \cup direct => Effects(t) = {}
  BY <1>4 DEF IInv, WaitingTasksAreUndone
<1>7. t \in completed => (StepsOf[t] > 0 => Effects(t) # {})
  BY DEF IInv, CompletedAreSettled, Effects
<1>8. QED
  BY <1>3, <1>5, <1>6, <1>7

SameStores(t) ==
    /\ t \in QueuedTasks' <=> t \in QueuedTasks
    /\ t \in processing' <=> t \in processing
    /\ t \in completed' <=> t \in completed
    /\ t \in failed' <=> t \in failed
    /\ t \in direct' <=> t \in direct
    /\ t \in accepted' <=> t \in accepted

(* A task whose stores do not change keeps its place.                      *)
LEMMA PlaceStays ==
    ASSUME NEW t \in Tasks, SameStores(t)
    PROVE  PlaceOf(t)' = PlaceOf(t)
  BY DEF SameStores, PlaceOf

(* A step that leaves the other tasks alone moves one task.                *)
LEMMA OneMoves ==
    ASSUME NEW t \in Tasks,
           \A u \in Tasks \ {t} : SameStores(u) /\ Effects(u)' = Effects(u)
    PROVE  /\ Place' = [Place EXCEPT ![t] = PlaceOf(t)']
           /\ EffectsOf' = [EffectsOf EXCEPT ![t] = Effects(t)']
<1>1. \A u \in Tasks \ {t} : PlaceOf(u)' = PlaceOf(u)
  BY PlaceStays
<1>2. QED
  BY <1>1 DEF Place, EffectsOf

(* Steps that leave the steps of a task alone leave its effects.           *)
LEMMA EffectsStay ==
    ASSUME NEW u \in Tasks, steps'[u] = steps[u]
    PROVE  Effects(u)' = Effects(u)
  BY DEF Effects, StepIds

QuietLedger == UNCHANGED <<Place, EffectsOf>>

LEMMA QuietLedgerIsStutter ==
    ASSUME QuietLedger
    PROVE  UNCHANGED Ledger!ledgerVars
  BY DEF QuietLedger, Place, EffectsOf, Ledger!ledgerVars

LEMMA AllSameIsQuiet ==
    ASSUME \A u \in Tasks : SameStores(u) /\ Effects(u)' = Effects(u)
    PROVE  QuietLedger
<1>1. \A u \in Tasks : PlaceOf(u)' = PlaceOf(u)
  BY PlaceStays
<1>2. QED
  BY <1>1 DEF QuietLedger, Place, EffectsOf

(* A task that changes its place and none of its effects.                  *)
LEMMA MovesOnly ==
    ASSUME NEW t \in Tasks, NEW from, NEW to,
           \A u \in Tasks \ {t} : SameStores(u),
           \A u \in Tasks : Effects(u)' = Effects(u),
           PlaceOf(t) \in from, PlaceOf(t)' \in to
    PROVE  Ledger!Move(t, from, to)
<1>1. /\ Place' = [Place EXCEPT ![t] = PlaceOf(t)']
      /\ EffectsOf' = [EffectsOf EXCEPT ![t] = Effects(t)']
  BY OneMoves
<1>2. EffectsOf' = EffectsOf
  BY <1>1 DEF EffectsOf
<1>3. Place[t] = PlaceOf(t)
  BY DEF Place
<1>4. Place[t] \in from /\ \E p \in to : Place' = [Place EXCEPT ![t] = p]
  BY <1>1, <1>3
<1>5. QED
  BY <1>2, <1>4 DEF Ledger!Move, Place, EffectsOf

(* What the engine does to the effects: Proceed keeps those of the table   *)
(* it is given, and a connector call adds at most the current step.        *)
LEMMA ProceedEffect ==
    ASSUME TypeOK, NEW x, NEW t \in Tasks, NEW table \in Table(t), NEW i \in Nat,
           NEW status, NEW onFailure,
           i + 1 \in StepIds(t) => table[i + 1].status # "completed",
           Proceed(x, t, table, i, status, onFailure)
    PROVE  /\ Effects(t)' = {j \in StepIds(t) : table[j].status = "completed"}
           /\ \A u \in Tasks \ {t} : Effects(u)' = Effects(u)
<1>1. DOMAIN steps = Tasks
  BY DEF TypeOK, EngineTypeOK
<1>2. DOMAIN table = StepIds(t) /\ StepIds(t) = 1..StepsOf[t] /\ StepsOf[t] \in Nat
      /\ \A j \in StepIds(t) : table[j] \in Record
  BY StepNumbers DEF Table
<1>3. (\A u \in Tasks \ {t} : steps'[u] = steps[u])
      /\ \A j \in StepIds(t) : (steps'[t][j].status = "completed" <=> table[j].status = "completed")
  <2>1. CASE HasNext(t, i)
    <3> DEFINE after == [table EXCEPT ![i + 1].status = "in_progress"]
    <3>1. steps' = [steps EXCEPT ![t] = after] /\ i + 1 \in StepIds(t)
      BY <1>2, <2>1 DEF Proceed, HasNext
    <3>2. \A j \in StepIds(t) : j # i + 1 => after[j] = table[j]
      BY <1>2
    <3>3. after[i + 1].status = "in_progress"
      BY <1>2, <3>1 DEF Record
    <3> HIDE DEF after
    <3>4. steps'[t] = after /\ \A u \in Tasks \ {t} : steps'[u] = steps[u]
      BY <1>1, <3>1
    <3>5. QED
      BY <3>1, <3>2, <3>3, <3>4
  <2>2. CASE ~ HasNext(t, i)
    BY <1>1, <2>2 DEF Proceed
  <2>3. QED
    BY <2>1, <2>2
<1>4. Effects(t)' = {j \in StepIds(t) : steps'[t][j].status = "completed"}
  BY DEF Effects, StepIds
<1>5. QED
  BY <1>3, <1>4, EffectsStay

LEMMA CallEffect ==
    ASSUME IInv, NEW x \in Runners, NEW t \in Tasks, t = exec[x].task, NEW onFailure,
           CallSucceeds(x, onFailure) \/ CallFails(x, onFailure)
    PROVE  /\ \A u \in Tasks \ {t} : Effects(u)' = Effects(u)
           /\ \/ Effects(t)' = Effects(t)
              \/ \E i \in StepIds(t) : i \notin Effects(t) /\ Effects(t)' = Effects(t) \cup {i}
<1> DEFINE i == exec[x].at
           k == steps[t][i].retries + 1
<1>1. TypeOK /\ Busy(x) /\ i \in StepIds(t) /\ i \in Nat
  BY EngineAssumption DEF IInv, TypeOK, EngineTypeOK, Busy
<1>2. steps[t] \in Table(t) /\ DOMAIN steps[t] = StepIds(t) /\ DOMAIN steps = Tasks
      /\ StepIds(t) = 1..StepsOf[t] /\ StepsOf[t] \in Nat
  BY StepNumbers DEF IInv, TypeOK, EngineTypeOK, Table, Record
<1>3. StepsAt(steps[t], i, Tries(t, Attempt(x)))
  BY <1>1 DEF IInv, RunnersKnowTheirSteps
<1>4. \A j \in StepIds(t) : ~ (j < i) => steps[t][j].status # "completed"
  BY <1>2, <1>3 DEF StepsAt
<1>5. steps[t][i].retries \in Nat /\ k \in Nat /\ steps[t][i] \in Record /\ "status" \in DOMAIN steps[t][i]
  BY <1>1, <1>2 DEF Table, Record
<1>6. ASSUME NEW new \in Record,
             Proceed(x, t, [steps[t] EXCEPT ![i] = new], i, taskStatus[t], onFailure)
      PROVE  /\ \A u \in Tasks \ {t} : Effects(u)' = Effects(u)
             /\ Effects(t)' = IF new.status = "completed" THEN Effects(t) \cup {i} ELSE Effects(t)
  <2> DEFINE table == [steps[t] EXCEPT ![i] = new]
  <2>1. table \in Table(t) /\ \A j \in StepIds(t) : table[j] = IF j = i THEN new ELSE steps[t][j]
    BY <1>1, <1>2 DEF Table
  <2>2. i + 1 \in StepIds(t) => table[i + 1].status # "completed"
    BY <1>1, <1>2, <1>4, <2>1
  <2>3. Proceed(x, t, table, i, taskStatus[t], onFailure)
    BY <1>6
  <2> HIDE DEF table
  <2>4. /\ Effects(t)' = {j \in StepIds(t) : table[j].status = "completed"}
        /\ \A u \in Tasks \ {t} : Effects(u)' = Effects(u)
    BY <1>1, <2>1, <2>2, <2>3, ProceedEffect
  <2>5. steps[t][i].status # "completed"
    BY <1>1, <1>2, <1>4
  <2>6. QED
    BY <1>1, <2>1, <2>4, <2>5 DEF Effects
<1>7. i \notin Effects(t)
  BY <1>1, <1>2, <1>4 DEF Effects
<1>8. CASE CallSucceeds(x, onFailure)
  <2> DEFINE new == [steps[t][i] EXCEPT !.status = "completed"]
  <2>1. new \in Record /\ new.status = "completed"
    BY <1>5 DEF Record, Status
  <2>2. [steps[t] EXCEPT ![i].status = "completed"] = [steps[t] EXCEPT ![i] = new]
    OBVIOUS
  <2>3. Proceed(x, t, [steps[t] EXCEPT ![i] = new], i, taskStatus[t], onFailure)
    BY <1>8, <2>2 DEF CallSucceeds
  <2> HIDE DEF new, i
  <2>4. QED
    BY <1>1, <1>6, <1>7, <2>1, <2>3
<1>9. CASE CallFails(x, onFailure) /\ ~ Retryable(k)
  <2> DEFINE new == [status |-> "failed", retries |-> k]
  <2>1. new \in Record /\ new.status = "failed"
    BY <1>5 DEF Record, Status
  <2>2. Proceed(x, t, [steps[t] EXCEPT ![i] = new], i, taskStatus[t], onFailure)
    BY <1>9 DEF CallFails
  <2> HIDE DEF new, i
  <2>3. QED
    BY <1>6, <2>1, <2>2
<1>10. CASE CallFails(x, onFailure) /\ Retryable(k)
  <2>1. steps' = [steps EXCEPT ![t][i] = [status |-> "retry_scheduled", retries |-> k]]
    BY <1>10 DEF CallFails
  <2>2. /\ \A u \in Tasks \ {t} : steps'[u] = steps[u]
        /\ \A j \in StepIds(t) \ {i} : steps'[t][j] = steps[t][j]
        /\ steps'[t][i].status = "retry_scheduled"
    BY <1>1, <1>2, <2>1
  <2>3. Effects(t)' = {j \in StepIds(t) : steps'[t][j].status = "completed"}
    BY DEF Effects, StepIds
  <2>4. Effects(t)' = Effects(t)
    BY <2>2, <2>3, <1>7 DEF Effects
  <2>5. QED
    BY <2>2, <2>4, EffectsStay
<1>11. QED
  BY <1>8, <1>9, <1>10

(* The begin of an execution, the end of a sleep and the engine's          *)
(* cancel_task have no effect.                                             *)
LEMMA BeginEffect ==
    ASSUME TypeOK, NEW x, NEW t \in Tasks, NEW n, NothingDone(t, n), NEW onFailure,
           Proceed(x, t, steps[t], 0, "in_progress", onFailure)
    PROVE  \A u \in Tasks : Effects(u)' = Effects(u)
<1>1. steps[t] \in Table(t) /\ DOMAIN steps[t] = StepIds(t) /\ StepIds(t) = 1..StepsOf[t]
      /\ StepsOf[t] \in Nat
  BY StepNumbers DEF TypeOK, EngineTypeOK, Table, Record
<1>2. \A j \in StepIds(t) : steps[t][j].status # "completed"
  BY <1>1 DEF NothingDone, StepsAt
<1>3. 0 + 1 \in StepIds(t) => steps[t][0 + 1].status # "completed"
  BY <1>2
<1>4. /\ Effects(t)' = {j \in StepIds(t) : steps[t][j].status = "completed"}
      /\ \A u \in Tasks \ {t} : Effects(u)' = Effects(u)
  BY <1>1, <1>3, ProceedEffect
<1>5. QED
  BY <1>4 DEF Effects

LEMMA WakeEffect ==
    ASSUME IInv, NEW x \in Runners, WakeUp(x)
    PROVE  \A u \in Tasks : Effects(u)' = Effects(u)
<1> DEFINE t == exec[x].task
           i == exec[x].at
<1>1. t \in Tasks /\ i \in StepIds(t) /\ Busy(x)
  BY DEF WakeUp, IInv, TypeOK, EngineTypeOK, Busy
<1>2. DOMAIN steps[t] = StepIds(t) /\ DOMAIN steps = Tasks /\ StepIds(t) = 1..StepsOf[t]
      /\ StepsOf[t] \in Nat /\ steps[t][i] \in Record
  BY <1>1, StepNumbers DEF IInv, TypeOK, EngineTypeOK, Record
<1>3. StepsAt(steps[t], i, Tries(t, Attempt(x)))
  BY <1>1 DEF IInv, RunnersKnowTheirSteps
<1>4. steps[t][i].status # "completed"
  BY <1>1, <1>2, <1>3 DEF StepsAt
<1>5. steps' = [steps EXCEPT ![t][i].status = "in_progress"]
  BY DEF WakeUp
<1>6. /\ \A u \in Tasks \ {t} : steps'[u] = steps[u]
      /\ \A j \in StepIds(t) \ {i} : steps'[t][j] = steps[t][j]
      /\ steps'[t][i].status = "in_progress"
  BY <1>1, <1>2, <1>5 DEF Record
<1>7. ASSUME NEW u \in Tasks, u = t
      PROVE  Effects(u)' = Effects(u)
  <2>1. Effects(u)' = {j \in StepIds(u) : steps'[u][j].status = "completed"}
    BY DEF Effects, StepIds
  <2>2. QED
    BY <2>1, <1>1, <1>4, <1>6, <1>7 DEF Effects
<1>8. QED
  BY <1>6, <1>7, EffectsStay

LEMMA CancelEffect ==
    ASSUME IInv, NEW t \in Tasks, CancelTask(t)
    PROVE  \A u \in Tasks : Effects(u)' = Effects(u)
<1>1. DOMAIN steps = Tasks /\ \A i \in StepIds(t) : steps[t][i] \in Record
  BY DEF IInv, TypeOK, EngineTypeOK, Record
<1>2. /\ \A u \in Tasks \ {t} : steps'[u] = steps[u]
      /\ steps'[t] = [i \in StepIds(t) |-> IF steps[t][i].status = "pending"
                                           THEN [steps[t][i] EXCEPT !.status = "cancelled"]
                                           ELSE steps[t][i]]
  BY <1>1 DEF CancelTask
<1>3. \A i \in StepIds(t) : (steps'[t][i].status = "completed" <=> steps[t][i].status = "completed")
  BY <1>1, <1>2 DEF Record
<1>4. Effects(t)' = {j \in StepIds(t) : steps'[t][j].status = "completed"}
  BY DEF Effects, StepIds
<1>5. Effects(t)' = Effects(t)
  BY <1>3, <1>4 DEF Effects
<1>6. QED
  BY <1>2, <1>5, EffectsStay

(* The store steps of the clients and the time.                            *)
LEMMA QuietStoreSteps ==
    ASSUME IInv,
           \/ UNCHANGED vars \/ Start \/ Stop
           \/ \E t \in Tasks : Submit(t) \/ CancelSubmitted(t)
           \/ \E x \in Runners : Wake(x)
           \/ \E w \in Workers : WorkerEnds(w)
           \/ \E e \in queue : BecomesDue(e)
    PROVE  QuietLedger
<1>1. ASSUME UNCHANGED <<QueuedTasks, processing, completed, failed, accepted, direct>>,
             \A u \in Tasks : Effects(u)' = Effects(u)
      PROVE  QuietLedger
  BY <1>1, AllSameIsQuiet DEF SameStores
<1>2. UNCHANGED steps => \A u \in Tasks : Effects(u)' = Effects(u)
  BY EffectsStay
<1>3. UNCHANGED queue => UNCHANGED QueuedTasks
  BY DEF QueuedTasks
<1>4. CASE UNCHANGED vars \/ Start \/ Stop \/ \E w \in Workers : WorkerEnds(w)
  BY <1>1, <1>2, <1>3, <1>4
     DEF vars, engineVars, storeVars, clientVars, Start, Stop, WorkerEnds
<1>5. ASSUME NEW t \in Tasks, Submit(t)
      PROVE  QuietLedger
  BY <1>1, <1>2, <1>3, <1>5 DEF Submit, SubmitTask, storeVars, clientVars
<1>6. ASSUME NEW t \in Tasks, CancelSubmitted(t)
      PROVE  QuietLedger
  BY <1>1, <1>3, <1>6, CancelEffect DEF CancelSubmitted, storeVars, clientVars
<1>7. ASSUME NEW x \in Runners, Wake(x)
      PROVE  QuietLedger
  BY <1>1, <1>3, <1>7, WakeEffect DEF Wake, storeVars, clientVars
<1>8. ASSUME NEW e \in queue, BecomesDue(e)
      PROVE  QuietLedger
  <2> DEFINE later == [e EXCEPT !.due = TRUE]
  <2>1. queue' = (queue \ {e}) \cup {later} /\ UNCHANGED steps
        /\ UNCHANGED <<processing, completed, failed, accepted, direct>>
    BY <1>8 DEF BecomesDue, engineVars, clientVars
  <2>2. later.task = e.task
    BY DEF IInv, TypeOK, Entry
  <2> HIDE DEF later
  <2>3. QueuedTasks' = QueuedTasks
    BY <2>1, <2>2 DEF QueuedTasks
  <2>4. QED
    BY <1>1, <1>2, <2>1, <2>3
<1>9. QED
  BY <1>4, <1>5, <1>6, <1>7, <1>8

(* A client's step moves its task: enqueue, retry_failed, cancel_task, and *)
(* an API call that executes a task of its own.                            *)
LEMMA ClientMoves ==
    ASSUME IInv, PlacesAre, PlacesAre', NEW t \in Tasks
    PROVE  /\ \A due \in BOOLEAN : Enqueue(t, due) => Ledger!Accept(t)
           /\ RetryFailed(t) => Ledger!Retry(t)
           /\ \A e \in queue : e.task = t /\ CancelQueued(e) => Ledger!Cancel(t)
           /\ \A x \in Callers : ApiExecute(x, t) => Ledger!Execute(t)
<1>1. ASSUME NEW due \in BOOLEAN, Enqueue(t, due)
      PROVE  Ledger!Accept(t)
  <2> DEFINE new == [task |-> t, due |-> due, attempt |-> 0]
  <2>1. /\ queue' = queue \cup {new} /\ accepted' = accepted \cup {t}
        /\ t \notin accepted \cup direct
        /\ UNCHANGED <<steps, processing, completed, failed, direct>>
    BY <1>1 DEF Enqueue, engineVars
  <2>2. QueuedTasks' = QueuedTasks \cup {t}
    <3>1. new.task = t
      OBVIOUS
    <3> HIDE DEF new
    <3>2. QED
      BY <2>1, <3>1 DEF QueuedTasks
  <2>3. \A u \in Tasks \ {t} : SameStores(u)
    BY <2>1, <2>2 DEF SameStores
  <2>4. PlaceOf(t) = "out" /\ PlaceOf(t)' = "queued"
    BY <2>1, <2>2 DEF PlacesAre
  <2>5. QED
    BY <2>1, <2>3, <2>4, EffectsStay, MovesOnly DEF Ledger!Accept
<1>2. ASSUME RetryFailed(t)
      PROVE  Ledger!Retry(t)
  <2> DEFINE new == [task |-> t, due |-> TRUE, attempt |-> 0]
  <2>1. /\ queue' = queue \cup {new} \/ queue' = queue
        /\ t \in failed /\ failed' = failed \ {t}
        /\ UNCHANGED <<steps, processing, completed, accepted, direct>>
    BY <1>2 DEF RetryFailed
  <2>2. QueuedTasks' = QueuedTasks \cup {t} \/ QueuedTasks' = QueuedTasks
    <3>1. new.task = t
      OBVIOUS
    <3> HIDE DEF new
    <3>2. QED
      BY <2>1, <3>1 DEF QueuedTasks
  <2>3. \A u \in Tasks \ {t} : SameStores(u)
    BY <2>1, <2>2 DEF SameStores
  <2>4. t \in accepted /\ t \notin QueuedTasks \cup processing \cup completed
    BY <2>1 DEF IInv, OnePlace, AcceptedOrDirect
  <2>5. PlaceOf(t)' \in {"queued", "dropped"}
    <3>1. CASE t \in QueuedTasks'
      BY <3>1 DEF PlacesAre
    <3>2. CASE t \notin QueuedTasks'
      <4>1. t \in accepted' /\ ~ Somewhere(t)'
        BY <2>1, <2>4, <3>2 DEF Somewhere
      <4>2. QED
        BY <4>1 DEF PlacesAre
    <3>3. QED
      BY <3>1, <3>2
  <2>6. PlaceOf(t) = "failed"
    BY <2>1 DEF PlacesAre
  <2>7. QED
    BY <2>1, <2>3, <2>5, <2>6, EffectsStay, MovesOnly DEF Ledger!Retry
<1>3. ASSUME NEW e \in queue, e.task = t, CancelQueued(e)
      PROVE  Ledger!Cancel(t)
  <2>1. queue' = queue \ {e}
        /\ UNCHANGED <<steps, processing, completed, failed, accepted, direct>>
    BY <1>3 DEF CancelQueued, clientVars
  <2>2. \A f \in queue : f # e => f.task # t
    BY <1>3 DEF IInv, OnePlace
  <2>3. QueuedTasks' = QueuedTasks \ {t} /\ t \in QueuedTasks
    BY <1>3, <2>1, <2>2 DEF QueuedTasks
  <2>4. \A u \in Tasks \ {t} : SameStores(u)
    BY <2>1, <2>3 DEF SameStores
  <2>5. t \in accepted /\ t \notin processing \cup completed \cup failed
    BY <2>3 DEF IInv, OnePlace, AcceptedOrDirect
  <2>6. t \in accepted' /\ ~ Somewhere(t)'
    BY <2>1, <2>3, <2>5 DEF Somewhere
  <2>7. PlaceOf(t) = "queued" /\ PlaceOf(t)' = "dropped"
    BY <2>3, <2>6 DEF PlacesAre
  <2>8. QED
    BY <2>1, <2>4, <2>7, EffectsStay, MovesOnly DEF Ledger!Cancel
<1>4. ASSUME NEW x \in Callers, ApiExecute(x, t)
      PROVE  Ledger!Execute(t)
  <2>1. /\ t \notin submitted /\ t \notin accepted /\ direct' = direct \cup {t}
        /\ Proceed(x, t, steps[t], 0, "in_progress", "failed")
        /\ UNCHANGED <<queue, processing, completed, failed, accepted>>
    BY <1>4 DEF ApiExecute, storeVars
  <2>2. t \notin direct
    BY <2>1 DEF IInv, CallersExecuteTheirs
  <2>3. NothingDone(t, Tries(t, 0))
    BY <2>1, <2>2 DEF IInv, WaitingTasksAreUndone
  <2>4. \A u \in Tasks : Effects(u)' = Effects(u)
    BY <2>1, <2>3, BeginEffect DEF IInv
  <2>5. \A u \in Tasks \ {t} : SameStores(u)
    BY <2>1 DEF SameStores, QueuedTasks
  <2>6. PlaceOf(t) = "out" /\ PlaceOf(t)' = "direct"
    BY <2>1, <2>2 DEF PlacesAre
  <2>7. QED
    BY <2>4, <2>5, <2>6, MovesOnly DEF Ledger!Execute
<1>5. QED
  BY <1>1, <1>2, <1>3, <1>4

(* A worker that takes, keeps or files its task touches no other.          *)
LEMMA WorkerTouchesOne ==
    ASSUME IInv, NEW w \in Workers, NEW e, NEW rest, Has(w, e, rest),
           Kept(w, e, rest) \/ Filed(w, e, rest),
           UNCHANGED <<accepted, direct>>
    PROVE  \A u \in Tasks \ {e.task} : SameStores(u)
<1> SUFFICES ASSUME NEW u \in Tasks, u # e.task
             PROVE  SameStores(u)
  OBVIOUS
<1>1. rest \subseteq queue /\ \A f \in queue : f \in rest \/ f.task = e.task
  BY HasAlone
<1>2. /\ \A f \in queue' : f \in rest \/ f.task = e.task
      /\ rest \subseteq queue'
  BY DEF Kept, Filed, Requeued
<1>3. u \in QueuedTasks' <=> u \in QueuedTasks
  BY <1>1, <1>2 DEF QueuedTasks
<1>4. /\ u \in processing' <=> u \in processing
      /\ u \in completed' <=> u \in completed
      /\ u \in failed' <=> u \in failed
  BY DEF Kept, Filed
<1>5. QED
  BY <1>3, <1>4 DEF SameStores

(* Nothing of a task that goes back to the queue, or is given up, took     *)
(* effect before the step, because nothing did after it.                   *)
LEMMA RejectMoves ==
    ASSUME PlacesAre, PlacesAre', NEW t \in Tasks,
           t \in QueuedTasks \cup processing, t \in (QueuedTasks \cup failed)',
           \A u \in Tasks \ {t} : SameStores(u) /\ Effects(u)' = Effects(u),
           Effects(t) \subseteq Effects(t)'
    PROVE  Ledger!Reject(t)
<1>1. /\ PlaceOf(t) \in {"queued", "working"} /\ PlaceOf(t)' \in {"queued", "failed"}
      /\ Effects(t)' = {}
  BY DEF PlacesAre
<1>2. Effects(t) = {}
  BY <1>1
<1>3. Ledger!Move(t, {"queued", "working"}, {"queued", "failed"})
  BY <1>1, <1>2, MovesOnly
<1>4. EffectsOf[t] = {}
  BY <1>2 DEF EffectsOf
<1>5. QED
  BY <1>3, <1>4 DEF Ledger!Reject, EffectsOf

(* A worker takes the head of the heap: a task without steps is filed at   *)
(* once, and one the engine does not know is tried again or given up.      *)
LEMMA TakeMoves ==
    ASSUME IInv, PlacesAre, PlacesAre', NEW w \in Workers, NEW e \in queue, NEW t \in Tasks,
           t = e.task
    PROVE  /\ TakeNext(w, e) => Ledger!Take(t) \/ Ledger!CompleteEmpty(t)
           /\ TakeUnknown(w, e) => Ledger!Reject(t)
<1>1. t \in QueuedTasks /\ PlaceOf(t) = "queued" /\ e \in Entry
  BY DEF QueuedTasks, PlacesAre, IInv, TypeOK
<1>2. ASSUME TakeNext(w, e)
      PROVE  Ledger!Take(t) \/ Ledger!CompleteEmpty(t)
  <2>1. /\ held[w] = NoEntry
        /\ Proceed(w, t, steps[t], 0, "in_progress", AfterFailure(e))
        /\ Follow(w, e, Popped(e))
        /\ UNCHANGED <<accepted, direct>>
    BY <1>2 DEF TakeNext, Begin, clientVars
  <2>2. Has(w, e, Popped(e))
    BY <2>1 DEF Has, Popped
  <2>3. IF exec'[w] = Idle THEN Filed(w, e, Popped(e)) ELSE Kept(w, e, Popped(e))
    BY <2>1, FollowCases
  <2>4. \A u \in Tasks \ {t} : SameStores(u)
    BY <2>1, <2>2, <2>3, WorkerTouchesOne
  <2>5. NothingDone(t, Tries(t, e.attempt))
    BY DEF IInv, WaitingTasksAreUndone
  <2>6. \A u \in Tasks : Effects(u)' = Effects(u)
    BY <2>1, <2>5, BeginEffect DEF IInv
  <2>7. CASE HasNext(t, 0)
    <3>1. exec' = [exec EXCEPT ![w] = [task |-> t, at |-> 0 + 1, asleep |-> FALSE]]
      BY <2>1, <2>7 DEF Proceed
    <3>2. exec'[w].task = t
      BY <3>1, QueueAssumption DEF IInv, TypeOK, EngineTypeOK
    <3>3. Kept(w, e, Popped(e))
      BY <2>3, <3>2, EngineAssumption DEF Idle
    <3>4. PlaceOf(t)' = "working"
      BY <3>3 DEF Kept, PlacesAre
    <3>5. QED
      BY <1>1, <2>4, <2>6, <3>4, MovesOnly DEF Ledger!Take
  <2>8. CASE ~ HasNext(t, 0)
    <3>1. StepsOf[t] = 0
      BY <2>8, StepNumbers DEF HasNext
    <3>2. /\ exec' = [exec EXCEPT ![w] = Idle]
          /\ taskStatus' = [taskStatus EXCEPT ![t] = Verdict(steps[t], AfterFailure(e))]
      BY <2>1, <2>8 DEF Proceed
    <3>3. exec'[w] = Idle /\ taskStatus'[t] = Verdict(steps[t], AfterFailure(e))
      BY <3>2, QueueAssumption DEF IInv, TypeOK, EngineTypeOK
    <3>4. \A i \in DOMAIN steps[t] : steps[t][i].status # "failed"
      BY <3>1, StepNumbers DEF IInv, TypeOK, EngineTypeOK
    <3>5. CountsAsDone(taskStatus'[t])
      BY <3>3, <3>4 DEF Verdict, CountsAsDone
    <3>6. t \in completed'
      BY <2>3, <3>3, <3>5 DEF Filed
    <3>7. PlaceOf(t)' = "completed"
      BY <3>6 DEF PlacesAre
    <3>8. QED
      BY <1>1, <2>4, <2>6, <3>1, <3>7, MovesOnly DEF Ledger!CompleteEmpty
  <2>9. QED
    BY <2>7, <2>8
<1>3. ASSUME TakeUnknown(w, e)
      PROVE  Ledger!Reject(t)
  <2>1. /\ held[w] = NoEntry
        /\ HandleFailure(e, Popped(e))
        /\ UNCHANGED <<steps, processing, completed, accepted, direct>>
    BY <1>3 DEF TakeUnknown, clientVars
  <2>2. Popped(e) = queue \ {e} /\ \A f \in queue : f # e => f.task # t
    BY DEF Popped, IInv, OnePlace
  <2>3. \/ queue' = Popped(e) \cup {Requeued(e)} /\ failed' = failed
        \/ queue' = Popped(e) /\ failed' = failed \cup {t}
    BY <2>1 DEF HandleFailure, Requeued
  <2>4. Requeued(e).task = t
    BY DEF Requeued
  <2>5. \A u \in Tasks \ {t} : SameStores(u)
    BY <2>1, <2>2, <2>3, <2>4 DEF SameStores, QueuedTasks
  <2>6. t \in QueuedTasks' \/ t \in failed'
    BY <2>3, <2>4 DEF QueuedTasks
  <2>7. \A u \in Tasks : Effects(u)' = Effects(u)
    BY <2>1, EffectsStay
  <2>8. QED
    BY <1>1, <2>5, <2>6, <2>7, RejectMoves
<1>4. QED
  BY <1>2, <1>3

(* A worker's connector call returns: the step took effect or not, and the *)
(* worker goes on, files its task, or gives it back.                       *)
LEMMA CallMoves ==
    ASSUME IInv, PlacesAre, IInv', PlacesAre', StaysCompleted,
           NEW w \in Workers, WorkerCall(w), NEW t \in Tasks, t = held[w].task
    PROVE  \/ QuietLedger \/ Ledger!Complete(t) \/ Ledger!Reject(t)
           \/ \E i \in 1..StepsOf[t] : Ledger!TakeEffect(t, i)
<1> DEFINE e == held[w]
<1>1. /\ CallSucceeds(w, AfterFailure(e)) \/ CallFails(w, AfterFailure(e))
      /\ Follow(w, e, queue)
      /\ UNCHANGED <<accepted, direct>>
  BY DEF WorkerCall, clientVars
<1>2. exec[w].task = t /\ e # NoEntry /\ e \in Entry /\ w \in Runners
  BY Places, EngineAssumption, QueueAssumption DEF IInv, WorkersExecuteWhatTheyHold
<1>3. t \in processing /\ PlaceOf(t) = "working"
  BY <1>2, Places DEF PlacesAre
<1>4. Has(w, e, queue)
  BY <1>2 DEF Has
<1>5. /\ \A u \in Tasks \ {t} : Effects(u)' = Effects(u)
      /\ \/ Effects(t)' = Effects(t)
         \/ \E i \in StepIds(t) : i \notin Effects(t) /\ Effects(t)' = Effects(t) \cup {i}
  BY <1>1, <1>2, CallEffect
<1>6. Effects(t) \subseteq Effects(t)' /\ StepIds(t) = 1..StepsOf[t]
  BY <1>5, StepNumbers
<1>7. IF exec'[w] = Idle THEN Filed(w, e, queue) ELSE Kept(w, e, queue)
  BY <1>1, FollowCases
<1>8. \A u \in Tasks \ {t} : SameStores(u)
  BY <1>1, <1>4, <1>7, WorkerTouchesOne
<1>9. /\ Place' = [Place EXCEPT ![t] = PlaceOf(t)']
      /\ EffectsOf' = [EffectsOf EXCEPT ![t] = Effects(t)']
      /\ Place[t] = "working" /\ EffectsOf[t] = Effects(t)
  BY <1>3, <1>5, <1>8, OneMoves DEF Place, EffectsOf
<1>10. CASE Kept(w, e, queue)
  <2>1. t \in processing'
    BY <1>10 DEF Kept
  <2>2. PlaceOf(t)' = "working"
    BY <2>1 DEF PlacesAre
  <2>3. Place' = Place
    BY <1>9, <2>2 DEF Place
  <2>4. CASE Effects(t)' = Effects(t)
    BY <1>9, <2>3, <2>4 DEF QuietLedger, EffectsOf
  <2>5. ASSUME NEW i \in StepIds(t), i \notin Effects(t), Effects(t)' = Effects(t) \cup {i}
        PROVE  Ledger!TakeEffect(t, i)
    BY <1>9, <2>3, <2>5 DEF Ledger!TakeEffect, Place, EffectsOf
  <2>6. QED
    BY <1>5, <1>6, <2>4, <2>5
<1>11. CASE Filed(w, e, queue) /\ CountsAsDone(taskStatus'[t])
  <2>1. t \in completed'
    BY <1>11 DEF Filed
  <2>2. exec[w].at \in StepIds(t) /\ StepsOf[t] > 0
    BY <1>2, StepNumbers, EngineAssumption DEF IInv, TypeOK, EngineTypeOK
  <2>3. PlaceOf(t)' = "completed" /\ Effects(t)' # {}
    BY <2>1, <2>2 DEF PlacesAre
  <2>4. Effects(t)' \subseteq StepIds(t)
    BY DEF Effects, StepIds
  <2>5. \E i \in 1..StepsOf[t] : Effects(t)' = Effects(t) \cup {i}
    <3>1. CASE Effects(t)' = Effects(t)
      <4>1. PICK i \in StepIds(t) : i \in Effects(t)
        BY <2>3, <2>4, <3>1
      <4>2. QED
        BY <1>6, <3>1, <4>1
    <3>2. QED
      BY <1>5, <1>6, <3>1
  <2>6. QED
    BY <1>9, <2>3, <2>5 DEF Ledger!Complete, Place, EffectsOf
<1>12. CASE Filed(w, e, queue) /\ ~ CountsAsDone(taskStatus'[t])
  <2>1. Requeued(e).task = t
    BY DEF Requeued
  <2>2. t \in QueuedTasks' \/ t \in failed'
    BY <1>12, <2>1 DEF Filed, QueuedTasks
  <2>3. QED
    BY <1>3, <1>5, <1>6, <1>8, <2>2, RejectMoves
<1>13. QED
  BY <1>7, <1>10, <1>11, <1>12

(* So does an API call, in a task that stays where it is.                  *)
LEMMA ApiCallMoves ==
    ASSUME IInv, PlacesAre, NEW x \in Callers, ApiCall(x), NEW t \in Tasks, t = exec[x].task
    PROVE  QuietLedger \/ \E i \in 1..StepsOf[t] : Ledger!TakeEffect(t, i)
<1>1. /\ CallSucceeds(x, "failed") \/ CallFails(x, "failed")
      /\ UNCHANGED <<queue, processing, completed, failed, accepted, direct>>
  BY DEF ApiCall, storeVars, clientVars
<1>2. x \in Runners /\ t \in direct
  BY QueueAssumption, EngineAssumption DEF IInv, CallersExecuteTheirs, Busy
<1>3. /\ \A u \in Tasks \ {t} : Effects(u)' = Effects(u)
      /\ \/ Effects(t)' = Effects(t)
         \/ \E i \in StepIds(t) : i \notin Effects(t) /\ Effects(t)' = Effects(t) \cup {i}
  BY <1>1, <1>2, CallEffect
<1>4. \A u \in Tasks : SameStores(u)
  BY <1>1 DEF SameStores, QueuedTasks
<1>5. Place' = Place
  BY <1>4, PlaceStays DEF Place
<1>6. /\ EffectsOf' = [EffectsOf EXCEPT ![t] = Effects(t)']
      /\ Place[t] = "direct" /\ EffectsOf[t] = Effects(t)
  BY <1>2, <1>3 DEF Place, EffectsOf, PlacesAre
<1>7. CASE Effects(t)' = Effects(t)
  BY <1>5, <1>6, <1>7 DEF QuietLedger, EffectsOf
<1>8. ASSUME NEW i \in StepIds(t), i \notin Effects(t), Effects(t)' = Effects(t) \cup {i}
      PROVE  Ledger!TakeEffect(t, i)
  BY <1>5, <1>6, <1>8 DEF Ledger!TakeEffect, Place, EffectsOf
<1>9. QED
  BY <1>3, <1>7, <1>8, StepNumbers

LEMMA LedgerInit == Init => Ledger!Init
<1> SUFFICES ASSUME Init PROVE Ledger!Init
  OBVIOUS
<1>1. /\ queue = {} /\ processing = {} /\ completed = {} /\ failed = {}
      /\ accepted = {} /\ direct = {}
      /\ \A t \in Tasks : \A i \in StepIds(t) : steps[t][i].status = "pending"
  BY DEF Init, EngineInit, Fresh
<1>2. \A t \in Tasks : PlaceOf(t) = "out" /\ Effects(t) = {}
  BY <1>1 DEF PlaceOf, QueuedTasks, Effects
<1>3. QED
  BY <1>2 DEF Ledger!Init, Place, EffectsOf

LEMMA LedgerNext ==
    IInv /\ PlacesAre /\ PlacesAre' /\ [Next]_vars => [Ledger!Next]_(Ledger!ledgerVars)
<1> SUFFICES ASSUME IInv, PlacesAre, PlacesAre', [Next]_vars
             PROVE  Ledger!Next \/ UNCHANGED Ledger!ledgerVars
  OBVIOUS
<1>1. IInv' /\ StaysCompleted
  BY NextInv
<1>2. ASSUME QuietLedger
      PROVE  UNCHANGED Ledger!ledgerVars
  BY <1>2, QuietLedgerIsStutter
<1>3. ASSUME NEW w \in Workers, NEW e \in queue, TakeNext(w, e) \/ TakeUnknown(w, e)
      PROVE  Ledger!Next
  <2>1. e.task \in Tasks
    BY DEF IInv, TypeOK, Entry
  <2>2. PICK t \in Tasks : t = e.task
    BY <2>1
  <2>3. Ledger!Take(t) \/ Ledger!CompleteEmpty(t) \/ Ledger!Reject(t)
    BY <1>3, <2>2, TakeMoves
  <2>4. QED
    BY <2>3 DEF Ledger!Next
<1>4. ASSUME NEW w \in Workers, WorkerCall(w)
      PROVE  Ledger!Next \/ QuietLedger
  <2>1. exec[w].task # NoTask
    BY <1>4 DEF WorkerCall, CallSucceeds, CallFails
  <2>2. held[w].task \in Tasks
    BY <2>1, Places DEF IInv, WorkersExecuteWhatTheyHold, Entry
  <2>3. PICK t \in Tasks : t = held[w].task
    BY <2>2
  <2>4. QED
    BY <1>1, <1>4, <2>3, CallMoves DEF Ledger!Next
<1>5. ASSUME NEW x \in Callers, ApiCall(x)
      PROVE  Ledger!Next \/ QuietLedger
  <2>1. exec[x].task # NoTask /\ x \in Runners
    BY <1>5, QueueAssumption DEF ApiCall, CallSucceeds, CallFails
  <2>2. exec[x].task \in Tasks
    BY <2>1 DEF IInv, TypeOK, EngineTypeOK
  <2>3. PICK t \in Tasks : t = exec[x].task
    BY <2>2
  <2>4. QED
    BY <1>5, <2>3, ApiCallMoves DEF Ledger!Next
<1>6. ASSUME NEW t \in Tasks,
             \/ RetryFailed(t) \/ \E due \in BOOLEAN : Enqueue(t, due)
             \/ \E x \in Callers : ApiExecute(x, t)
             \/ \E e \in queue : e.task = t /\ CancelQueued(e)
      PROVE  Ledger!Next
  BY <1>6, ClientMoves DEF Ledger!Next
<1>7. ASSUME NEW e \in queue, CancelQueued(e)
      PROVE  Ledger!Next
  <2>1. e.task \in Tasks
    BY DEF IInv, TypeOK, Entry
  <2>2. QED
    BY <1>6, <1>7, <2>1
<1>8. ASSUME \/ UNCHANGED vars \/ Start \/ Stop
             \/ \E t \in Tasks : Submit(t) \/ CancelSubmitted(t)
             \/ \E x \in Runners : Wake(x)
             \/ \E w \in Workers : WorkerEnds(w)
             \/ \E e \in queue : BecomesDue(e)
      PROVE  QuietLedger
  BY <1>8, QuietStoreSteps
<1>9. CASE UNCHANGED vars
  BY <1>2, <1>8, <1>9
<1>10. CASE Next
  <2>1. ASSUME NEW w \in Workers, Worker(w)
        PROVE  Ledger!Next \/ QuietLedger
    BY <1>3, <1>4, <1>8, <2>1 DEF Worker
  <2>2. QED
    BY <1>2, <1>5, <1>6, <1>7, <1>8, <1>10, <2>1 DEF Next
<1>11. QED
  BY <1>9, <1>10

(* For any tasks, workers, callers and limits, the queue, its workers and  *)
(* the engine implement the ledger: a task is tried again or given up only *)
(* while nothing of it took effect, its effects come one at a time and are *)
(* never repeated, and a completed or cancelled task is final              *)
(* (queue.py:185-389, engine.py:225-297).                                  *)
THEOREM QueueImplementsLedger == Spec => ImplementsLedger
<1>1. Spec => []PlacesAre
  BY Invariant, InvPlaces, PTL
<1>2. QED
  BY LedgerInit, LedgerNext, Invariant, <1>1, PTL DEF Spec, ImplementsLedger, Ledger!Spec
=============================================================================
