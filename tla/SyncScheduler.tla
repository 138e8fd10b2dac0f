---------------------------- MODULE SyncScheduler ----------------------------
(***************************************************************************)
(* The synchronisation scheduler: src/core/scheduler/sync_scheduler.py.    *)
(*                                                                         *)
(* One event loop runs the scheduler's loop, a task for each run the loop  *)
(* starts, and the callers of run_job_now, who run a job in their own      *)
(* coroutine.  A run suspends in one place, wait_for around the handler,   *)
(* which may return, raise or time out.  The scheduler's loop suspends     *)
(* only in its sleep, so a pass is one step; how long 30 seconds are       *)
(* beside an interval is left open.                                        *)
(***************************************************************************)
EXTENDS Integers, FiniteSets

CONSTANTS
    Jobs,           \* identifiers, never used twice
    Priority,       \* JobPriority of each job
    MaxConcurrent,  \* max_concurrent_jobs
    MaxCalls        \* bound: callers of run_job_now suspended at once, per job

ASSUME JobsAssumption == IsFiniteSet(Jobs)
ASSUME PriorityAssumption == Priority \in [Jobs -> Nat]
ASSUME LimitsAssumption == MaxConcurrent \in Nat \ {0} /\ MaxCalls \in Nat

VARIABLES
    place,      \* whether a job is in self.jobs
    status,     \* its JobStatus
    handled,    \* whether sync_handlers knows its sync type
    recurring,  \* is_recurring
    due,        \* next_run <= now
    open,       \* run_count - success_count - failure_count
    table,      \* running_jobs: the copy of a job's task it names, or 0
    tasks,      \* tasks of _execute_job, two copies for each job
    calls,      \* callers of run_job_now suspended in _execute_job
    running     \* _running, and with it the scheduler's loop

setup == <<place, handled, recurring>>
runs == <<table, tasks, calls>>
vars == <<place, status, handled, recurring, due, open, table, tasks, calls, running>>

-----------------------------------------------------------------------------

(* A job that is deleted stays an object that its runs refer to.           *)
Places == {"absent", "present", "deleted"}
JobStatus == {"scheduled", "running", "paused"}

Copies == 1..2
TaskState == {"idle", "created", "waiting", "cancelling"}
Outcomes == {"returns", "raises", "times_out"}

Present(j) == place[j] = "present"
Begun(j) == {k \in Copies : tasks[j][k] \in {"waiting", "cancelling"}}
Alive(j) == {k \in Copies : tasks[j][k] # "idle"}

TypeOK ==
    /\ place \in [Jobs -> Places]
    /\ status \in [Jobs -> JobStatus]
    /\ handled \in [Jobs -> BOOLEAN]
    /\ recurring \in [Jobs -> BOOLEAN]
    /\ due \in [Jobs -> BOOLEAN]
    /\ open \in [Jobs -> Nat]
    /\ table \in [Jobs -> 0..2]
    /\ tasks \in [Jobs -> [Copies -> TaskState]]
    /\ calls \in [Jobs -> 0..MaxCalls]
    /\ running \in BOOLEAN

Init ==
    /\ place = [j \in Jobs |-> "absent"]
    /\ status = [j \in Jobs |-> "scheduled"]
    /\ handled = [j \in Jobs |-> TRUE]
    /\ recurring = [j \in Jobs |-> TRUE]
    /\ due = [j \in Jobs |-> FALSE]
    /\ open = [j \in Jobs |-> 0]
    /\ table = [j \in Jobs |-> 0]
    /\ tasks = [j \in Jobs |-> [k \in Copies |-> "idle"]]
    /\ calls = [j \in Jobs |-> 0]
    /\ running = FALSE

-----------------------------------------------------------------------------

CreateJob(j) ==
    /\ place[j] = "absent"
    /\ place' = [place EXCEPT ![j] = "present"]
    /\ \E known \in BOOLEAN : handled' = [handled EXCEPT ![j] = known]
    /\ UNCHANGED <<status, recurring, due, open, runs, running>>

(* update_job of the configuration that a run or a pass looks at: the sync *)
(* type and is_recurring.  Priorities stay as they are; status and next_run*)
(* are the scheduler's to set.                                             *)
UpdateJob(j) ==
    /\ Present(j)
    /\ \E known, again \in BOOLEAN :
        /\ handled' = [handled EXCEPT ![j] = known]
        /\ recurring' = [recurring EXCEPT ![j] = again]
    /\ UNCHANGED <<place, status, due, open, runs, running>>

(* What cancel() makes of the task the table names: one that has not begun *)
(* never will, one that is done stays done.                                *)
Cancelled(state) ==
    IF state = "created" THEN "idle" ELSE IF state = "waiting" THEN "cancelling" ELSE state

DeleteJob(j) ==
    /\ Present(j)
    /\ place' = [place EXCEPT ![j] = "deleted"]
    /\ tasks' = [tasks EXCEPT ![j] =
           [k \in Copies |-> IF k = table[j] THEN Cancelled(tasks[j][k]) ELSE tasks[j][k]]]
    /\ UNCHANGED <<status, handled, recurring, due, open, table, calls, running>>

PauseJob(j) ==
    /\ Present(j)
    /\ status' = [status EXCEPT ![j] = "paused"]
    /\ UNCHANGED <<setup, due, open, runs, running>>

ResumeJob(j) ==
    /\ Present(j)
    /\ status[j] = "paused"
    /\ status' = [status EXCEPT ![j] = "scheduled"]
    /\ due' = [due EXCEPT ![j] = FALSE]
    /\ UNCHANGED <<setup, open, runs, running>>

-----------------------------------------------------------------------------

(* The first part of _execute_job, to the await: a sync type without a     *)
(* handler raises before the run suspends, and the run is over.            *)
RunBegins(j) ==
    \/ /\ handled[j]
       /\ status' = [status EXCEPT ![j] = "running"]
       /\ open' = [open EXCEPT ![j] = @ + 1]
       /\ UNCHANGED due
    \/ /\ ~ handled[j]
       /\ status' = [status EXCEPT ![j] = "scheduled"]
       /\ due' = [due EXCEPT ![j] = @ /\ ~ recurring[j]]
       /\ UNCHANGED open

\* The status a run leaves, whatever it found.
StatusAfter(j, outcome) == "scheduled"

\* Mutant of OpenAfter: the branch for a timeout counts no failure.
OpenUnlessLate(j, outcome) == IF outcome = "times_out" THEN open[j] ELSE open[j] - 1
\* Mutant of OpenAfter: the finally clause counts once more.
OpenTwice(j, outcome) == open[j] - 2
\* One success or one failure is counted.
OpenAfter(j, outcome) == open[j] - 1

(* The rest of it, with a result, an error or a timeout.                   *)
RunEnds(j, outcome) ==
    /\ status' = [status EXCEPT ![j] = StatusAfter(j, outcome)]
    /\ open' = [open EXCEPT ![j] = OpenAfter(j, outcome)]
    /\ due' = [due EXCEPT ![j] = @ /\ ~ recurring[j]]

RunJobNow(j) ==
    /\ Present(j)
    /\ calls[j] < MaxCalls
    /\ RunBegins(j)
    /\ calls' = [calls EXCEPT ![j] = IF handled[j] THEN @ + 1 ELSE @]
    /\ UNCHANGED <<setup, table, tasks, running>>

CallEnds(j, outcome) ==
    /\ calls[j] > 0
    /\ RunEnds(j, outcome)
    /\ calls' = [calls EXCEPT ![j] = @ - 1]
    /\ UNCHANGED <<setup, table, tasks, running>>

TaskBegins(j, k) ==
    /\ tasks[j][k] = "created"
    /\ RunBegins(j)
    /\ tasks' = [tasks EXCEPT ![j][k] = IF handled[j] THEN "waiting" ELSE "idle"]
    /\ UNCHANGED <<setup, table, calls, running>>

(* wait_for hands over a result that is there already when the cancellation*)
(* arrives, so a cancelled run may still end like any other.               *)
TaskEnds(j, k, outcome) ==
    /\ k \in Begun(j)
    /\ RunEnds(j, outcome)
    /\ tasks' = [tasks EXCEPT ![j][k] = "idle"]
    /\ UNCHANGED <<setup, table, calls, running>>

(* CancelledError is no Exception: only the finally clause runs.           *)
TaskCancelled(j, k) ==
    /\ tasks[j][k] = "cancelling"
    /\ due' = [due EXCEPT ![j] = @ /\ ~ recurring[j]]
    /\ tasks' = [tasks EXCEPT ![j][k] = "idle"]
    /\ UNCHANGED <<setup, status, open, table, calls, running>>

-----------------------------------------------------------------------------

Start ==
    /\ ~ running
    /\ running' = TRUE
    /\ UNCHANGED <<setup, status, due, open, runs>>

(* stop ends the loop and no run; a loop that a start adds meanwhile is the*)
(* only one that goes on.                                                  *)
Stop ==
    /\ running
    /\ running' = FALSE
    /\ UNCHANGED <<setup, status, due, open, runs>>

DueJobs == {j \in Jobs : Present(j) /\ status[j] = "scheduled" /\ due[j]}
Tabled == {j \in Jobs : table[j] # 0}
Startable == DueJobs \ Tabled

(* running_count counts the entries of the table, done or not.             *)
\* Mutant of Room: it counts the jobs that have begun.
RoomByStatus == MaxConcurrent - Cardinality({j \in Jobs : status[j] = "running"})
Room == MaxConcurrent - Cardinality(Tabled)

(* What a pass may start: all that is startable or as much as there is     *)
(* room for, higher priorities first.                                      *)
Startings ==
    {chosen \in SUBSET Startable :
        /\ Cardinality(chosen) <= Room
        /\ Cardinality(chosen) < Room => chosen = Startable
        /\ \A j \in chosen, other \in Startable \ chosen : Priority[j] >= Priority[other]}

FreeCopy(j) == CHOOSE k \in Copies : tasks[j][k] = "idle"

(* task.done() of the task the table names for a job.                      *)
\* Mutant of EntryDone: it asks the job, which another run may have reset.
EntryIdle(j) == table[j] # 0 /\ status[j] = "scheduled"
\* Mutant of EntryDone: entries of deleted jobs are left behind.
EntryEnded(j) == table[j] # 0 /\ Present(j) /\ tasks[j][table[j]] = "idle"
EntryDone(j) == table[j] # 0 /\ tasks[j][table[j]] = "idle"

(* One pass of _scheduler_loop: it starts what is due, then it forgets the *)
(* tasks that are done.                                                    *)
LoopPass ==
    /\ running
    /\ \E started \in Startings :
        /\ table' = [j \in Jobs |-> IF j \in started THEN FreeCopy(j)
                                    ELSE IF EntryDone(j) THEN 0 ELSE table[j]]
        /\ tasks' = [j \in Jobs |-> IF j \in started
                                    THEN [tasks[j] EXCEPT ![FreeCopy(j)] = "created"]
                                    ELSE tasks[j]]
    /\ UNCHANGED <<setup, status, due, open, calls, running>>

(* The clock reaches the next run of a job.                                *)
BecomesDue(j) ==
    /\ Present(j)
    /\ ~ due[j]
    /\ due' = [due EXCEPT ![j] = TRUE]
    /\ UNCHANGED <<setup, status, open, runs, running>>

CallProgress(j) == \E outcome \in Outcomes : CallEnds(j, outcome)
TaskProgress(j, k) ==
    \/ TaskBegins(j, k)
    \/ TaskCancelled(j, k)
    \/ \E outcome \in Outcomes : TaskEnds(j, k, outcome)

Next ==
    \/ \E j \in Jobs :
        \/ CreateJob(j) \/ UpdateJob(j) \/ DeleteJob(j)
        \/ PauseJob(j) \/ ResumeJob(j)
        \/ RunJobNow(j) \/ BecomesDue(j)
        \/ CallProgress(j)
        \/ \E k \in Copies : TaskProgress(j, k)
    \/ Start \/ Stop \/ LoopPass

Spec == Init /\ [][Next]_vars

(* The loop keeps passing while it runs; the event loop resumes what is    *)
(* ready, and wait_for ends every run.                                     *)
FairSpec ==
    /\ Spec
    /\ WF_vars(LoopPass)
    /\ \A j \in Jobs : WF_vars(CallProgress(j))
    /\ \A j \in Jobs, k \in Copies : WF_vars(TaskProgress(j, k))

-----------------------------------------------------------------------------

(* The scheduler never runs a job beside a run it started itself, although *)
(* the status of a job says "scheduled" again as soon as any other run of  *)
(* it ends or it is resumed (sync_scheduler.py:244, 300, 378): an unfinished *)
(* task is the one running_jobs names.                                     *)
ScheduledRunsDoNotOverlap ==
    \A j \in Jobs : \A k \in Alive(j) : table[j] = k

(* The loop keeps to max_concurrent_jobs over restarts, deletions and tasks*)
(* that have not begun yet (sync_scheduler.py:373-381).                    *)
ConcurrencyIsLimited ==
    Cardinality({t \in Jobs \X Copies : t[2] \in Alive(t[1])}) <= MaxConcurrent

(* A job is never stuck in RUNNING: some run of it is still going, and will*)
(* set the status back; no loop would start it otherwise                   *)
(* (sync_scheduler.py:282, 300, 312, 321, 364).                            *)
RunningJobsRun ==
    \A j \in Jobs : Present(j) /\ status[j] = "running" => calls[j] > 0 \/ Begun(j) # {}

(* The counters of a job account for each of its runs exactly once, also   *)
(* when runs of it overlap (sync_scheduler.py:283, 301, 313, 322).         *)
RunsAreCounted ==
    \A j \in Jobs : Present(j) => open[j] = calls[j] + Cardinality(Begun(j))

(* The loop's runs as RunSlots.tla sees them; an unfinished task that the  *)
(* table does not name has no counterpart there.                           *)
RunOf(j) ==
    CASE Alive(j) = {} -> "idle"
      [] Alive(j) = {table[j]} -> tasks[j][table[j]]
      [] OTHER -> "unlisted"

Slots == INSTANCE RunSlots WITH known <- place, run <- [j \in Jobs |-> RunOf(j)]

(* Whatever is run by hand, paused, resumed, updated or deleted beside it, *)
(* the loop takes a slot for each run it starts and has one run of a job   *)
(* at a time; a task of a deleted job never begins, and a cancelled one    *)
(* never goes on (sync_scheduler.py:220-230, 370-389).                     *)
ImplementsRunSlots == Slots!Spec

(* A due job that fewer than max_concurrent_jobs others rival in priority  *)
(* is started, however the slots were used before: by runs that ended, were*)
(* cancelled, or by jobs that are deleted (sync_scheduler.py:370-389).     *)
Unrivalled(j) ==
    Cardinality({i \in Jobs \ {j} : Priority[i] >= Priority[j]}) < MaxConcurrent
DueJobsRun ==
    \A j \in Jobs : Unrivalled(j) =>
        ((running /\ j \in DueJobs) ~> (~ running \/ j \notin DueJobs \/ Alive(j) # {}))

=============================================================================
