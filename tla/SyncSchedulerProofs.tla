------------------------- MODULE SyncSchedulerProofs -------------------------
(***************************************************************************)
(* What SyncScheduler guarantees for any set of jobs, any priorities and   *)
(* any limit.  The inductive invariant says that an unfinished task is the *)
(* one the table names, that the table has no more entries than the limit, *)
(* that only runs of deleted jobs are cancelled, and how the counters of a *)
(* job relate to its runs.  From it follows that the loop implements       *)
(* RunSlots.                                                               *)
(***************************************************************************)
EXTENDS SyncScheduler, FiniteSetTheorems, TLAPS

CancelledAreDeleted ==
    \A j \in Jobs, k \in Copies : tasks[j][k] = "cancelling" => place[j] = "deleted"

DeletedDoNotBegin ==
    \A j \in Jobs, k \in Copies : place[j] = "deleted" => tasks[j][k] # "created"

TableIsLimited == Cardinality(Tabled) <= MaxConcurrent

(* The number of unfinished tasks that began: one at most, so the counters *)
(* need no cardinality.                                                    *)
Load(j) == IF Begun(j) = {} THEN 0 ELSE 1

Balance ==
    \A j \in Jobs : IF place[j] = "deleted"
                    THEN open[j] \in {calls[j] + Load(j), calls[j] + 1}
                    ELSE open[j] = calls[j] + Load(j)

(* RunningJobsRun, for a job that is still to be created as well.          *)
RunningRun ==
    \A j \in Jobs : place[j] # "deleted" /\ status[j] = "running" => calls[j] > 0 \/ Begun(j) # {}

IInv ==
    /\ TypeOK
    /\ ScheduledRunsDoNotOverlap
    /\ CancelledAreDeleted
    /\ DeletedDoNotBegin
    /\ TableIsLimited
    /\ Balance
    /\ RunningRun

(* The initial state satisfies the inductive invariant.                    *)
LEMMA InitInv == Init => IInv
<1> SUFFICES ASSUME Init PROVE IInv
  OBVIOUS
<1>1. TypeOK
  <2>1. handled \in [Jobs -> BOOLEAN] /\ recurring \in [Jobs -> BOOLEAN] /\ due \in [Jobs -> BOOLEAN]
    BY DEF Init
  <2>2. /\ open \in [Jobs -> Nat] /\ table \in [Jobs -> 0..2] /\ calls \in [Jobs -> 0..MaxCalls]
        /\ status \in [Jobs -> JobStatus] /\ place \in [Jobs -> Places]
    BY LimitsAssumption DEF Init, JobStatus, Places
  <2>3. tasks \in [Jobs -> [Copies -> TaskState]] /\ running \in BOOLEAN
    BY DEF Init, TaskState
  <2>4. QED
    BY <2>1, <2>2, <2>3 DEF TypeOK
<1>2. ScheduledRunsDoNotOverlap /\ CancelledAreDeleted /\ DeletedDoNotBegin /\ RunningRun
  BY DEF Init, ScheduledRunsDoNotOverlap, Alive, CancelledAreDeleted, DeletedDoNotBegin, RunningRun
<1>3. TableIsLimited
  <2>1. Tabled = {}
    BY DEF Init, Tabled
  <2>2. QED
    BY <2>1, FS_EmptySet, LimitsAssumption DEF TableIsLimited
<1>4. Balance
  <2>1. \A j \in Jobs : Begun(j) = {}
    BY DEF Init, Begun
  <2>2. QED
    BY <2>1 DEF Init, Balance, Load
<1>5. QED
  BY <1>1, <1>2, <1>3, <1>4 DEF IInv

(* A caller of run_job_now or a task that began is behind each open run.   *)
LEMMA OpenRuns ==
    ASSUME TypeOK, Balance, NEW j \in Jobs, calls[j] > 0 \/ Begun(j) # {}
    PROVE  open[j] - 1 \in Nat
<1>1. open[j] \in Nat /\ calls[j] \in Nat
  BY LimitsAssumption DEF TypeOK
<1>2. Load(j) \in {0, 1} /\ (Begun(j) # {} => Load(j) = 1)
  BY DEF Load
<1>3. open[j] >= calls[j] + Load(j)
  BY <1>1, <1>2 DEF Balance
<1>4. QED
  BY <1>1, <1>2, <1>3

(* A pass starts only jobs all of whose tasks are done and forgotten.      *)
LEMMA StartedAreIdle ==
    ASSUME TypeOK, ScheduledRunsDoNotOverlap, NEW started \in Startings, NEW j \in started
    PROVE  /\ j \in Jobs /\ place[j] = "present"
           /\ table[j] = 0
           /\ \A k \in Copies : tasks[j][k] = "idle"
           /\ FreeCopy(j) \in Copies
<1>1. j \in Jobs /\ place[j] = "present" /\ table[j] = 0
  BY DEF Startings, Startable, DueJobs, Tabled, Present
<1>2. \A k \in Copies : tasks[j][k] = "idle"
  BY <1>1 DEF ScheduledRunsDoNotOverlap, Alive, Copies
<1>3. 1 \in Copies
  BY DEF Copies
<1>4. QED
  BY <1>1, <1>2, <1>3 DEF FreeCopy

(* The start and the end of a run keep the fields they write typed.        *)
LEMMA RunTypes ==
    ASSUME TypeOK, Balance, NEW j \in Jobs,
           \/ RunBegins(j)
           \/ (calls[j] > 0 \/ Begun(j) # {}) /\ \E outcome \in Outcomes : RunEnds(j, outcome)
    PROVE  /\ status' \in [Jobs -> JobStatus]
           /\ due' \in [Jobs -> BOOLEAN]
           /\ open' \in [Jobs -> Nat]
<1>1. CASE RunBegins(j)
  <2>1. status' \in [Jobs -> JobStatus]
    BY <1>1 DEF TypeOK, RunBegins, JobStatus
  <2>4. open' \in [Jobs -> Nat]
    <3>1. open' = open \/ open' = [open EXCEPT ![j] = @ + 1]
      BY <1>1 DEF RunBegins
    <3>2. QED
      BY <3>1 DEF TypeOK
  <2>2. due' \in [Jobs -> BOOLEAN]
    BY <1>1 DEF TypeOK, RunBegins
  <2>3. QED
    BY <2>1, <2>2, <2>4
<1>2. CASE \E outcome \in Outcomes : (calls[j] > 0 \/ Begun(j) # {}) /\ RunEnds(j, outcome)
  BY <1>2, OpenRuns DEF TypeOK, RunEnds, StatusAfter, OpenAfter, JobStatus
<1>3. QED
  BY <1>1, <1>2

(* Every step keeps every variable typed.                                  *)
LEMMA TypeNext ==
    ASSUME TypeOK, Balance, ScheduledRunsDoNotOverlap, [Next]_vars
    PROVE  TypeOK'
<1>1. ASSUME NEW j \in Jobs,
             CreateJob(j) \/ UpdateJob(j) \/ PauseJob(j) \/ ResumeJob(j) \/ BecomesDue(j)
      PROVE  TypeOK'
  BY <1>1 DEF TypeOK, CreateJob, UpdateJob, PauseJob, ResumeJob, BecomesDue,
              setup, runs, Places, JobStatus
<1>2. ASSUME NEW j \in Jobs, DeleteJob(j)
      PROVE  TypeOK'
  BY <1>2 DEF TypeOK, DeleteJob, Cancelled, TaskState, Places
<1>3. ASSUME NEW j \in Jobs, RunJobNow(j)
      PROVE  TypeOK'
  <2>1. calls' \in [Jobs -> 0..MaxCalls]
    BY <1>3, LimitsAssumption DEF TypeOK, RunJobNow
  <2>2. QED
    BY <1>3, <2>1, RunTypes DEF TypeOK, RunJobNow, setup
<1>4. ASSUME NEW j \in Jobs, NEW outcome \in Outcomes, CallEnds(j, outcome)
      PROVE  TypeOK'
  <2>1. calls' \in [Jobs -> 0..MaxCalls]
    BY <1>4, LimitsAssumption DEF TypeOK, CallEnds
  <2>2. QED
    BY <1>4, <2>1, RunTypes DEF TypeOK, CallEnds, setup
<1>5. ASSUME NEW j \in Jobs, NEW k \in Copies, TaskBegins(j, k)
      PROVE  TypeOK'
  <2>1. tasks' \in [Jobs -> [Copies -> TaskState]]
    BY <1>5 DEF TypeOK, TaskBegins, TaskState
  <2>2. QED
    BY <1>5, <2>1, RunTypes DEF TypeOK, TaskBegins, setup
<1>6. ASSUME NEW j \in Jobs, NEW k \in Copies, NEW outcome \in Outcomes, TaskEnds(j, k, outcome)
      PROVE  TypeOK'
  <2>1. tasks' \in [Jobs -> [Copies -> TaskState]]
    BY <1>6 DEF TypeOK, TaskEnds, TaskState
  <2>2. QED
    BY <1>6, <2>1, RunTypes DEF TypeOK, TaskEnds, setup
<1>7. ASSUME NEW j \in Jobs, NEW k \in Copies, TaskCancelled(j, k)
      PROVE  TypeOK'
  BY <1>7 DEF TypeOK, TaskCancelled, setup, TaskState
<1>8. CASE LoopPass
  <2>1. PICK started \in Startings :
          /\ table' = [j \in Jobs |-> IF j \in started THEN FreeCopy(j)
                                      ELSE IF EntryDone(j) THEN 0 ELSE table[j]]
          /\ tasks' = [j \in Jobs |-> IF j \in started
                                      THEN [tasks[j] EXCEPT ![FreeCopy(j)] = "created"]
                                      ELSE tasks[j]]
    BY <1>8 DEF LoopPass
  <2>2. table' \in [Jobs -> 0..2]
    BY <2>1, StartedAreIdle DEF TypeOK, Copies
  <2>3. tasks' \in [Jobs -> [Copies -> TaskState]]
    BY <2>1, StartedAreIdle DEF TypeOK, TaskState
  <2>4. QED
    BY <1>8, <2>2, <2>3 DEF TypeOK, LoopPass, setup
<1>9. CASE Start \/ Stop \/ UNCHANGED vars
  BY <1>9 DEF TypeOK, Start, Stop, vars, setup, runs
<1>10. QED
  BY <1>1, <1>2, <1>3, <1>4, <1>5, <1>6, <1>7, <1>8, <1>9
  DEF Next, CallProgress, TaskProgress

(* No step makes a second task of a job, nor loses the entry of one that   *)
(* is not done.                                                            *)
LEMMA OverlapNext ==
    ASSUME TypeOK, ScheduledRunsDoNotOverlap, [Next]_vars
    PROVE  ScheduledRunsDoNotOverlap'
<1> SUFFICES ASSUME NEW i \in Jobs, NEW c \in Copies, tasks'[i][c] # "idle"
             PROVE  table'[i] = c
  BY DEF ScheduledRunsDoNotOverlap, Alive
<1>1. ASSUME tasks[i][c] # "idle", table'[i] = table[i]
      PROVE  table'[i] = c
  BY <1>1 DEF ScheduledRunsDoNotOverlap, Alive
<1>2. ASSUME NEW j \in Jobs,
             \/ CreateJob(j) \/ UpdateJob(j) \/ PauseJob(j) \/ ResumeJob(j) \/ BecomesDue(j)
             \/ RunJobNow(j) \/ CallProgress(j)
      PROVE  table'[i] = c
  BY <1>1, <1>2 DEF CreateJob, UpdateJob, PauseJob, ResumeJob, BecomesDue,
                    RunJobNow, CallProgress, CallEnds, runs
<1>3. ASSUME NEW j \in Jobs, DeleteJob(j)
      PROVE  table'[i] = c
  <2>1. tasks[i][c] # "idle"
    BY <1>3 DEF DeleteJob, Cancelled, TypeOK
  <2>2. QED
    BY <1>1, <1>3, <2>1 DEF DeleteJob
<1>4. ASSUME NEW j \in Jobs, NEW k \in Copies, TaskProgress(j, k)
      PROVE  table'[i] = c
  <2>1. tasks[j][k] # "idle"
    BY <1>4 DEF TaskProgress, TaskBegins, TaskEnds, TaskCancelled, Begun
  <2>2. tasks' = [tasks EXCEPT ![j][k] = "idle"] \/ tasks' = [tasks EXCEPT ![j][k] = "waiting"]
    BY <1>4 DEF TaskProgress, TaskBegins, TaskEnds, TaskCancelled
  <2>3. tasks[i][c] # "idle"
    BY <2>1, <2>2 DEF TypeOK
  <2>4. table' = table
    BY <1>4 DEF TaskProgress, TaskBegins, TaskEnds, TaskCancelled
  <2>5. QED
    BY <1>1, <2>3, <2>4
<1>5. CASE LoopPass
  <2>1. PICK started \in Startings :
          /\ table' = [j \in Jobs |-> IF j \in started THEN FreeCopy(j)
                                      ELSE IF EntryDone(j) THEN 0 ELSE table[j]]
          /\ tasks' = [j \in Jobs |-> IF j \in started
                                      THEN [tasks[j] EXCEPT ![FreeCopy(j)] = "created"]
                                      ELSE tasks[j]]
    BY <1>5 DEF LoopPass
  <2>2. CASE i \in started
    <3>1. tasks[i][c] = "idle" /\ FreeCopy(i) \in Copies /\ tasks[i] \in [Copies -> TaskState]
      BY <2>2, StartedAreIdle DEF TypeOK
    <3>2. c = FreeCopy(i)
      BY <2>1, <2>2, <3>1
    <3>3. QED
      BY <2>1, <2>2, <3>2
  <2>3. CASE i \notin started
    <3>1. tasks[i][c] # "idle"
      BY <2>1, <2>3
    <3>2. table[i] = c
      BY <3>1 DEF ScheduledRunsDoNotOverlap, Alive
    <3>3. ~ EntryDone(i)
      BY <3>1, <3>2 DEF EntryDone
    <3>4. QED
      BY <2>1, <2>3, <3>2, <3>3
  <2>4. QED
    BY <2>2, <2>3
<1>6. CASE Start \/ Stop \/ UNCHANGED vars
  BY <1>1, <1>6 DEF Start, Stop, vars, runs
<1>7. QED
  BY <1>2, <1>3, <1>4, <1>5, <1>6 DEF Next

(* Only the runs of deleted jobs are cancelled, and such a job begins none.*)
LEMMA DeletedNext ==
    ASSUME TypeOK, ScheduledRunsDoNotOverlap, CancelledAreDeleted, DeletedDoNotBegin, [Next]_vars
    PROVE  CancelledAreDeleted' /\ DeletedDoNotBegin'
<1> SUFFICES ASSUME NEW i \in Jobs, NEW c \in Copies
             PROVE  /\ tasks'[i][c] = "cancelling" => place'[i] = "deleted"
                    /\ place'[i] = "deleted" => tasks'[i][c] # "created"
  BY DEF CancelledAreDeleted, DeletedDoNotBegin
<1> DEFINE Kept == /\ tasks'[i][c] = "cancelling" => place'[i] = "deleted"
                   /\ place'[i] = "deleted" => tasks'[i][c] # "created"
<1>1. ASSUME tasks'[i][c] \in {tasks[i][c], "idle", "waiting"}, place' = place
      PROVE  Kept
  BY <1>1 DEF CancelledAreDeleted, DeletedDoNotBegin
<1>2. ASSUME NEW j \in Jobs,
             \/ UpdateJob(j) \/ PauseJob(j) \/ ResumeJob(j) \/ BecomesDue(j)
             \/ RunJobNow(j) \/ CallProgress(j)
      PROVE  Kept
  BY <1>1, <1>2 DEF UpdateJob, PauseJob, ResumeJob, BecomesDue,
                    RunJobNow, CallProgress, CallEnds, runs, setup
<1>3. ASSUME NEW j \in Jobs, CreateJob(j)
      PROVE  Kept
  BY <1>3 DEF CreateJob, runs, TypeOK, CancelledAreDeleted, DeletedDoNotBegin
<1>4. ASSUME NEW j \in Jobs, DeleteJob(j)
      PROVE  Kept
  <2>1. CASE i = j
    <3>1. place'[i] = "deleted"
      BY <1>4, <2>1 DEF DeleteJob, TypeOK
    <3>2. tasks[i][c] # "idle" => table[i] = c
      BY DEF ScheduledRunsDoNotOverlap, Alive
    <3>3. tasks'[i][c] # "created"
      BY <1>4, <2>1, <3>2 DEF DeleteJob, Cancelled, TypeOK
    <3>4. QED
      BY <3>1, <3>3
  <2>2. CASE i # j
    BY <1>4, <2>2 DEF DeleteJob, TypeOK, CancelledAreDeleted, DeletedDoNotBegin
  <2>3. QED
    BY <2>1, <2>2
<1>5. ASSUME NEW j \in Jobs, NEW k \in Copies, TaskProgress(j, k)
      PROVE  Kept
  <2>1. tasks' = [tasks EXCEPT ![j][k] = "idle"] \/ tasks' = [tasks EXCEPT ![j][k] = "waiting"]
    BY <1>5 DEF TaskProgress, TaskBegins, TaskEnds, TaskCancelled
  <2>2. place' = place
    BY <1>5 DEF TaskProgress, TaskBegins, TaskEnds, TaskCancelled, setup
  <2>3. tasks'[i][c] \in {tasks[i][c], "idle", "waiting"}
    BY <2>1 DEF TypeOK
  <2>4. QED
    BY <1>1, <2>2, <2>3
<1>6. CASE LoopPass
  <2>1. PICK started \in Startings :
          tasks' = [j \in Jobs |-> IF j \in started
                                   THEN [tasks[j] EXCEPT ![FreeCopy(j)] = "created"]
                                   ELSE tasks[j]]
    BY <1>6 DEF LoopPass
  <2>2. place' = place
    BY <1>6 DEF LoopPass, setup
  <2>3. CASE i \in started
    <3>1. place[i] = "present" /\ tasks[i] \in [Copies -> TaskState] /\ tasks[i][c] = "idle"
      BY <2>3, StartedAreIdle DEF TypeOK
    <3>2. tasks'[i][c] \in {"idle", "created"}
      BY <2>1, <2>3, <3>1
    <3>3. QED
      BY <2>2, <3>1, <3>2
  <2>4. CASE i \notin started
    BY <1>1, <2>1, <2>2, <2>4
  <2>5. QED
    BY <2>3, <2>4
<1>7. CASE Start \/ Stop \/ UNCHANGED vars
  BY <1>1, <1>7 DEF Start, Stop, vars, runs, setup
<1>8. QED
  BY <1>2, <1>3, <1>4, <1>5, <1>6, <1>7 DEF Next

(* A pass adds no more entries than there is room for.                     *)
LEMMA LimitNext ==
    ASSUME TypeOK, TableIsLimited, [Next]_vars
    PROVE  TableIsLimited'
<1>0. /\ IsFiniteSet(Tabled) /\ IsFiniteSet(Tabled')
      /\ Cardinality(Tabled) \in Nat /\ Cardinality(Tabled') \in Nat
  <2>1. Tabled \in SUBSET Jobs /\ Tabled' \in SUBSET Jobs
    BY DEF Tabled
  <2>2. IsFiniteSet(Tabled) /\ IsFiniteSet(Tabled')
    BY <2>1, FS_Subset, JobsAssumption
  <2>3. QED
    BY <2>2, FS_CardinalityType
<1>1. CASE LoopPass
  <2>1. PICK started \in Startings :
          table' = [j \in Jobs |-> IF j \in started THEN FreeCopy(j)
                                   ELSE IF EntryDone(j) THEN 0 ELSE table[j]]
    BY <1>1 DEF LoopPass
  <2>2. started \in SUBSET Jobs /\ Cardinality(started) <= Room
    BY DEF Startings, Startable, DueJobs
  <2>3. IsFiniteSet(started) /\ Cardinality(started) \in Nat
    BY <2>2, FS_Subset, FS_CardinalityType, JobsAssumption
  <2>4. Tabled' \subseteq Tabled \cup started
    BY <2>1 DEF Tabled
  <2>5. /\ IsFiniteSet(Tabled \cup started)
        /\ Cardinality(Tabled \cup started) <= Cardinality(Tabled) + Cardinality(started)
    <3>1. IsFiniteSet(Tabled \cap started)
      BY <1>0, FS_Intersection
    <3>2. Cardinality(Tabled \cap started) \in Nat
      BY <3>1, FS_CardinalityType
    <3>3. /\ IsFiniteSet(Tabled \cup started)
          /\ Cardinality(Tabled \cup started)
             = Cardinality(Tabled) + Cardinality(started) - Cardinality(Tabled \cap started)
      BY <1>0, <2>3, FS_Union
    <3>4. QED
      BY <1>0, <2>3, <3>2, <3>3
  <2>6. Cardinality(Tabled') <= Cardinality(Tabled \cup started)
    BY <2>4, <2>5, FS_Subset
  <2>7. Cardinality(Tabled \cup started) \in Nat
    BY <2>5, FS_CardinalityType
  <2>8. QED
    BY <1>0, <2>2, <2>3, <2>5, <2>6, <2>7, LimitsAssumption DEF Room, TableIsLimited
<1>2. CASE ~ LoopPass
  <2>1. table' = table
    BY <1>2 DEF Next, vars, CreateJob, UpdateJob, DeleteJob, PauseJob, ResumeJob, RunJobNow,
                BecomesDue, CallProgress, CallEnds, TaskProgress, TaskBegins, TaskEnds,
                TaskCancelled, Start, Stop, runs
  <2>2. QED
    BY <2>1 DEF TableIsLimited, Tabled
<1>3. QED
  BY <1>1, <1>2

(* A pass leaves the tasks that began alone.                               *)
LEMMA PassKeepsBegun ==
    ASSUME TypeOK, ScheduledRunsDoNotOverlap, LoopPass, NEW i \in Jobs
    PROVE  Begun(i)' = Begun(i)
<1>1. PICK started \in Startings :
        tasks' = [j \in Jobs |-> IF j \in started
                                 THEN [tasks[j] EXCEPT ![FreeCopy(j)] = "created"]
                                 ELSE tasks[j]]
  BY DEF LoopPass
<1>2. CASE i \in started
  <2>1. /\ \A k \in Copies : tasks[i][k] = "idle"
        /\ tasks[i] \in [Copies -> TaskState]
    BY <1>2, StartedAreIdle DEF TypeOK
  <2>2. \A k \in Copies : tasks'[i][k] \in {"idle", "created"}
    BY <1>1, <1>2, <2>1
  <2>3. QED
    BY <2>1, <2>2 DEF Begun
<1>3. CASE i \notin started
  BY <1>1, <1>3 DEF Begun
<1>4. QED
  BY <1>2, <1>3

(* Deleting a job cancels the run that began, and it is still to end.      *)
LEMMA DeleteKeepsBegun ==
    ASSUME TypeOK, NEW j \in Jobs, DeleteJob(j), NEW i \in Jobs
    PROVE  Begun(i)' = Begun(i)
<1>1. \A k \in Copies : tasks'[i][k] \in {"waiting", "cancelling"}
                        <=> tasks[i][k] \in {"waiting", "cancelling"}
  BY DEF DeleteJob, Cancelled, TypeOK
<1>2. QED
  BY <1>1 DEF Begun

(* A step of one task leaves the tasks of other jobs alone.                *)
LEMMA OthersKeepBegun ==
    ASSUME TypeOK, NEW j \in Jobs, NEW k \in Copies, TaskProgress(j, k), NEW i \in Jobs \ {j}
    PROVE  Begun(i)' = Begun(i)
<1>1. tasks' = [tasks EXCEPT ![j][k] = "idle"] \/ tasks' = [tasks EXCEPT ![j][k] = "waiting"]
  BY DEF TaskProgress, TaskBegins, TaskEnds, TaskCancelled
<1>2. tasks'[i] = tasks[i]
  BY <1>1 DEF TypeOK
<1>3. QED
  BY <1>2 DEF Begun

(* A run that set the status to RUNNING stays behind it until the status   *)
(* is set again.                                                           *)
LEMMA RunningNext ==
    ASSUME TypeOK, ScheduledRunsDoNotOverlap, CancelledAreDeleted, RunningRun, [Next]_vars
    PROVE  RunningRun'
<1> SUFFICES ASSUME NEW i \in Jobs, place'[i] # "deleted", status'[i] = "running"
             PROVE  calls'[i] > 0 \/ Begun(i)' # {}
  BY DEF RunningRun
<1>1. ASSUME place[i] # "deleted", status[i] = "running", calls'[i] = calls[i], Begun(i)' = Begun(i)
      PROVE  calls'[i] > 0 \/ Begun(i)' # {}
  BY <1>1 DEF RunningRun
<1>2. ASSUME NEW j \in Jobs,
             CreateJob(j) \/ UpdateJob(j) \/ PauseJob(j) \/ ResumeJob(j) \/ BecomesDue(j)
      PROVE  calls'[i] > 0 \/ Begun(i)' # {}
  <2>1. calls' = calls /\ Begun(i)' = Begun(i)
    BY <1>2 DEF CreateJob, UpdateJob, PauseJob, ResumeJob, BecomesDue, runs, Begun
  <2>2. status[i] = "running"
    BY <1>2 DEF CreateJob, UpdateJob, PauseJob, ResumeJob, BecomesDue, TypeOK
  <2>3. place[i] # "deleted"
    BY <1>2 DEF CreateJob, UpdateJob, PauseJob, ResumeJob, BecomesDue, setup, TypeOK
  <2>4. QED
    BY <1>1, <2>1, <2>2, <2>3
<1>3. ASSUME NEW j \in Jobs, DeleteJob(j)
      PROVE  calls'[i] > 0 \/ Begun(i)' # {}
  <2>1. Begun(i)' = Begun(i) /\ calls' = calls /\ status' = status
    BY <1>3, DeleteKeepsBegun DEF DeleteJob
  <2>2. place[i] # "deleted"
    BY <1>3 DEF DeleteJob, TypeOK
  <2>3. QED
    BY <1>1, <2>1, <2>2
<1>4. ASSUME NEW j \in Jobs, RunJobNow(j)
      PROVE  calls'[i] > 0 \/ Begun(i)' # {}
  <2>1. place' = place /\ Begun(i)' = Begun(i)
    BY <1>4 DEF RunJobNow, setup, Begun
  <2>2. CASE i # j
    BY <1>1, <1>4, <2>1, <2>2 DEF RunJobNow, RunBegins, TypeOK
  <2>3. CASE i = j
    <3>1. handled[j] /\ calls[j] \in Nat
      BY <1>4, <2>3, LimitsAssumption DEF RunJobNow, RunBegins, TypeOK
    <3>2. QED
      BY <1>4, <2>3, <3>1 DEF RunJobNow, TypeOK
  <2>4. QED
    BY <2>2, <2>3
<1>5. ASSUME NEW j \in Jobs, CallProgress(j)
      PROVE  calls'[i] > 0 \/ Begun(i)' # {}
  <2>1. place' = place /\ Begun(i)' = Begun(i)
    BY <1>5 DEF CallProgress, CallEnds, setup, Begun
  <2>2. i # j
    BY <1>5 DEF CallProgress, CallEnds, RunEnds, StatusAfter, TypeOK
  <2>3. status'[i] = status[i] /\ calls'[i] = calls[i]
    BY <1>5, <2>2 DEF CallProgress, CallEnds, RunEnds, TypeOK
  <2>4. QED
    BY <1>1, <2>1, <2>3
<1>6. ASSUME NEW j \in Jobs, NEW k \in Copies, TaskProgress(j, k)
      PROVE  calls'[i] > 0 \/ Begun(i)' # {}
  <2>1. place' = place /\ calls' = calls
    BY <1>6 DEF TaskProgress, TaskBegins, TaskEnds, TaskCancelled, setup
  <2>2. CASE i # j
    <3>1. status'[i] = status[i]
      BY <1>6, <2>2 DEF TaskProgress, TaskBegins, TaskEnds, TaskCancelled, RunBegins, RunEnds, TypeOK
    <3>2. QED
      BY <1>1, <1>6, <2>1, <2>2, <3>1, OthersKeepBegun
  <2>3. CASE i = j
    <3>1. ~ TaskCancelled(j, k)
      BY <2>1, <2>3 DEF TaskCancelled, CancelledAreDeleted
    <3>2. TaskBegins(j, k)
      BY <1>6, <2>3, <3>1 DEF TaskProgress, TaskEnds, RunEnds, StatusAfter, TypeOK
    <3>3. handled[j]
      BY <2>3, <3>2 DEF TaskBegins, RunBegins, TypeOK
    <3>4. tasks'[j][k] = "waiting"
      BY <3>2, <3>3 DEF TaskBegins, TypeOK
    <3>5. QED
      BY <2>3, <3>4 DEF Begun
  <2>4. QED
    BY <2>2, <2>3
<1>7. CASE LoopPass
  BY <1>1, <1>7, PassKeepsBegun DEF LoopPass, setup
<1>8. CASE Start \/ Stop \/ UNCHANGED vars
  <2>1. Begun(i)' = Begun(i) /\ calls' = calls /\ place' = place /\ status' = status
    BY <1>8 DEF Start, Stop, vars, runs, setup, Begun
  <2>2. QED
    BY <1>1, <2>1
<1>9. QED
  BY <1>2, <1>3, <1>4, <1>5, <1>6, <1>7, <1>8 DEF Next

(* Every run that ends takes its count along; only the run of a deleted    *)
(* job may be cut off between its start and its count.                     *)
LEMMA BalanceNext ==
    ASSUME TypeOK, ScheduledRunsDoNotOverlap, CancelledAreDeleted, DeletedDoNotBegin, Balance,
           [Next]_vars
    PROVE  Balance'
<1> DEFINE Balanced(i) == IF place[i] = "deleted"
                          THEN open[i] \in {calls[i] + Load(i), calls[i] + 1}
                          ELSE open[i] = calls[i] + Load(i)
<1> SUFFICES ASSUME NEW i \in Jobs PROVE Balanced(i)'
  BY DEF Balance
<1>0. /\ Balanced(i)
      /\ open[i] \in Nat /\ calls[i] \in Nat
      /\ Load(i) \in {0, 1} /\ Load(i)' \in {0, 1}
      /\ Begun(i)' = Begun(i) => Load(i)' = Load(i)
  BY LimitsAssumption DEF Balance, TypeOK, Load
<1>1. ASSUME (place'[i] = "deleted") <=> (place[i] = "deleted"),
             open'[i] = open[i], calls'[i] = calls[i], Begun(i)' = Begun(i)
      PROVE  Balanced(i)'
  BY <1>0, <1>1
<1>2. ASSUME NEW j \in Jobs,
             CreateJob(j) \/ UpdateJob(j) \/ PauseJob(j) \/ ResumeJob(j) \/ BecomesDue(j)
      PROVE  Balanced(i)'
  <2>1. calls' = calls /\ open' = open /\ Begun(i)' = Begun(i)
    BY <1>2 DEF CreateJob, UpdateJob, PauseJob, ResumeJob, BecomesDue, runs, Begun
  <2>2. (place'[i] = "deleted") <=> (place[i] = "deleted")
    BY <1>2 DEF CreateJob, UpdateJob, PauseJob, ResumeJob, BecomesDue, setup, TypeOK
  <2>3. QED
    BY <1>1, <2>1, <2>2
<1>3. ASSUME NEW j \in Jobs, DeleteJob(j)
      PROVE  Balanced(i)'
  <2>1. calls' = calls /\ open' = open /\ Begun(i)' = Begun(i)
    BY <1>3, DeleteKeepsBegun DEF DeleteJob
  <2>2. place[i] = "deleted" => place'[i] = "deleted"
    BY <1>3 DEF DeleteJob, TypeOK
  <2>3. QED
    BY <1>0, <2>1, <2>2
<1>4. ASSUME NEW j \in Jobs, RunJobNow(j)
      PROVE  Balanced(i)'
  <2>1. place' = place /\ Begun(i)' = Begun(i)
    BY <1>4 DEF RunJobNow, setup, Begun
  <2>2. CASE i # j \/ ~ handled[j]
    <3>1. open'[i] = open[i] /\ calls'[i] = calls[i]
      BY <1>4, <2>2 DEF RunJobNow, RunBegins, TypeOK
    <3>2. QED
      BY <1>1, <2>1, <3>1
  <2>3. CASE i = j /\ handled[j]
    <3>1. open'[i] = open[i] + 1 /\ calls'[i] = calls[i] + 1
      BY <1>4, <2>3 DEF RunJobNow, RunBegins, TypeOK
    <3>2. QED
      BY <1>0, <2>1, <3>1
  <2>4. QED
    BY <2>2, <2>3
<1>5. ASSUME NEW j \in Jobs, CallProgress(j)
      PROVE  Balanced(i)'
  <2>1. place' = place /\ Begun(i)' = Begun(i)
    BY <1>5 DEF CallProgress, CallEnds, setup, Begun
  <2>2. CASE i # j
    <3>1. open'[i] = open[i] /\ calls'[i] = calls[i]
      BY <1>5, <2>2 DEF CallProgress, CallEnds, RunEnds, TypeOK
    <3>2. QED
      BY <1>1, <2>1, <3>1
  <2>3. CASE i = j
    <3>1. open'[i] = open[i] - 1 /\ calls'[i] = calls[i] - 1
      BY <1>5, <2>3 DEF CallProgress, CallEnds, RunEnds, OpenAfter, TypeOK
    <3>2. QED
      BY <1>0, <2>1, <3>1
  <2>4. QED
    BY <2>2, <2>3
<1>6. ASSUME NEW j \in Jobs, NEW k \in Copies, TaskProgress(j, k)
      PROVE  Balanced(i)'
  <2>1. place' = place /\ calls' = calls
    BY <1>6 DEF TaskProgress, TaskBegins, TaskEnds, TaskCancelled, setup
  <2>2. CASE i # j
    <3>1. open'[i] = open[i]
      BY <1>6, <2>2 DEF TaskProgress, TaskBegins, TaskEnds, TaskCancelled, RunBegins, RunEnds, TypeOK
    <3>2. QED
      BY <1>1, <1>6, <2>1, <2>2, <3>1, OthersKeepBegun
  <2>3. CASE i = j
    <3>1. \A c \in Copies : tasks[i][c] # "idle" => c = k
      BY <1>6, <2>3 DEF TaskProgress, TaskBegins, TaskEnds, TaskCancelled, Begun, Alive,
                       ScheduledRunsDoNotOverlap
    <3>2. tasks[i] \in [Copies -> TaskState]
      BY DEF TypeOK
    <3>3. CASE TaskBegins(j, k)
      <4>1. Begun(i) = {} /\ place[i] # "deleted"
        BY <2>3, <3>1, <3>3 DEF TaskBegins, Begun, DeletedDoNotBegin
      <4>2. CASE handled[j]
        <5>1. open'[i] = open[i] + 1 /\ tasks'[i][k] = "waiting"
          BY <2>3, <3>3, <4>2 DEF TaskBegins, RunBegins, TypeOK
        <5>2. Load(i) = 0 /\ Load(i)' = 1
          BY <4>1, <5>1 DEF Load, Begun
        <5>3. QED
          BY <1>0, <2>1, <4>1, <5>1, <5>2
      <4>3. CASE ~ handled[j]
        <5>1. open'[i] = open[i] /\ tasks'[i] = [tasks[i] EXCEPT ![k] = "idle"]
          BY <2>3, <3>3, <4>3 DEF TaskBegins, RunBegins, TypeOK
        <5>2. \A c \in Copies : tasks'[i][c] = "idle"
          BY <3>1, <3>2, <5>1
        <5>3. Begun(i)' = {}
          BY <5>2 DEF Begun
        <5>4. QED
          BY <1>1, <2>1, <4>1, <5>1, <5>3
      <4>4. QED
        BY <4>2, <4>3
    <3>4. CASE ~ TaskBegins(j, k)
      <4>1. tasks'[i] = [tasks[i] EXCEPT ![k] = "idle"] /\ k \in Begun(i)
        BY <1>6, <2>3, <3>4 DEF TaskProgress, TaskEnds, TaskCancelled, Begun, TypeOK
      <4>2. \A c \in Copies : tasks'[i][c] = "idle"
        BY <3>1, <3>2, <4>1
      <4>3. Load(i) = 1 /\ Load(i)' = 0
        BY <4>1, <4>2 DEF Load, Begun
      <4>4. CASE TaskCancelled(j, k)
        <5>1. open'[i] = open[i] /\ place[i] = "deleted"
          BY <2>3, <4>4 DEF TaskCancelled, CancelledAreDeleted
        <5>2. QED
          BY <1>0, <2>1, <4>3, <5>1
      <4>5. CASE ~ TaskCancelled(j, k)
        <5>1. open'[i] = open[i] - 1
          BY <1>6, <2>3, <3>4, <4>5 DEF TaskProgress, TaskEnds, RunEnds, OpenAfter, TypeOK
        <5>2. QED
          BY <1>0, <2>1, <4>3, <5>1
      <4>6. QED
        BY <4>4, <4>5
    <3>5. QED
      BY <3>3, <3>4
  <2>4. QED
    BY <2>2, <2>3
<1>7. CASE LoopPass
  BY <1>1, <1>7, PassKeepsBegun DEF LoopPass, setup
<1>8. CASE Start \/ Stop \/ UNCHANGED vars
  <2>1. Begun(i)' = Begun(i) /\ calls' = calls /\ place' = place /\ open' = open
    BY <1>8 DEF Start, Stop, vars, runs, setup, Begun
  <2>2. QED
    BY <1>1, <2>1
<1>9. QED
  BY <1>2, <1>3, <1>4, <1>5, <1>6, <1>7, <1>8 DEF Next

(* The inductive invariant is one.                                         *)
LEMMA InvNext == IInv /\ [Next]_vars => IInv'
BY TypeNext, OverlapNext, DeletedNext, LimitNext, BalanceNext, RunningNext DEF IInv

(* It holds in every reachable state.                                      *)
LEMMA InvAlways == Spec => []IInv
BY InitInv, InvNext, PTL DEF Spec

(* The number of tasks alive is the number of jobs that have one.          *)
LEMMA AliveAreTabled ==
    ASSUME IInv
    PROVE  ConcurrencyIsLimited
<1> DEFINE AliveTasks == {t \in Jobs \X Copies : t[2] \in Alive(t[1])}
           JobOf == [t \in AliveTasks |-> t[1]]
<1>1. ScheduledRunsDoNotOverlap /\ TypeOK /\ TableIsLimited
  BY DEF IInv
<1>2. IsFiniteSet(Tabled) /\ Cardinality(Tabled) \in Nat
  <2>1. Tabled \in SUBSET Jobs
    BY DEF Tabled
  <2>2. QED
    BY <2>1, FS_Subset, FS_CardinalityType, JobsAssumption
<1>3. \A t \in AliveTasks : t = <<t[1], t[2]>> /\ t[1] \in Jobs /\ t[2] \in Copies /\ table[t[1]] = t[2]
  BY <1>1 DEF ScheduledRunsDoNotOverlap
<1>4. JobOf \in Injection(AliveTasks, Tabled)
  <2>1. \A t \in AliveTasks : t[1] \in Tabled
    BY <1>3 DEF Tabled, Copies
  <2>2. \A s, t \in AliveTasks : JobOf[s] = JobOf[t] => s = t
    BY <1>3
  <2>3. QED
    BY <2>1, <2>2 DEF Injection, IsInjective
<1>5. Cardinality(AliveTasks) <= Cardinality(Tabled) /\ Cardinality(AliveTasks) \in Nat
  <2>1. IsFiniteSet(AliveTasks) /\ Cardinality(AliveTasks) <= Cardinality(Tabled)
    BY <1>2, <1>4, FS_Injection
  <2>2. QED
    BY <2>1, FS_CardinalityType
<1>6. QED
  BY <1>1, <1>2, <1>5, LimitsAssumption DEF TableIsLimited, ConcurrencyIsLimited

(* What the counters of a job that is not deleted add up to.               *)
LEMMA CountersAddUp ==
    ASSUME IInv
    PROVE  RunsAreCounted
<1> SUFFICES ASSUME NEW j \in Jobs, place[j] = "present"
             PROVE  open[j] = calls[j] + Cardinality(Begun(j))
  BY DEF RunsAreCounted, Present
<1>1. open[j] = calls[j] + Load(j)
  BY DEF IInv, Balance
<1>2. CASE Begun(j) = {}
  BY <1>1, <1>2, FS_EmptySet DEF Load
<1>3. CASE Begun(j) # {}
  <2>1. Begun(j) = {table[j]}
    BY <1>3 DEF IInv, ScheduledRunsDoNotOverlap, Begun, Alive
  <2>2. Cardinality(Begun(j)) = 1
    BY <2>1, FS_Singleton
  <2>3. QED
    BY <1>1, <1>3, <2>2 DEF Load
<1>4. QED
  BY <1>2, <1>3

-----------------------------------------------------------------------------

(* The variables of the scheduler keep their types in every behaviour: in  *)
(* particular, no counter of runs ever falls below zero                    *)
(* (sync_scheduler.py:283, 301, 313, 322).                                 *)
THEOREM TypeCorrect == Spec => []TypeOK
BY InvAlways, PTL DEF IInv

(* Whatever jobs there are, and however often they are run by hand, paused,*)
(* resumed or deleted, the loop never starts a job while a run it started  *)
(* before is unfinished (sync_scheduler.py:370-389).                       *)
THEOREM NoOverlap == Spec => []ScheduledRunsDoNotOverlap
BY InvAlways, PTL DEF IInv

(* For every limit and every set of jobs, no more than max_concurrent_jobs *)
(* tasks of the loop are unfinished (sync_scheduler.py:373-381).           *)
THEOREM LimitHolds == Spec => []ConcurrencyIsLimited
<1>1. IInv => ConcurrencyIsLimited
  BY AliveAreTabled
<1>2. QED
  BY <1>1, InvAlways, PTL

(* A job that says RUNNING has a run behind it that will reset the status  *)
(* (sync_scheduler.py:282, 300, 312, 321).                                 *)
THEOREM NoStuckJob == Spec => []RunningJobsRun
<1>1. IInv => RunningJobsRun
  BY DEF IInv, RunningRun, RunningJobsRun, Present
<1>2. QED
  BY <1>1, InvAlways, PTL

(* The counters of a job count each of its runs once, however many callers *)
(* run it beside the loop (sync_scheduler.py:283, 301, 313, 322).          *)
THEOREM CountersAgree == Spec => []RunsAreCounted
<1>1. IInv => RunsAreCounted
  BY CountersAddUp
<1>2. QED
  BY <1>1, InvAlways, PTL

-----------------------------------------------------------------------------

(* The refinement.  A job has an unfinished task of the loop only if the   *)
(* table names it, so the table alone says what its run is.                *)
NamedRun(j) == IF table[j] = 0 THEN "idle" ELSE tasks[j][table[j]]

RunsAreNamed == \A j \in Jobs : RunOf(j) = NamedRun(j)

LEMMA TableNamesRuns == TypeOK /\ ScheduledRunsDoNotOverlap => RunsAreNamed
<1> SUFFICES ASSUME TypeOK, ScheduledRunsDoNotOverlap, NEW j \in Jobs
             PROVE  RunOf(j) = NamedRun(j)
  BY DEF RunsAreNamed
<1>1. table[j] \in 0..2 /\ \A k \in Alive(j) : table[j] = k
  BY DEF TypeOK, ScheduledRunsDoNotOverlap
<1>2. CASE Alive(j) = {}
  BY <1>1, <1>2 DEF RunOf, NamedRun, Alive, Copies
<1>3. CASE Alive(j) # {}
  <2>1. Alive(j) = {table[j]} /\ table[j] # 0
    BY <1>1, <1>3 DEF Alive, Copies
  <2>2. QED
    BY <1>3, <2>1 DEF RunOf, NamedRun
<1>4. QED
  BY <1>2, <1>3

(* A job that was never created has no task.                               *)
UnknownAreIdle == \A j \in Jobs, k \in Copies : place[j] = "absent" => tasks[j][k] = "idle"

LEMMA UnknownStayIdle ==
    ASSUME TypeOK, ScheduledRunsDoNotOverlap, UnknownAreIdle, [Next]_vars
    PROVE  UnknownAreIdle'
<1> SUFFICES ASSUME NEW i \in Jobs, NEW c \in Copies, place'[i] = "absent"
             PROVE  tasks'[i][c] = "idle"
  BY DEF UnknownAreIdle
<1>1. CASE UNCHANGED tasks
  <2>1. place[i] = "absent"
    BY <1>1 DEF TypeOK, Next, vars, setup, runs, CreateJob, UpdateJob, DeleteJob, PauseJob,
                ResumeJob, RunJobNow, BecomesDue, CallProgress, CallEnds, TaskProgress,
                TaskBegins, TaskEnds, TaskCancelled, Start, Stop, LoopPass
  <2>2. QED
    BY <1>1, <2>1 DEF UnknownAreIdle
<1>2. ASSUME NEW j \in Jobs, DeleteJob(j)
      PROVE  tasks'[i][c] = "idle"
  <2>1. i # j /\ place[i] = "absent" /\ tasks'[i] = tasks[i]
    BY <1>2 DEF DeleteJob, TypeOK
  <2>2. QED
    BY <2>1 DEF UnknownAreIdle
<1>3. ASSUME NEW j \in Jobs, NEW k \in Copies, TaskProgress(j, k)
      PROVE  tasks'[i][c] = "idle"
  <2>1. place' = place /\ tasks[j][k] # "idle"
    BY <1>3 DEF TaskProgress, TaskBegins, TaskCancelled, TaskEnds, setup, Begun
  <2>2. i # j
    BY <2>1 DEF UnknownAreIdle
  <2>3. tasks'[i] = tasks[i]
    BY <1>3, <2>2 DEF TaskProgress, TaskBegins, TaskCancelled, TaskEnds, TypeOK
  <2>4. QED
    BY <2>1, <2>3 DEF UnknownAreIdle
<1>4. ASSUME LoopPass
      PROVE  tasks'[i][c] = "idle"
  <2>1. PICK started \in Startings :
          tasks' = [j \in Jobs |-> IF j \in started
                                   THEN [tasks[j] EXCEPT ![FreeCopy(j)] = "created"]
                                   ELSE tasks[j]]
    BY <1>4 DEF LoopPass
  <2>2. place' = place
    BY <1>4 DEF LoopPass, setup
  <2>3. i \notin started
    BY <2>2, StartedAreIdle
  <2>4. QED
    BY <2>1, <2>2, <2>3 DEF UnknownAreIdle
<1>5. QED
  BY <1>1, <1>2, <1>3, <1>4
     DEF Next, vars, runs, CreateJob, UpdateJob, PauseJob, ResumeJob, RunJobNow, BecomesDue,
         CallProgress, CallEnds, Start, Stop

SlotInv == IInv /\ RunsAreNamed /\ UnknownAreIdle

LEMMA SlotInvariant == Spec => []SlotInv
<1>1. Init => UnknownAreIdle
  BY DEF Init, UnknownAreIdle
<1>2. IInv /\ UnknownAreIdle /\ [Next]_vars => UnknownAreIdle'
  BY UnknownStayIdle DEF IInv
<1>3. IInv => RunsAreNamed
  BY TableNamesRuns DEF IInv
<1>4. QED
  BY <1>1, <1>2, <1>3, InvAlways, PTL DEF Spec, SlotInv

-----------------------------------------------------------------------------

(* One lemma for each kind of step.  A step that leaves the table and the  *)
(* tasks alone leaves the runs alone.                                      *)
Run == [j \in Jobs |-> RunOf(j)]

LEMMA RunsStay ==
    ASSUME UNCHANGED <<table, tasks>>
    PROVE  Run' = Run
<1>1. \A j \in Jobs : RunOf(j)' = RunOf(j)
  BY DEF RunOf, Alive
<1>2. QED
  BY <1>1 DEF Run

LEMMA OneRunMoves ==
    ASSUME RunsAreNamed, RunsAreNamed', NEW j \in Jobs, table' = table,
           \A i \in Jobs \ {j} : tasks'[i] = tasks[i]
    PROVE  /\ Run' = [Run EXCEPT ![j] = NamedRun(j)']
           /\ Run[j] = NamedRun(j) /\ Run'[j] = NamedRun(j)'
<1>1. \A i \in Jobs : Run[i] = NamedRun(i)
  BY DEF Run, RunsAreNamed
<1>2. \A i \in Jobs : Run'[i] = NamedRun(i)'
  BY DEF Run, RunsAreNamed
<1>3. \A i \in Jobs \ {j} : NamedRun(i)' = NamedRun(i)
  BY DEF NamedRun
<1>4. Run' = [i \in Jobs |-> RunOf(i)'] /\ Run = [i \in Jobs |-> RunOf(i)]
  BY DEF Run
<1>5. \A i \in Jobs \ {j} : RunOf(i)' = RunOf(i)
  BY <1>1, <1>2, <1>3, <1>4
<1>6. RunOf(j)' = NamedRun(j)'
  BY DEF RunsAreNamed
<1>7. QED
  BY <1>1, <1>2, <1>4, <1>5, <1>6

LEMMA DeleteDeletes ==
    ASSUME SlotInv, RunsAreNamed', NEW j \in Jobs, DeleteJob(j)
    PROVE  Slots!Delete(j)
<1>1. TypeOK /\ CancelledAreDeleted /\ RunsAreNamed
  BY DEF SlotInv, IInv
<1>2. /\ place[j] = "present" /\ place' = [place EXCEPT ![j] = "deleted"] /\ table' = table
      /\ \A i \in Jobs \ {j} : tasks'[i] = tasks[i]
      /\ \A k \in Copies : tasks'[j][k] =
            IF k = table[j] THEN Cancelled(tasks[j][k]) ELSE tasks[j][k]
  BY <1>1 DEF DeleteJob, Present, TypeOK
<1>3. /\ Run' = [Run EXCEPT ![j] = NamedRun(j)']
      /\ Run[j] = NamedRun(j) /\ Run'[j] = NamedRun(j)'
  BY <1>1, <1>2, OneRunMoves
<1>4. table[j] = 0 \/ table[j] \in Copies
  BY <1>1 DEF TypeOK, Copies
<1>5. \/ NamedRun(j) \in {"created", "idle"} /\ NamedRun(j)' = "idle"
      \/ NamedRun(j) = "waiting" /\ NamedRun(j)' = "cancelling"
  <2>1. CASE table[j] = 0
    BY <1>2, <2>1 DEF NamedRun
  <2>2. CASE table[j] \in Copies
    <3>1. tasks[j][table[j]] \in {"idle", "created", "waiting"}
      BY <1>1, <1>2, <2>2 DEF TypeOK, TaskState, CancelledAreDeleted
    <3>2. NamedRun(j) = tasks[j][table[j]] /\ NamedRun(j)' = Cancelled(tasks[j][table[j]])
      BY <1>2, <2>2 DEF NamedRun, Copies
    <3>3. QED
      BY <3>1, <3>2 DEF Cancelled
  <2>3. QED
    BY <1>4, <2>1, <2>2
<1>6. QED
  BY <1>2, <1>3, <1>5 DEF Slots!Delete, Slots!Move, Run

LEMMA TaskMoves ==
    ASSUME SlotInv, RunsAreNamed', NEW j \in Jobs, NEW k \in Copies, TaskProgress(j, k)
    PROVE  Slots!Begin(j) \/ Slots!End(j)
<1>1. /\ TypeOK /\ ScheduledRunsDoNotOverlap /\ RunsAreNamed
      /\ DeletedDoNotBegin /\ UnknownAreIdle
  BY DEF SlotInv, IInv
<1>2. /\ tasks[j][k] \in {"created", "waiting", "cancelling"}
      /\ place' = place /\ table' = table
      /\ \A i \in Jobs \ {j} : tasks'[i] = tasks[i]
      /\ tasks[j][k] = "created" => tasks'[j][k] \in {"waiting", "idle"}
      /\ tasks[j][k] # "created" => tasks'[j][k] = "idle"
  BY <1>1 DEF TaskProgress, TaskBegins, TaskCancelled, TaskEnds, setup, Begun, TypeOK
<1>3. table[j] = k /\ k # 0
  BY <1>1, <1>2 DEF ScheduledRunsDoNotOverlap, Alive, Copies
<1>4. /\ Run' = [Run EXCEPT ![j] = NamedRun(j)']
      /\ Run[j] = NamedRun(j) /\ Run'[j] = NamedRun(j)'
  BY <1>1, <1>2, OneRunMoves
<1>5. NamedRun(j) = tasks[j][k] /\ NamedRun(j)' = tasks'[j][k]
  BY <1>2, <1>3 DEF NamedRun
<1>6. CASE tasks[j][k] = "created"
  <2>1. place[j] = "present"
    BY <1>1, <1>6 DEF DeletedDoNotBegin, UnknownAreIdle, TypeOK, Places
  <2>2. QED
    BY <1>2, <1>4, <1>5, <1>6, <2>1 DEF Slots!Begin, Slots!Move, Run
<1>7. CASE tasks[j][k] # "created"
  BY <1>2, <1>4, <1>5, <1>7 DEF Slots!End, Slots!Move, Run
<1>8. QED
  BY <1>6, <1>7

LEMMA PassStarts ==
    ASSUME SlotInv, RunsAreNamed', LoopPass
    PROVE  \E jobs \in SUBSET Jobs : Slots!StartRuns(jobs)
<1>1. TypeOK /\ ScheduledRunsDoNotOverlap /\ RunsAreNamed /\ TableIsLimited
  BY DEF SlotInv, IInv
<1>2. PICK started \in Startings :
        /\ table' = [j \in Jobs |-> IF j \in started THEN FreeCopy(j)
                                    ELSE IF EntryDone(j) THEN 0 ELSE table[j]]
        /\ tasks' = [j \in Jobs |-> IF j \in started
                                    THEN [tasks[j] EXCEPT ![FreeCopy(j)] = "created"]
                                    ELSE tasks[j]]
  BY DEF LoopPass
<1>3. place' = place
  BY DEF LoopPass, setup
<1>4. started \subseteq Jobs
  BY DEF Startings, Startable, DueJobs
<1>5. ASSUME NEW j \in started
      PROVE  place[j] = "present" /\ NamedRun(j) = "idle" /\ NamedRun(j)' = "created"
  <2>1. /\ j \in Jobs /\ place[j] = "present" /\ table[j] = 0 /\ FreeCopy(j) \in Copies
    BY <1>1, StartedAreIdle
  <2>2. table'[j] = FreeCopy(j) /\ tasks'[j] = [tasks[j] EXCEPT ![FreeCopy(j)] = "created"]
    BY <1>2, <2>1
  <2>3. tasks[j] \in [Copies -> TaskState]
    BY <1>1, <2>1 DEF TypeOK
  <2>4. tasks'[j][table'[j]] = "created" /\ table'[j] # 0
    BY <2>1, <2>2, <2>3 DEF Copies
  <2>5. QED
    BY <2>1, <2>4 DEF NamedRun
<1>6. ASSUME NEW j \in Jobs \ started
      PROVE  NamedRun(j)' = NamedRun(j)
  BY <1>2 DEF NamedRun, EntryDone
<1>7. /\ \A j \in Jobs : Run[j] = NamedRun(j)
      /\ \A j \in Jobs : RunOf(j)' = NamedRun(j)'
  BY <1>1 DEF Run, RunsAreNamed
<1>8. Run' = [j \in Jobs |-> IF j \in started THEN "created" ELSE Run[j]]
  <2>1. \A j \in Jobs : RunOf(j)' = IF j \in started THEN "created" ELSE Run[j]
    BY <1>5, <1>6, <1>7
  <2>2. QED
    BY <2>1 DEF Run
<1>9. Cardinality(Slots!Busy) + Cardinality(started) <= MaxConcurrent
  <2>1. Slots!Busy \subseteq Tabled
    BY <1>7 DEF Slots!Busy, Run, NamedRun, Tabled
  <2>2. IsFiniteSet(Tabled) /\ IsFiniteSet(started)
    BY <1>4, FS_Subset, JobsAssumption DEF Tabled
  <2>3. Cardinality(Slots!Busy) <= Cardinality(Tabled) /\ IsFiniteSet(Slots!Busy)
    BY <2>1, <2>2, FS_Subset
  <2>4. /\ Cardinality(Slots!Busy) \in Nat /\ Cardinality(Tabled) \in Nat
        /\ Cardinality(started) \in Nat
    BY <2>2, <2>3, FS_CardinalityType
  <2>5. Cardinality(started) <= MaxConcurrent - Cardinality(Tabled)
    BY DEF Startings, Room
  <2>6. QED
    BY <2>3, <2>4, <2>5, LimitsAssumption
<1>10. \A S : Slots!Cardinality(S) = Cardinality(S)
  BY DEF Slots!Cardinality, Cardinality
<1>11. \A j \in started : Run[j] = "idle"
  BY <1>4, <1>5, <1>7
<1>12. Slots!StartRuns(started)
  BY <1>3, <1>5, <1>8, <1>9, <1>10, <1>11 DEF Slots!StartRuns, Run
<1>13. QED
  BY <1>4, <1>12

LEMMA SlotsInit == Init => Slots!Init
<1> SUFFICES ASSUME Init PROVE Slots!Init
  OBVIOUS
<1>1. \A j \in Jobs : RunOf(j) = "idle"
  BY DEF Init, RunOf, Alive
<1>2. place = [j \in Jobs |-> "absent"]
  BY DEF Init
<1>3. QED
  BY <1>1, <1>2 DEF Slots!Init

LEMMA SlotsNext == SlotInv /\ RunsAreNamed' /\ [Next]_vars => [Slots!Next]_(Slots!slotVars)
<1> SUFFICES ASSUME SlotInv, RunsAreNamed', [Next]_vars
             PROVE  Slots!Next \/ UNCHANGED Slots!slotVars
  OBVIOUS
<1>1. ASSUME UNCHANGED <<place, table, tasks>>
      PROVE  UNCHANGED Slots!slotVars
  BY <1>1, RunsStay DEF Slots!slotVars, Run
<1>2. ASSUME NEW j \in Jobs, CreateJob(j)
      PROVE  Slots!Next
  <2>1. /\ place[j] = "absent" /\ place' = [place EXCEPT ![j] = "present"]
        /\ UNCHANGED <<table, tasks>>
    BY <1>2 DEF CreateJob, runs
  <2>2. Slots!Add(j)
    BY <2>1, RunsStay DEF Slots!Add, Run
  <2>3. QED
    BY <2>2 DEF Slots!Next
<1>3. ASSUME NEW j \in Jobs, DeleteJob(j)
      PROVE  Slots!Next
  BY <1>3, DeleteDeletes DEF Slots!Next
<1>4. ASSUME NEW j \in Jobs, NEW k \in Copies, TaskProgress(j, k)
      PROVE  Slots!Next
  BY <1>4, TaskMoves DEF Slots!Next
<1>5. ASSUME LoopPass
      PROVE  Slots!Next
  BY <1>5, PassStarts DEF Slots!Next
<1>6. ASSUME NEW j \in Jobs,
             \/ UpdateJob(j) \/ PauseJob(j) \/ ResumeJob(j)
             \/ RunJobNow(j) \/ BecomesDue(j) \/ CallProgress(j)
      PROVE  UNCHANGED <<place, table, tasks>>
  BY <1>6 DEF UpdateJob, PauseJob, ResumeJob, RunJobNow, BecomesDue, CallProgress, CallEnds,
              setup, runs
<1>7. CASE Start \/ Stop \/ UNCHANGED vars
  BY <1>1, <1>7 DEF Start, Stop, vars, setup, runs
<1>8. CASE Next
  BY <1>1, <1>2, <1>3, <1>4, <1>5, <1>6, <1>7, <1>8 DEF Next
<1>9. QED
  BY <1>7, <1>8

(* For any jobs, priorities and limit the loop implements RunSlots: every  *)
(* pass, deletion, cancellation and end of a task is a step of the slots,  *)
(* and calls of run_job_now, pauses, updates, starts and stops take none   *)
(* (sync_scheduler.py:220-230, 370-389).                                   *)
THEOREM LoopImplementsRunSlots == Spec => ImplementsRunSlots
<1>1. SlotInv => RunsAreNamed
  BY DEF SlotInv
<1>2. QED
  BY SlotsInit, SlotsNext, SlotInvariant, <1>1, PTL DEF Spec, ImplementsRunSlots, Slots!Spec

=============================================================================
