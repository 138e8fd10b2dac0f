--------------------------- MODULE ApprovalWorkflow ---------------------------
(***************************************************************************)
(* WorkflowManager and ApprovalWorkflow: core/approvals/workflow.py, the   *)
(* stages an approval route (engine.py) takes a request through.           *)
(*                                                                         *)
(* One workflow stands for all, they share no state.  Approvers and        *)
(* strangers call record_decision, a scan expires or escalates what is     *)
(* overdue, and cancel may be called: in any order and in any status, for  *)
(* no operation but the scans looks at the status.  Stages are numbered    *)
(* from 1.  Every stage a manager makes is PARALLEL.                       *)
(***************************************************************************)
EXTENDS Integers, Sequences, FiniteSets

CONSTANTS
    People,         \* who may call record_decision
    Routes,         \* routes: sequences of stages, which are lists of people
    Observed,       \* routes made after hours: their last stage is an observer's
    MaxDecisions    \* bound: decisions recorded in a stage

ASSUME RoutesAssumption == Routes \subseteq Seq(Seq(People))
ASSUME ObservedAssumption == Observed \subseteq Routes \ {<<>>}
ASSUME MaxDecisionsAssumption == MaxDecisions \in Nat

VARIABLES
    route,      \* approvers of the stages
    status,     \* of the workflow
    final,      \* final_status, or "none"
    current,    \* current_stage
    stage,      \* status of each stage
    decisions,  \* what each stage recorded, in order
    late,       \* the due date of the current stage has passed
    told        \* callbacks that were called

vars == <<route, status, final, current, stage, decisions, late, told>>

-----------------------------------------------------------------------------

Status == {"none", "active", "pending", "escalated", "completed", "rejected",
           "expired", "cancelled"}
StageStatus == {"created", "pending", "completed", "rejected"}
Final == {"none", "approved", "rejected", "expired", "cancelled", "auto_approved"}

(* The ApprovalStatus of a decision; the others have no effect.            *)
Verdicts == {"approved", "rejected", "other"}
Decision == [by : People, verdict : Verdicts]

Stages == DOMAIN route

(* The engine selects the security officer of an after-hours request with  *)
(* is_required=False, in a stage of his own behind the others; the others  *)
(* are required.  create_route keeps no trace of it, so no action reads    *)
(* this.                                                                   *)
RequiredStages == IF route \in Observed THEN Stages \ {Len(route)} ELSE Stages

TypeOK ==
    /\ route \in Seq(Seq(People))
    /\ status \in Status
    /\ final \in Final
    /\ current \in Nat \ {0}
    /\ Stages # {} => current \in Stages
    /\ stage \in [Stages -> StageStatus]
    /\ decisions \in [Stages -> Seq(Decision)]
    /\ late \in BOOLEAN
    /\ told \subseteq {"approval", "rejection"}

Init ==
    /\ route = <<>>
    /\ status = "none"
    /\ final = "none"
    /\ current = 1
    /\ stage = <<>>
    /\ decisions = <<>>
    /\ late = FALSE
    /\ told = {}

-----------------------------------------------------------------------------

(* create_workflow: a route without a stage leaves the workflow active.    *)
Create ==
    /\ status = "none"
    /\ \E r \in Routes :
        /\ route' = r
        /\ status' = IF r = <<>> THEN "active" ELSE "pending"
        /\ stage' = [i \in DOMAIN r |-> IF i = 1 THEN "pending" ELSE "created"]
        /\ decisions' = [i \in DOMAIN r |-> <<>>]
    /\ UNCHANGED <<final, current, late, told>>

(* An auto-approved route has no stages and calls nothing back.            *)
CreateApproved ==
    /\ status = "none"
    /\ status' = "completed"
    /\ final' = "auto_approved"
    /\ UNCHANGED <<route, current, stage, decisions, late, told>>

-----------------------------------------------------------------------------

Listed(i) == {route[i][k] : k \in DOMAIN route[i]}
With(ds, v) == {k \in DOMAIN ds : ds[k].verdict = v}

\* Approvals are counted against the entries of the list.
Enough(i, ds) == Cardinality(With(ds, "approved")) >= Len(route[i])

\* Mutant of StageAfter: the rule of an ANY stage.
StageAfterAny(i, ds) ==
    IF With(ds, "rejected") # {} THEN "rejected"
    ELSE IF With(ds, "approved") # {} THEN "completed" ELSE stage[i]

\* Mutant of StageAfter: approvals are looked at first.
StageAfterApprovals(i, ds) ==
    IF Enough(i, ds) THEN "completed"
    ELSE IF With(ds, "rejected") # {} THEN "rejected" ELSE stage[i]

(* _check_completion of a PARALLEL stage.                                  *)
StageAfter(i, ds) ==
    IF With(ds, "rejected") # {} THEN "rejected"
    ELSE IF Enough(i, ds) THEN "completed" ELSE stage[i]

\* Mutant of Advance: the last stage is left as well.
AdvanceFromLast(i) ==
    /\ current' = i + 1
    /\ late' = FALSE
    /\ UNCHANGED <<status, final>>

(* _handle_stage_completion: a rejected stage ends the workflow, a         *)
(* completed one starts the next, the last one ends it.  What the          *)
(* workflow's status was makes no difference.                              *)
Advance(i) ==
    /\ i < Len(route)
    /\ current' = i + 1
    /\ late' = FALSE
    /\ UNCHANGED <<status, final>>

Finish(outcome, s) ==
    /\ status' = s
    /\ final' = outcome
    /\ UNCHANGED <<current, late>>

HandleCompletion(i, s) ==
    \/ s = "rejected" /\ Finish("rejected", "rejected")
    \/ s = "completed" /\ Advance(i)
    \/ s = "completed" /\ i = Len(route) /\ Finish("approved", "completed")
    \/ s = "pending" /\ UNCHANGED <<status, final, current, late>>

(* The stage that is next is started with the advance.                     *)
Started(i, s) ==
    [j \in Stages |-> IF j = i THEN s
                      ELSE IF s = "completed" /\ j = i + 1 THEN "pending"
                      ELSE stage[j]]

CallBack ==
    told' = told \cup (CASE final' = "approved" -> {"approval"}
                         [] final' = "rejected" -> {"rejection"}
                         [] OTHER -> {})

(* record_decision, by somebody the current stage lists.  Nothing asks     *)
(* whether the same person decided before.                                 *)
RecordDecision(p, v) ==
    /\ Stages # {}
    /\ p \in Listed(current)
    /\ Len(decisions[current]) < MaxDecisions
    /\ LET ds == Append(decisions[current], [by |-> p, verdict |-> v])
           s == StageAfter(current, ds)
       IN  /\ decisions' = [decisions EXCEPT ![current] = ds]
           /\ HandleCompletion(current, s)
           /\ stage' = Started(current, s)
    /\ CallBack
    /\ UNCHANGED route

(* Anybody else is refused, and the callbacks are called all the same.     *)
RefuseDecision(p) ==
    /\ status # "none"
    /\ Stages # {} => p \notin Listed(current)
    /\ UNCHANGED <<route, status, final, current, stage, decisions, late>>
    /\ CallBack

-----------------------------------------------------------------------------

DueDatePasses ==
    /\ Stages # {} /\ ~ late
    /\ late' = TRUE
    /\ UNCHANGED <<route, status, final, current, stage, decisions, told>>

Overdue == Stages # {} /\ late /\ stage[current] \notin {"completed", "rejected"}

(* check_sla_breaches and check_expiry.                                    *)
Expire ==
    /\ status = "pending" /\ Overdue
    /\ status' = "expired"
    /\ final' = "expired"
    /\ UNCHANGED <<route, current, stage, decisions, late, told>>

(* escalate_overdue: neither scan looks at the workflow again.             *)
Escalate ==
    /\ status = "pending" /\ Overdue
    /\ status' = "escalated"
    /\ UNCHANGED <<route, final, current, stage, decisions, late, told>>

Cancel ==
    /\ status # "none"
    /\ status' = "cancelled"
    /\ final' = "cancelled"
    /\ UNCHANGED <<route, current, stage, decisions, late, told>>

-----------------------------------------------------------------------------

Next ==
    \/ Create \/ CreateApproved
    \/ \E p \in People : RefuseDecision(p) \/ \E v \in Verdicts : RecordDecision(p, v)
    \/ DueDatePasses \/ Expire \/ Escalate \/ Cancel

Spec == Init /\ [][Next]_vars

-----------------------------------------------------------------------------

(* Whatever was decided after an expiry, an escalation or a cancellation:  *)
(* on_approval is called only when every required stage of the route has   *)
(* as many approvals as approvers, what is approved no required approver   *)
(* rejected, the stages before the current one are closed without a        *)
(* rejection and none after it has begun (workflow.py:104-116, 255-274).   *)
(* It counts approvals, not who gave them (see ApprovedByAll), and claims  *)
(* nothing of an observer's stage (see ObserversDoNotBlock).               *)
ApprovalNeedsEveryStage ==
    /\ "approval" \in told => \A i \in RequiredStages : Enough(i, decisions[i])
    /\ final = "approved" =>
            \A i \in RequiredStages : With(decisions[i], "rejected") = {}
    /\ \A i \in Stages :
        /\ i < current => /\ stage[i] = "completed"
                          /\ Enough(i, decisions[i])
                          /\ With(decisions[i], "rejected") = {}
        /\ i > current => stage[i] = "created" /\ decisions[i] = <<>>

(* A rejection in any required stage is final: no later approval, by       *)
(* whomever and after whatever happened to the workflow, turns it into an  *)
(* approval (workflow.py:110-112, 257-261).                                *)
Rejected == \E i \in RequiredStages : With(decisions[i], "rejected") # {}
RejectionStands ==
    [][Rejected => final' # "approved" /\ ("approval" \in told' => "approval" \in told)]_vars

(* The stages as StagedBallot.tla sees them: the status of the current one *)
(* is the verdict so far.                                                  *)
Approvals == [i \in Stages |-> Cardinality(With(decisions[i], "approved"))]
BallotVerdict ==
    IF Stages = {} THEN "open"
    ELSE IF stage[current] = "completed" THEN "carried"
    ELSE IF stage[current] = "rejected" THEN "defeated" ELSE "open"

Ballot == INSTANCE StagedBallot WITH
    turn <- current, approvals <- Approvals, verdict <- BallotVerdict,
    outcome <- final, announced <- told

(* Expiries, escalations, cancellations and decisions after the end leave  *)
(* the ballot what it is: a stage votes in its turn only, one rejection in *)
(* a required stage defeats the route for good, and an approval is         *)
(* recorded or called back only when every required stage carried it       *)
(* (workflow.py:104-116, 199-274).                                         *)
ImplementsBallot == Ballot!Spec

(* "All approvers must approve" (workflow.py:42): everybody a stage lists  *)
(* approved it.                                                            *)
ApprovedByAll ==
    final = "approved" =>
        \A i \in Stages : \A p \in Listed(i) :
            \E k \in With(decisions[i], "approved") : decisions[i][k].by = p

(* "Observer, not blocker" (engine.py:368): a request made after hours     *)
(* that every required approver approved is not rejected.                  *)
ApprovedWhereRequired ==
    \A i \in RequiredStages :
        Enough(i, decisions[i]) /\ With(decisions[i], "rejected") = {}
ObserversDoNotBlock ==
    route \in Observed /\ ApprovedWhereRequired => final # "rejected"

=============================================================================
