---------------------------- MODULE AccessRequest ----------------------------
(***************************************************************************)
(* The access-request lifecycle of core/access_request: AccessRequestManager*)
(* (manager.py), its WorkflowEngine (workflow.py), the data model           *)
(* (models.py) and the cancel endpoint (api/routers/access_requests.py).    *)
(*                                                                         *)
(* The code runs on one asyncio loop, so a handler is atomic between two    *)
(* awaits that really suspend.  The only such awaits are the calls of the   *)
(* notification handler: `suspended` and `telling` count the calls parked   *)
(* there, and the code after the await is an action of its own.             *)
(***************************************************************************)
EXTENDS Naturals, FiniteSets

CONSTANTS
    Requests,          \* request ids the manager may be asked to create
    Users,             \* people who act on approval steps
    NoUser,            \* Python's None where a user id is expected
    Target,            \* [Requests -> Users]: target_user_id
    ManagerOf,         \* user_resolver(u, "manager"), NoUser when unknown
    DefaultManager,    \* "default.manager@company.com"
    RoleOwner,         \* "role.owner@company.com"
    Delegates,         \* users a step may be delegated to (bounds TLC only)
    Rules,             \* the approval rules; a rule yields at most one step
    ManagerRule,       \* RULE_MGR_001: no conditions, applies to everything
    RiskRules,         \* rules conditioned on high risk or SoD violations
    SpecificRules,     \* rules that carry a specific_approvers list
    SpecificLead,      \* [SpecificRules -> Users]: first entry of that list
    SpecificApprovers, \* [SpecificRules -> SUBSET Users]: the configured list
    Priority,          \* [Rules -> Nat]: evaluation order, lower is first
    MaxLevels,         \* config["max_approval_levels"]
    AutoApprove,       \* config["auto_approve_low_risk"]
    Temporary,         \* requests made with is_temporary and an end date
    HandlerMayFail     \* whether the notification handler may raise

ASSUME RulesAssumption ==
    /\ IsFiniteSet(Rules)
    /\ ManagerRule \in Rules \ SpecificRules
    /\ RiskRules \subseteq Rules \ {ManagerRule}
    /\ SpecificRules \subseteq Rules
    /\ Priority \in [Rules -> Nat]
    /\ \A j, k \in Rules : Priority[j] = Priority[k] => j = k
    /\ MaxLevels \in Nat

ASSUME UsersAssumption ==
    /\ NoUser \notin Users \cup Requests \cup Rules
    /\ Target \in [Requests -> Users]
    /\ ManagerOf \in [Users -> Users \cup {NoUser}]
    /\ {DefaultManager, RoleOwner} \subseteq Users
    /\ Delegates \subseteq Users
    /\ SpecificLead \in [SpecificRules -> Users]
    /\ SpecificApprovers \in [SpecificRules -> SUBSET Users]
    /\ \A k \in SpecificRules : SpecificLead[k] \in SpecificApprovers[k]

ASSUME ConfigAssumption ==
    /\ AutoApprove \in BOOLEAN
    /\ HandlerMayFail \in BOOLEAN
    /\ Temporary \subseteq Requests

VARIABLES
    status,        \* AccessRequest.status; "none" before create_request
    steps,         \* approval_steps, keyed by the rule that made the step
    currentStep,   \* AccessRequest.current_step, an index into the steps
    ruleApprovers, \* ApprovalRule.specific_approvers, one list per rule
    suspended,     \* process_approval calls waiting for _send_notifications
    telling,       \* _provision_access calls waiting for the requester's notice
    expires,       \* access_expires_at is set
    phase,         \* where the clock stands relative to requested_end_date
    noticeSent,    \* expiry_notification_sent
    slaAt,         \* the step at which the SLA scan is suspended
    grants,        \* how often the access was provisioned
    held,          \* the target has the access in the target system
    dropped        \* history: a call whose request was approved has raised

vars == <<status, steps, currentStep, ruleApprovers, suspended, telling,
          expires, phase, noticeSent, slaAt, grants, held, dropped>>

-----------------------------------------------------------------------------
(* Data *)

Statuses == {"none", "draft", "pending", "approved", "rejected", "provisioned",
             "failed", "cancelled", "expired"}

Step == [status      : {"absent", "pending", "approved", "rejected", "escalated"},
         approvers   : SUBSET Users,   \* approver_ids when the list is the step's own
         shared      : BOOLEAN,        \* approver_ids is the rule's list object
         lead        : Users,          \* approver_ids[0]
         delegatedTo : Users \cup {NoUser},
         actionedBy  : Users \cup {NoUser},
         overdue     : BOOLEAN,        \* datetime.now() > due_date
         escalated   : BOOLEAN]        \* escalation_triggered

NoStep == [status |-> "absent", approvers |-> {}, shared |-> FALSE,
           lead |-> DefaultManager, delegatedTo |-> NoUser,
           actionedBy |-> NoUser, overdue |-> FALSE, escalated |-> FALSE]

Nowhere == [req |-> NoUser, rule |-> NoUser]

Present(r) == {k \in Rules : steps[r][k].status # "absent"}

ApproverIds(r, k) ==
    IF steps[r][k].shared THEN ruleApprovers[k] ELSE steps[r][k].approvers

\* step_index + 1 of the step made by rule k
StepNumber(r, k) == Cardinality({j \in Present(r) : Priority[j] <= Priority[k]})

\* Mutant of FullyApproved: any() where the code has all().
AnyApproved(table) == \E k \in Rules : table[k].status = "approved"

\* is_fully_approved, on a given table of steps of one request
FullyApproved(table) ==
    /\ \E k \in Rules : table[k].status # "absent"
    /\ \A k \in Rules : table[k].status \in {"absent", "approved"}

-----------------------------------------------------------------------------
(* generate_workflow *)

\* Mutant of ManagerList: nobody checks that a manager was found.
UncheckedManager(u) == {ManagerOf[u]}

\* user_resolver(u, "manager") as a list: empty when the user has no manager
ManagerList(u) == IF ManagerOf[u] = NoUser THEN {} ELSE {ManagerOf[u]}

\* _resolve_approvers: the rule's own list, or a fresh one-element list

Resolved(r, k) ==
    CASE k \in SpecificRules -> ruleApprovers[k]
      [] k = ManagerRule     -> ManagerList(Target[r])
      [] OTHER               -> {RoleOwner}

\* The matching rules that find approvers, cut off at max_approval_levels
Generated(r, matching) ==
    LET able == {k \in matching : Resolved(r, k) # {}}
    IN  {k \in able :
            Cardinality({j \in able : Priority[j] < Priority[k]}) < MaxLevels}

ManagerId(r) ==
    IF ManagerOf[Target[r]] = NoUser THEN DefaultManager ELSE ManagerOf[Target[r]]

\* _create_approval_step and, when no rule produced a step, _create_manager_step
NewStep(r, k) ==
    IF k \in SpecificRules
    THEN [NoStep EXCEPT !.status = "pending", !.shared = TRUE,
                        !.lead = SpecificLead[k]]
    ELSE LET user == IF k = ManagerRule THEN ManagerId(r) ELSE RoleOwner
         IN  [NoStep EXCEPT !.status = "pending", !.approvers = {user},
                            !.lead = user]

Workflow(r, matching) ==
    LET made == IF Generated(r, matching) = {} THEN {ManagerRule}
                                               ELSE Generated(r, matching)
    IN  [k \in Rules |-> IF k \in made THEN NewStep(r, k) ELSE NoStep]

-----------------------------------------------------------------------------
Init ==
    /\ status = [r \in Requests |-> "none"]
    /\ steps = [r \in Requests |-> [k \in Rules |-> NoStep]]
    /\ currentStep = [r \in Requests |-> 0]
    /\ ruleApprovers = SpecificApprovers
    /\ suspended = [r \in Requests |-> 0]
    /\ telling = [r \in Requests |-> 0]
    /\ expires = [r \in Requests |-> FALSE]
    /\ phase = [r \in Requests |-> "far"]
    /\ noticeSent = [r \in Requests |-> FALSE]
    /\ slaAt = Nowhere
    /\ grants = [r \in Requests |-> 0]
    /\ held = [r \in Requests |-> FALSE]
    /\ dropped = [r \in Requests |-> FALSE]

CreateRequest(r) ==
    /\ status[r] = "none"
    /\ status' = [status EXCEPT ![r] = "draft"]
    /\ UNCHANGED <<steps, currentStep, ruleApprovers, suspended, telling,
                   expires, phase, noticeSent, slaAt, grants, held, dropped>>

\* submit_request.  The risk analysis decides which conditional rules match
\* and whether the score is low; a low-risk request matches no risk rule.
SubmitRequest(r) ==
    /\ status[r] = "draft"
    /\ \E others \in SUBSET (Rules \ {ManagerRule}), lowRisk \in BOOLEAN :
        /\ lowRisk => others \cap RiskRules = {}
        /\ steps' = [steps EXCEPT ![r] = Workflow(r, others \cup {ManagerRule})]
        /\ status' = [status EXCEPT ![r] =
                        IF AutoApprove /\ lowRisk THEN "approved" ELSE "pending"]
    /\ currentStep' = [currentStep EXCEPT ![r] = 0]
    /\ UNCHANGED <<ruleApprovers, suspended, telling, expires, phase,
                   noticeSent, slaAt, grants, held, dropped>>

\* Mutant of Cancellable: a list of what may not be cancelled, one status short.
NotGranted(r) == status[r] \notin {"none", "approved", "provisioned", "cancelled"}

\* The status check of the cancel endpoint
Cancellable(r) == status[r] \in {"draft", "pending"}

\* The cancel endpoint: the requester, while the request is undecided
CancelRequest(r) ==
    /\ Cancellable(r)
    /\ status' = [status EXCEPT ![r] = "cancelled"]
    /\ UNCHANGED <<steps, currentStep, ruleApprovers, suspended, telling,
                   expires, phase, noticeSent, slaAt, grants, held, dropped>>

-----------------------------------------------------------------------------
(* process_approval *)

\* The lookup and authorisation at the top of process_approval_action
MayAct(r, k, u) ==
    /\ steps[r][k].status = "pending"
    /\ u \in ApproverIds(r, k) \cup {steps[r][k].delegatedTo}

\* Mutant of ReadyToProvision: the sequence counter is trusted instead.
LastStepReached(r) ==
    status[r] = "approved" /\ currentStep[r] = Cardinality(Present(r))

\* Mutant of ReadyToProvision: a parked call provisions what another one did.
ApprovedAtLeast(r) == status[r] \in {"approved", "provisioned"}

\* Mutant of ReadyToProvision: only a rejection stands in the way.
NotRejected(r) == status[r] \in {"pending", "approved"}

\* "If approved, start provisioning"
ReadyToProvision(r) == status[r] = "approved"

\* The end of process_approval, with _provision_access up to its await
ProvisionIfApproved(r) ==
    IF ReadyToProvision(r)
    THEN /\ status' = [status EXCEPT ![r] = "provisioned"]
         /\ grants' = [grants EXCEPT ![r] = @ + 1]
         /\ held' = [held EXCEPT ![r] = TRUE]
         /\ expires' = [expires EXCEPT ![r] = @ \/ r \in Temporary]
         /\ telling' = [telling EXCEPT ![r] = @ + 1]
    ELSE UNCHANGED <<status, grants, held, expires, telling>>

\* The status once a step was approved; table holds the steps with the approval
StatusAfter(r, table) == IF FullyApproved(table) THEN "approved" ELSE status[r]

\* APPROVE: record it, then wait in the notification handler
Approve(r, k, u) ==
    /\ MayAct(r, k, u)
    /\ steps' = [steps EXCEPT ![r][k].status = "approved",
                              ![r][k].actionedBy = u]
    /\ currentStep' = [currentStep EXCEPT ![r] = StepNumber(r, k)]
    /\ status' = [status EXCEPT ![r] = StatusAfter(r, steps'[r])]
    /\ suspended' = [suspended EXCEPT ![r] = @ + 1]
    /\ UNCHANGED <<ruleApprovers, telling, expires, phase, noticeSent, slaAt,
                   grants, held, dropped>>

\* REJECT: one rejection rejects the request
Reject(r, k, u) ==
    /\ MayAct(r, k, u)
    /\ steps' = [steps EXCEPT ![r][k].status = "rejected",
                              ![r][k].actionedBy = u]
    /\ status' = [status EXCEPT ![r] = "rejected"]
    /\ suspended' = [suspended EXCEPT ![r] = @ + 1]
    /\ UNCHANGED <<currentStep, ruleApprovers, telling, expires, phase,
                   noticeSent, slaAt, grants, held, dropped>>

\* DELEGATE: the step gets a list of its own with the delegate as only entry.
\* No notification, so the check for provisioning runs in the same step.
Delegate(r, k, u, d) ==
    /\ MayAct(r, k, u)
    /\ steps' = [steps EXCEPT ![r][k] =
                    [@ EXCEPT !.actionedBy = u, !.delegatedTo = d,
                              !.approvers = {d}, !.shared = FALSE, !.lead = d]]
    /\ ProvisionIfApproved(r)
    /\ UNCHANGED <<currentStep, ruleApprovers, suspended, phase, noticeSent,
                   slaAt, dropped>>

\* DELEGATE without delegate_to: the ValueError comes after the actor is recorded
DelegateRefused(r, k, u) ==
    /\ MayAct(r, k, u)
    /\ steps' = [steps EXCEPT ![r][k].actionedBy = u]
    /\ UNCHANGED <<status, currentStep, ruleApprovers, suspended, telling, expires,
                   phase, noticeSent, slaAt, grants, held, dropped>>

\* ESCALATE: the step leaves "pending" for good
Escalate(r, k, u) ==
    /\ MayAct(r, k, u)
    /\ steps' = [steps EXCEPT ![r][k].status = "escalated",
                              ![r][k].actionedBy = u,
                              ![r][k].escalated = TRUE]
    /\ ProvisionIfApproved(r)
    /\ UNCHANGED <<currentStep, ruleApprovers, suspended, phase, noticeSent,
                   slaAt, dropped>>

\* REQUEST_INFO: only the actor and a comment are recorded
RequestInfo(r, k, u) ==
    /\ MayAct(r, k, u)
    /\ steps' = [steps EXCEPT ![r][k].actionedBy = u]
    /\ ProvisionIfApproved(r)
    /\ UNCHANGED <<currentStep, ruleApprovers, suspended, phase, noticeSent,
                   slaAt, dropped>>

\* The handler returns: process_approval goes on and looks at the status again
Resume(r) ==
    /\ suspended[r] > 0
    /\ suspended' = [suspended EXCEPT ![r] = @ - 1]
    /\ ProvisionIfApproved(r)
    /\ UNCHANGED <<steps, currentStep, ruleApprovers, phase, noticeSent, slaAt,
                   dropped>>

\* The handler raises: the exception leaves process_approval
ResumeRaises(r) ==
    /\ HandlerMayFail
    /\ suspended[r] > 0
    /\ suspended' = [suspended EXCEPT ![r] = @ - 1]
    /\ dropped' = [dropped EXCEPT ![r] = @ \/ status[r] = "approved"]
    /\ UNCHANGED <<status, steps, currentStep, ruleApprovers, telling, expires,
                   phase, noticeSent, slaAt, grants, held>>

Raised == IF HandlerMayFail THEN {"failed"} ELSE {}

\* Mutant of NoticeOutcomes: PROVISIONED is assigned once the notice is out.
LateOutcomes(r) == {"provisioned"} \cup Raised

\* The status after the requester's notice returned or raised
NoticeOutcomes(r) == {status[r]} \cup Raised

\* The requester's notice returns, or raises into _provision_access's except
Told(r) ==
    /\ telling[r] > 0
    /\ telling' = [telling EXCEPT ![r] = @ - 1]
    /\ \E out \in NoticeOutcomes(r) : status' = [status EXCEPT ![r] = out]
    /\ UNCHANGED <<steps, currentStep, ruleApprovers, suspended, expires, phase,
                   noticeSent, slaAt, grants, held, dropped>>

-----------------------------------------------------------------------------
(* check_sla_and_escalate *)

\* is_overdue, not yet escalated, and in the part of the list still to scan
Escalatable(r, k) ==
    /\ steps[r][k].status = "pending"
    /\ steps[r][k].overdue
    /\ ~ steps[r][k].escalated
    /\ slaAt.req = r => Priority[k] > Priority[slaAt.rule]

\* One iteration of the inner loop, up to the notifications of _escalate_step.
\* The request's status is read when the scan enters the request, not again.
SlaEscalate(r, k) ==
    /\ slaAt.req # r => slaAt = Nowhere /\ status[r] = "pending"
    /\ Escalatable(r, k)
    /\ \A j \in Rules : Escalatable(r, j) => Priority[k] <= Priority[j]
    /\ LET added == ManagerList(steps[r][k].lead)
       IN  IF steps[r][k].shared
           THEN /\ ruleApprovers' = [ruleApprovers EXCEPT ![k] = @ \cup added]
                /\ steps' = [steps EXCEPT ![r][k].escalated = TRUE]
           ELSE /\ steps' = [steps EXCEPT ![r][k] =
                                [@ EXCEPT !.escalated = TRUE,
                                          !.approvers = ApproverIds(r, k) \cup added]]
                /\ UNCHANGED ruleApprovers
    /\ slaAt' = [req |-> r, rule |-> k]
    /\ UNCHANGED <<status, currentStep, suspended, telling, expires, phase,
                   noticeSent, grants, held, dropped>>

\* The scan finds nothing more in this request, or a notification raises
SlaLeave ==
    /\ slaAt # Nowhere
    /\ HandlerMayFail \/ \A k \in Rules : ~ Escalatable(slaAt.req, k)
    /\ slaAt' = Nowhere
    /\ UNCHANGED <<status, steps, currentStep, ruleApprovers, suspended, telling,
                   expires, phase, noticeSent, grants, held, dropped>>

-----------------------------------------------------------------------------
(* Expiry *)

\* check_expiring_access, for one request whose notice is delivered
NotifyExpiry(r) ==
    /\ expires[r] /\ phase[r] \in {"near", "past"} /\ ~ noticeSent[r]
    /\ noticeSent' = [noticeSent EXCEPT ![r] = TRUE]
    /\ UNCHANGED <<status, steps, currentStep, ruleApprovers, suspended, telling,
                   expires, phase, slaAt, grants, held, dropped>>

\* Mutant of Revocable: access is only revoked after the holder was warned.
WarnedAndPast(r) ==
    expires[r] /\ phase[r] = "past" /\ status[r] = "provisioned" /\ noticeSent[r]

\* The selection of revoke_expired_access
Revocable(r) == expires[r] /\ phase[r] = "past" /\ status[r] = "provisioned"

\* revoke_expired_access, for one request
RevokeExpired(r) ==
    /\ Revocable(r)
    /\ status' = [status EXCEPT ![r] = "expired"]
    /\ held' = [held EXCEPT ![r] = FALSE]
    /\ UNCHANGED <<steps, currentStep, ruleApprovers, suspended, telling, expires,
                   phase, noticeSent, slaAt, grants, dropped>>

-----------------------------------------------------------------------------
(* Time *)

DueDatePasses(r, k) ==
    /\ steps[r][k].status = "pending" /\ ~ steps[r][k].overdue
    /\ steps' = [steps EXCEPT ![r][k].overdue = TRUE]
    /\ UNCHANGED <<status, currentStep, ruleApprovers, suspended, telling, expires,
                   phase, noticeSent, slaAt, grants, held, dropped>>

EndDateNears(r) ==
    /\ r \in Temporary /\ phase[r] # "past"
    /\ phase' = [phase EXCEPT ![r] = IF @ = "far" THEN "near" ELSE "past"]
    /\ UNCHANGED <<status, steps, currentStep, ruleApprovers, suspended, telling,
                   expires, noticeSent, slaAt, grants, held, dropped>>

-----------------------------------------------------------------------------
Act(r, k, u) ==
    \/ Approve(r, k, u)
    \/ Reject(r, k, u)
    \/ Escalate(r, k, u)
    \/ RequestInfo(r, k, u)
    \/ DelegateRefused(r, k, u)
    \/ \E d \in Delegates : Delegate(r, k, u, d)

Next ==
    \/ \E r \in Requests :
        \/ CreateRequest(r) \/ SubmitRequest(r) \/ CancelRequest(r)
        \/ Resume(r) \/ ResumeRaises(r) \/ Told(r)
        \/ NotifyExpiry(r) \/ RevokeExpired(r) \/ EndDateNears(r)
        \/ \E k \in Rules :
            \/ SlaEscalate(r, k) \/ DueDatePasses(r, k)
            \/ \E u \in Users : Act(r, k, u)
    \/ SlaLeave

Spec == Init /\ [][Next]_vars

\* The event loop resumes every finished await, and awaits of the handler end,
\* with a return or an exception.  The expiry scans get no fairness: they are
\* public methods of the manager that nothing in the repository calls.
Fairness ==
    \A r \in Requests :
        /\ WF_vars(Resume(r) \/ ResumeRaises(r))
        /\ WF_vars(Told(r))

FairSpec == Spec /\ Fairness

-----------------------------------------------------------------------------
(* Properties *)

\* Type invariant of the request table, the rules' lists and the parked calls.
TypeOK ==
    /\ status \in [Requests -> Statuses]
    /\ steps \in [Requests -> [Rules -> Step]]
    /\ currentStep \in [Requests -> Nat]
    /\ ruleApprovers \in [SpecificRules -> SUBSET Users]
    /\ suspended \in [Requests -> Nat]
    /\ telling \in [Requests -> Nat]
    /\ expires \in [Requests -> BOOLEAN]
    /\ phase \in [Requests -> {"far", "near", "past"}]
    /\ noticeSent \in [Requests -> BOOLEAN]
    /\ slaAt \in [req : Requests \cup {NoUser}, rule : Rules \cup {NoUser}]
    /\ slaAt.req \in Requests => slaAt.rule \in Rules
    /\ grants \in [Requests -> Nat]
    /\ held \in [Requests -> BOOLEAN]
    /\ dropped \in [Requests -> BOOLEAN]

\* Access is provisioned only for a request all of whose steps were approved,
\* in whatever order approvers act, delegate and reject, and whichever parked
\* process_approval call is the one that finds the request approved.
GrantNeedsEveryApproval ==
    \A r \in Requests : grants[r] > 0 =>
        /\ Present(r) # {}
        /\ \A k \in Present(r) : steps[r][k].status = "approved"

\* Several process_approval calls of one request can be parked in the handler
\* when the last step is approved; only one of them provisions.
GrantAtMostOnce == \A r \in Requests : grants[r] <= 1

\* A request under approval still has a step somebody has not approved: the
\* last approval never leaves it undecided.
PendingHasOpenStep ==
    \A r \in Requests : status[r] = "pending" =>
        \E k \in Rules : steps[r][k].status \in {"pending", "escalated"}

\* What the status says of the target system: a provisioned request's access
\* is there, and access that is there belongs to a provisioned or failed one.
StatusTellsAccess ==
    \A r \in Requests :
        /\ status[r] = "provisioned" => held[r]
        /\ held[r] => status[r] \in {"provisioned", "failed"}

\* A rejected request stays rejected, though its other steps can still be
\* approved, rejected, delegated and escalated.
RejectionIsFinal ==
    [][\A r \in Requests : status[r] = "rejected" => status'[r] = "rejected"]_vars

\* The promise to auditors (AccessGrant.tla): a grant follows the votes of
\* every step fixed at submission, once, and ends at most once.
Grant == INSTANCE AccessGrant WITH
    required <- [r \in Requests |-> Present(r)],
    votes    <- [r \in Requests |-> {k \in Rules : steps[r][k].status = "approved"}],
    vetoes   <- [r \in Requests |-> {k \in Rules : steps[r][k].status = "rejected"}],
    granted  <- [r \in Requests |-> IF grants[r] = 0 THEN "no"
                                    ELSE IF held[r] THEN "yes" ELSE "ended"]

ImplementsGrant == Grant!Spec

\* A fully approved request is provisioned although other approvers' calls are
\* parked beside the one that completed it: one of them finds the status
\* approved when its notices are out, unless one that would have raised.
ApprovedIsProvisioned ==
    \A r \in Requests : status[r] = "approved" ~> grants[r] > 0 \/ dropped[r]

\* What revoke_expired_access finds when somebody calls it: temporary access
\* held after its end date is selected, whatever was acted, cancelled, warned
\* and scanned before, except after a requester's notice that raised: its
\* request is FAILED for good, though the access was given.
EndedAccessIsRevocable ==
    \A r \in Temporary :
        held[r] /\ phase[r] = "past" => Revocable(r) \/ status[r] = "failed"

\* The inductive strengthening of the safety invariants: what every status says
\* of the steps, of the grant and of the calls still parked.  It holds when no
\* request is auto-approved.
DecisionInv(r) ==
    /\ status[r] \in {"none", "draft"} => Present(r) = {}
    /\ status[r] = "pending" =>
        /\ Present(r) # {} /\ ~ FullyApproved(steps[r])
        /\ \A k \in Rules : steps[r][k].status # "rejected"
    /\ status[r] = "rejected" => \E k \in Rules : steps[r][k].status = "rejected"
    /\ status[r] \in {"approved", "provisioned", "failed", "expired"}
        => FullyApproved(steps[r])
    /\ grants[r] <= 1
    /\ grants[r] > 0 <=> status[r] \in {"provisioned", "failed", "expired"}
    /\ telling[r] > 0 => grants[r] > 0
    /\ held[r] => status[r] \in {"provisioned", "failed"}
    /\ status[r] = "provisioned" => held[r]

Inv == TypeOK /\ \A r \in Requests : DecisionInv(r)

-----------------------------------------------------------------------------
(* Statements of the repository that the code does not keep *)

\* "Request has been cancelled" (api/routers/access_requests.py): a cancelled
\* request is not provisioned afterwards.
CancelledStaysCancelled ==
    [][\A r \in Requests : status[r] = "cancelled" => status'[r] # "approved"]_vars
=============================================================================
