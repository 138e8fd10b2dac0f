------------------------- MODULE AccessRequestProofs -------------------------
(***************************************************************************)
(* Proofs about AccessRequest, for every set of requests, users and rules.  *)
(***************************************************************************)
EXTENDS AccessRequest, FiniteSetTheorems, TLAPS

\* The steps a fresh workflow is made of have their type, and there is one.
LEMMA WorkflowType ==
    ASSUME NEW r \in Requests, NEW matching \in SUBSET Rules
    PROVE  /\ Workflow(r, matching) \in [Rules -> Step]
           /\ \E k \in Rules : Workflow(r, matching)[k].status = "pending"
           /\ \A k \in Rules :
                Workflow(r, matching)[k].status \in {"absent", "pending"}
<1> USE RulesAssumption, UsersAssumption
<1>1. NoStep \in Step /\ NoStep.status = "absent"
  BY DEF NoStep, Step
<1>2. ManagerId(r) \in Users
  BY DEF ManagerId
<1>3. ASSUME NEW k \in Rules
      PROVE  NewStep(r, k) \in Step /\ NewStep(r, k).status = "pending"
  <2>1. CASE k \in SpecificRules
    BY <1>1, <2>1 DEF NewStep, NoStep, Step
  <2>2. CASE k \notin SpecificRules
    <3> DEFINE user == IF k = ManagerRule THEN ManagerId(r) ELSE RoleOwner
    <3>1. user \in Users
      BY <1>2
    <3>2. NewStep(r, k) = [NoStep EXCEPT !.status = "pending",
                                         !.approvers = {user}, !.lead = user]
      BY <2>2 DEF NewStep
    <3> HIDE DEF user
    <3>3. NewStep(r, k) = [status |-> "pending", approvers |-> {user},
                           shared |-> FALSE, lead |-> user,
                           delegatedTo |-> NoUser, actionedBy |-> NoUser,
                           overdue |-> FALSE, escalated |-> FALSE]
      BY <3>2 DEF NoStep
    <3>4. {user} \in SUBSET Users
      BY <3>1
    <3>5. QED
      BY <3>1, <3>3, <3>4 DEF Step
  <2>3. QED
    BY <2>1, <2>2
<1> DEFINE made == IF Generated(r, matching) = {} THEN {ManagerRule}
                                                  ELSE Generated(r, matching)
<1>4. made \subseteq Rules /\ made # {}
  BY DEF Generated
<1>5. Workflow(r, matching)
        = [k \in Rules |-> IF k \in made THEN NewStep(r, k) ELSE NoStep]
  BY DEF Workflow
<1> HIDE DEF made
<1>6. QED
  BY <1>1, <1>3, <1>4, <1>5

\* What every action on one step does to the table: the step of rule k of
\* request r ends in status st, and every other step is as it was.
Touches(r, k, st) ==
    /\ steps' \in [Requests -> [Rules -> Step]]
    /\ \A q \in Requests, j \in Rules :
        (q # r \/ j # k) => steps'[q][j] = steps[q][j]
    /\ steps'[r][k].status = st

\* Replacing the entry of one rule touches that entry only.
LEMMA TouchOne ==
    ASSUME TypeOK, NEW r \in Requests, NEW k \in Rules, NEW new \in Step,
           steps' = [steps EXCEPT ![r] = [steps[r] EXCEPT ![k] = new]]
    PROVE  Touches(r, k, new.status)
BY DEF TypeOK, Touches

\* What an approval does to the table of steps.
LEMMA ApproveTouches ==
    ASSUME TypeOK, NEW r \in Requests, NEW k \in Rules, NEW u \in Users,
           Approve(r, k, u)
    PROVE  Touches(r, k, "approved")
<1> DEFINE new == [steps[r][k] EXCEPT !.status = "approved", !.actionedBy = u]
<1>1. steps[r][k] \in Step
  BY DEF TypeOK
<1>2. new \in Step /\ new.status = "approved"
  BY <1>1 DEF Step
<1>3. steps' = [steps EXCEPT ![r] = [steps[r] EXCEPT ![k] = new]]
  BY DEF Approve, TypeOK
<1> HIDE DEF new
<1>4. QED
  BY <1>2, <1>3, TouchOne

\* What a rejection does to the table of steps.
LEMMA RejectTouches ==
    ASSUME TypeOK, NEW r \in Requests, NEW k \in Rules, NEW u \in Users,
           Reject(r, k, u)
    PROVE  Touches(r, k, "rejected")
<1> DEFINE new == [steps[r][k] EXCEPT !.status = "rejected", !.actionedBy = u]
<1>1. steps[r][k] \in Step
  BY DEF TypeOK
<1>2. new \in Step /\ new.status = "rejected"
  BY <1>1 DEF Step
<1>3. steps' = [steps EXCEPT ![r] = [steps[r] EXCEPT ![k] = new]]
  BY DEF Reject, TypeOK
<1> HIDE DEF new
<1>4. QED
  BY <1>2, <1>3, TouchOne

\* What an escalation by an approver does to the table of steps.
LEMMA EscalateTouches ==
    ASSUME TypeOK, NEW r \in Requests, NEW k \in Rules, NEW u \in Users,
           Escalate(r, k, u)
    PROVE  Touches(r, k, "escalated")
<1> DEFINE new == [steps[r][k] EXCEPT !.status = "escalated", !.actionedBy = u,
                                      !.escalated = TRUE]
<1>1. steps[r][k] \in Step
  BY DEF TypeOK
<1>2. new \in Step /\ new.status = "escalated"
  BY <1>1 DEF Step
<1>3. steps' = [steps EXCEPT ![r] = [steps[r] EXCEPT ![k] = new]]
  BY DEF Escalate, TypeOK
<1> HIDE DEF new
<1>4. QED
  BY <1>2, <1>3, TouchOne

\* A delegated step stays pending: the list of approvers is replaced.
LEMMA DelegateTouches ==
    ASSUME TypeOK, NEW r \in Requests, NEW k \in Rules, NEW u \in Users,
           NEW d \in Delegates, Delegate(r, k, u, d)
    PROVE  Touches(r, k, "pending")
<1> DEFINE new == [steps[r][k] EXCEPT !.actionedBy = u, !.delegatedTo = d,
                                      !.approvers = {d}, !.shared = FALSE,
                                      !.lead = d]
<1>1. steps[r][k] \in Step /\ d \in Users
  BY UsersAssumption DEF TypeOK
<1>2. steps[r][k].status = "pending"
  BY DEF Delegate, MayAct
<1>3. new \in Step /\ new.status = "pending"
  BY <1>1, <1>2 DEF Step
<1>4. steps' = [steps EXCEPT ![r] = [steps[r] EXCEPT ![k] = new]]
  BY DEF Delegate, TypeOK
<1> HIDE DEF new
<1>5. QED
  BY <1>3, <1>4, TouchOne

\* The actions that only record who acted: the step stays pending.
LEMMA RecordTouches ==
    ASSUME TypeOK, NEW r \in Requests, NEW k \in Rules, NEW u \in Users,
           RequestInfo(r, k, u) \/ DelegateRefused(r, k, u)
    PROVE  Touches(r, k, "pending")
<1> DEFINE new == [steps[r][k] EXCEPT !.actionedBy = u]
<1>1. steps[r][k] \in Step
  BY DEF TypeOK
<1>2. steps[r][k].status = "pending"
  BY DEF RequestInfo, DelegateRefused, MayAct
<1>3. new \in Step /\ new.status = "pending"
  BY <1>1, <1>2 DEF Step
<1>4. steps' = [steps EXCEPT ![r] = [steps[r] EXCEPT ![k] = new]]
  BY DEF RequestInfo, DelegateRefused, TypeOK
<1> HIDE DEF new
<1>5. QED
  BY <1>3, <1>4, TouchOne

\* A step that becomes overdue stays pending.
LEMMA DueDateTouches ==
    ASSUME TypeOK, NEW r \in Requests, NEW k \in Rules, DueDatePasses(r, k)
    PROVE  Touches(r, k, "pending")
<1> DEFINE new == [steps[r][k] EXCEPT !.overdue = TRUE]
<1>1. steps[r][k] \in Step /\ steps[r][k].status = "pending"
  BY DEF TypeOK, DueDatePasses
<1>2. new \in Step /\ new.status = "pending"
  BY <1>1 DEF Step
<1>3. steps' = [steps EXCEPT ![r] = [steps[r] EXCEPT ![k] = new]]
  BY DEF DueDatePasses, TypeOK
<1> HIDE DEF new
<1>4. QED
  BY <1>2, <1>3, TouchOne

\* The manager lookup yields users only.
LEMMA ManagerListType ==
    ASSUME NEW u \in Users
    PROVE  ManagerList(u) \in SUBSET Users
BY UsersAssumption DEF ManagerList

\* The SLA scan leaves the step pending and keeps the rules' lists typed.
LEMMA SlaTouches ==
    ASSUME TypeOK, NEW r \in Requests, NEW k \in Rules, SlaEscalate(r, k)
    PROVE  /\ Touches(r, k, "pending")
           /\ ruleApprovers' \in [SpecificRules -> SUBSET Users]
<1> DEFINE added == ManagerList(steps[r][k].lead)
<1>1. steps[r][k] \in Step /\ steps[r][k].status = "pending"
  BY DEF TypeOK, SlaEscalate, Escalatable
<1>2. added \in SUBSET Users
  BY <1>1, ManagerListType DEF Step
<1>3. CASE steps[r][k].shared
  <2> DEFINE new == [steps[r][k] EXCEPT !.escalated = TRUE]
  <2>1. new \in Step /\ new.status = "pending"
    BY <1>1 DEF Step
  <2>2. steps' = [steps EXCEPT ![r] = [steps[r] EXCEPT ![k] = new]]
    BY <1>3 DEF SlaEscalate, TypeOK
  <2>3. ruleApprovers' = [ruleApprovers EXCEPT ![k] = @ \cup added]
    BY <1>3 DEF SlaEscalate
  <2> HIDE DEF new, added
  <2>4. ruleApprovers' \in [SpecificRules -> SUBSET Users]
    BY <1>2, <2>3 DEF TypeOK
  <2>5. QED
    BY <2>1, <2>2, <2>4, TouchOne
<1>4. CASE ~ steps[r][k].shared
  <2> DEFINE wider == ApproverIds(r, k) \cup added
             new == [steps[r][k] EXCEPT !.escalated = TRUE,
                                        !.approvers = wider]
  <2>1. /\ steps' = [steps EXCEPT ![r][k] =
                       [@ EXCEPT !.escalated = TRUE,
                                 !.approvers = ApproverIds(r, k) \cup added]]
        /\ ruleApprovers' = ruleApprovers
    BY <1>4 DEF SlaEscalate
  <2> HIDE DEF added
  <2>2. steps' = [steps EXCEPT ![r] = [steps[r] EXCEPT ![k] = new]]
    BY <2>1 DEF TypeOK
  <2>3. wider \in SUBSET Users
    BY <1>1, <1>2, <1>4 DEF Step, ApproverIds
  <2>4. new \in Step /\ new.status = "pending"
    BY <1>1, <2>3 DEF Step
  <2>5. ruleApprovers' \in [SpecificRules -> SUBSET Users]
    BY <2>1 DEF TypeOK
  <2> HIDE DEF new
  <2>6. QED
    BY <2>2, <2>4, <2>5, TouchOne
<1>5. QED
  BY <1>3, <1>4

\* Present(r) is a set of rules, and the rules are finitely many.
LEMMA StepNumberType ==
    ASSUME NEW r \in Requests, NEW k \in Rules
    PROVE  StepNumber(r, k) \in Nat
<1>1. {j \in Present(r) : Priority[j] <= Priority[k]} \subseteq Rules
  BY DEF Present
<1>2. IsFiniteSet({j \in Present(r) : Priority[j] <= Priority[k]})
  BY <1>1, RulesAssumption, FS_Subset
<1>3. QED
  BY <1>2, FS_CardinalityType DEF StepNumber

\* The check at the end of process_approval keeps its tables typed.
LEMMA ProvisionType ==
    ASSUME TypeOK, NEW r \in Requests, ProvisionIfApproved(r)
    PROVE  /\ status' \in [Requests -> Statuses]
           /\ grants' \in [Requests -> Nat]
           /\ held' \in [Requests -> BOOLEAN]
           /\ expires' \in [Requests -> BOOLEAN]
           /\ telling' \in [Requests -> Nat]
<1>1. CASE ReadyToProvision(r)
  <2> DEFINE e == expires[r] \/ r \in Temporary
  <2>1. e \in BOOLEAN
    OBVIOUS
  <2>2. expires' = [expires EXCEPT ![r] = e]
    BY <1>1 DEF ProvisionIfApproved
  <2> HIDE DEF e
  <2>3. expires' \in [Requests -> BOOLEAN]
    BY <2>1, <2>2, Zenon DEF TypeOK
  <2>4. /\ status' = [status EXCEPT ![r] = "provisioned"]
        /\ grants' = [grants EXCEPT ![r] = @ + 1]
        /\ held' = [held EXCEPT ![r] = TRUE]
        /\ telling' = [telling EXCEPT ![r] = @ + 1]
    BY <1>1, Zenon DEF ProvisionIfApproved
  <2>5. QED
    BY <2>3, <2>4 DEF TypeOK, Statuses
<1>2. CASE ~ ReadyToProvision(r)
  BY <1>2 DEF TypeOK, ProvisionIfApproved
<1>3. QED
  BY <1>1, <1>2

-----------------------------------------------------------------------------
\* Type correctness: every table of the manager keeps its shape, the steps'
\* approver lists and the lists of the rules hold users only, and the index
\* the code stores in current_step is a number.
LEMMA TypeInit == Init => TypeOK
<1>1. NoStep \in Step
  BY UsersAssumption DEF NoStep, Step
<1>2. QED
  BY <1>1, UsersAssumption DEF Init, TypeOK, Statuses, Nowhere

\* Every branch of process_approval_action preserves the type invariant.
LEMMA ActType ==
    ASSUME TypeOK, NEW r \in Requests, NEW k \in Rules, NEW u \in Users,
           Act(r, k, u)
    PROVE  TypeOK'
<1>1. CASE Approve(r, k, u)
  <2>1. steps' \in [Requests -> [Rules -> Step]]
    BY <1>1, ApproveTouches DEF Touches
  <2>2. currentStep' \in [Requests -> Nat]
    BY <1>1, StepNumberType DEF Approve, TypeOK
  <2>3. status' \in [Requests -> Statuses]
    BY <1>1 DEF Approve, StatusAfter, TypeOK, Statuses
  <2>4. QED
    BY <1>1, <2>1, <2>2, <2>3 DEF Approve, TypeOK
<1>2. CASE Reject(r, k, u)
  <2>1. steps' \in [Requests -> [Rules -> Step]]
    BY <1>2, RejectTouches DEF Touches
  <2>2. QED
    BY <1>2, <2>1 DEF Reject, TypeOK, Statuses
<1>3. CASE Escalate(r, k, u)
  <2>1. steps' \in [Requests -> [Rules -> Step]]
    BY <1>3, EscalateTouches DEF Touches
  <2>2. QED
    BY <1>3, <2>1, ProvisionType DEF Escalate, TypeOK
<1>4. CASE RequestInfo(r, k, u)
  <2>1. steps' \in [Requests -> [Rules -> Step]]
    BY <1>4, RecordTouches DEF Touches
  <2>2. QED
    BY <1>4, <2>1, ProvisionType DEF RequestInfo, TypeOK
<1>5. CASE DelegateRefused(r, k, u)
  <2>1. steps' \in [Requests -> [Rules -> Step]]
    BY <1>5, RecordTouches DEF Touches
  <2>2. QED
    BY <1>5, <2>1 DEF DelegateRefused, TypeOK
<1>6. ASSUME NEW d \in Delegates, Delegate(r, k, u, d)
      PROVE  TypeOK'
  <2>1. steps' \in [Requests -> [Rules -> Step]]
    BY <1>6, DelegateTouches DEF Touches
  <2>2. QED
    BY <1>6, <2>1, ProvisionType DEF Delegate, TypeOK
<1>7. QED
  BY <1>1, <1>2, <1>3, <1>4, <1>5, <1>6 DEF Act

\* Every step of the manager preserves the type invariant.
LEMMA TypeNext == TypeOK /\ [Next]_vars => TypeOK'
<1> SUFFICES ASSUME TypeOK, [Next]_vars
             PROVE  TypeOK'
  OBVIOUS
<1>1. ASSUME NEW r \in Requests, CreateRequest(r) PROVE TypeOK'
  BY <1>1 DEF CreateRequest, TypeOK, Statuses
<1>2. ASSUME NEW r \in Requests, SubmitRequest(r) PROVE TypeOK'
  <2>1. PICK others \in SUBSET (Rules \ {ManagerRule}), lowRisk \in BOOLEAN :
          /\ steps' = [steps EXCEPT ![r] =
                         Workflow(r, others \cup {ManagerRule})]
          /\ status' = [status EXCEPT ![r] =
                          IF AutoApprove /\ lowRisk THEN "approved" ELSE "pending"]
    BY <1>2 DEF SubmitRequest
  <2>2. Workflow(r, others \cup {ManagerRule}) \in [Rules -> Step]
    BY RulesAssumption, WorkflowType
  <2>3. steps' \in [Requests -> [Rules -> Step]]
    BY <2>1, <2>2 DEF TypeOK
  <2>4. status' \in [Requests -> Statuses]
    BY <2>1 DEF TypeOK, Statuses
  <2>5. QED
    BY <1>2, <2>3, <2>4 DEF SubmitRequest, TypeOK
<1>3. ASSUME NEW r \in Requests, CancelRequest(r) PROVE TypeOK'
  BY <1>3 DEF CancelRequest, TypeOK, Statuses
<1>4. ASSUME NEW r \in Requests, Resume(r) PROVE TypeOK'
  <2>1. suspended' \in [Requests -> Nat]
    BY <1>4 DEF Resume, TypeOK
  <2>2. QED
    BY <1>4, <2>1, ProvisionType DEF Resume, TypeOK
<1>5. ASSUME NEW r \in Requests, ResumeRaises(r) PROVE TypeOK'
  BY <1>5 DEF ResumeRaises, TypeOK
<1>6. ASSUME NEW r \in Requests, Told(r) PROVE TypeOK'
  <2>1. status' \in [Requests -> Statuses]
    BY <1>6 DEF Told, NoticeOutcomes, Raised, TypeOK, Statuses
  <2>2. QED
    BY <1>6, <2>1 DEF Told, TypeOK
<1>7. ASSUME NEW r \in Requests, NotifyExpiry(r) PROVE TypeOK'
  BY <1>7 DEF NotifyExpiry, TypeOK
<1>8. ASSUME NEW r \in Requests, RevokeExpired(r) PROVE TypeOK'
  BY <1>8 DEF RevokeExpired, TypeOK, Statuses
<1>9. ASSUME NEW r \in Requests, EndDateNears(r) PROVE TypeOK'
  BY <1>9 DEF EndDateNears, TypeOK
<1>10. ASSUME NEW r \in Requests, NEW k \in Rules, SlaEscalate(r, k)
       PROVE  TypeOK'
  <2>1. /\ steps' \in [Requests -> [Rules -> Step]]
        /\ ruleApprovers' \in [SpecificRules -> SUBSET Users]
    BY <1>10, SlaTouches DEF Touches
  <2>2. QED
    BY <1>10, <2>1 DEF SlaEscalate, TypeOK
<1>11. ASSUME NEW r \in Requests, NEW k \in Rules, DueDatePasses(r, k)
       PROVE  TypeOK'
  <2>1. steps' \in [Requests -> [Rules -> Step]]
    BY <1>11, DueDateTouches DEF Touches
  <2>2. QED
    BY <1>11, <2>1 DEF DueDatePasses, TypeOK
<1>12. CASE SlaLeave
  BY <1>12, UsersAssumption DEF SlaLeave, TypeOK, Nowhere
<1>13. CASE UNCHANGED vars
  BY <1>13 DEF vars, TypeOK
<1>14. QED
  BY <1>1, <1>2, <1>3, <1>4, <1>5, <1>6, <1>7, <1>8, <1>9, <1>10, <1>11,
     <1>12, <1>13, ActType DEF Next

\* TypeOK holds in every reachable state, for every instance.
THEOREM TypeCorrect == Spec => []TypeOK
<1>1. QED
  BY TypeInit, TypeNext, PTL DEF Spec

-----------------------------------------------------------------------------
\* The decision invariant of a request an action does not touch.
SameRequest(q) ==
    /\ status'[q] = status[q] /\ steps'[q] = steps[q] /\ grants'[q] = grants[q]
    /\ held'[q] = held[q] /\ telling'[q] = telling[q]

\* The decision invariant of an untouched request is preserved.
LEMMA SameInv ==
    ASSUME NEW q \in Requests, DecisionInv(q), SameRequest(q)
    PROVE  DecisionInv(q)'
BY DEF DecisionInv, SameRequest, Present, FullyApproved

\* An action on the step of rule k of request r leaves other requests' steps.
LEMMA TouchesOnly ==
    ASSUME TypeOK, NEW r \in Requests, NEW k \in Rules, NEW st, Touches(r, k, st),
           NEW q \in Requests, q # r
    PROVE  steps'[q] = steps[q]
<1>1. steps[q] \in [Rules -> Step] /\ steps'[q] \in [Rules -> Step]
  BY DEF TypeOK, Touches
<1>2. \A j \in Rules : steps'[q][j] = steps[q][j]
  BY DEF Touches
<1>3. QED
  BY <1>1, <1>2

\* While a step is pending nothing was granted, whatever the status says.
LEMMA PendingMeansUndecided ==
    ASSUME TypeOK, NEW r \in Requests, DecisionInv(r),
           NEW k \in Rules, steps[r][k].status = "pending"
    PROVE  /\ status[r] \in {"pending", "rejected", "cancelled"}
           /\ grants[r] = 0 /\ telling[r] = 0 /\ ~ held[r]
<1>1. k \in Present(r) /\ ~ FullyApproved(steps[r])
  BY DEF Present, FullyApproved
<1>2. status[r] \in {"pending", "rejected", "cancelled"}
  BY <1>1 DEF DecisionInv, TypeOK, Statuses
<1>3. ~ (grants[r] > 0) /\ ~ held[r]
  BY <1>2 DEF DecisionInv
<1>4. ~ (telling[r] > 0)
  BY <1>3 DEF DecisionInv
<1>5. QED
  BY <1>2, <1>3, <1>4 DEF TypeOK

\* Recording, delegating or escalating a pending step decides nothing, and the
\* check for provisioning that follows finds nothing to do.
LEMMA UndecidedStep ==
    ASSUME TypeOK, NEW r \in Requests, DecisionInv(r),
           NEW k \in Rules, steps[r][k].status = "pending",
           NEW st \in {"pending", "escalated"}, Touches(r, k, st),
           UNCHANGED <<status, grants, held, telling>>
    PROVE  DecisionInv(r)'
<1>1. /\ status[r] \in {"pending", "rejected", "cancelled"}
      /\ grants[r] = 0 /\ telling[r] = 0 /\ ~ held[r]
  BY PendingMeansUndecided
<1>2. /\ steps'[r][k].status = st
      /\ \A j \in Rules : j # k => steps'[r][j] = steps[r][j]
  BY DEF Touches
<1>3. Present(r)' # {} /\ ~ FullyApproved(steps[r])'
  BY <1>2 DEF Present, FullyApproved
<1>4. status[r] = "pending" => \A j \in Rules : steps'[r][j].status # "rejected"
  BY <1>2 DEF DecisionInv
<1>5. status[r] = "rejected" => \E j \in Rules : steps'[r][j].status = "rejected"
  BY <1>2 DEF DecisionInv
<1>6. QED
  BY <1>1, <1>3, <1>4, <1>5 DEF DecisionInv

\* The check for provisioning after an act on a pending step does nothing.
LEMMA NothingToProvision ==
    ASSUME TypeOK, NEW r \in Requests, DecisionInv(r), ProvisionIfApproved(r),
           NEW k \in Rules, steps[r][k].status = "pending"
    PROVE  UNCHANGED <<status, grants, held, expires, telling>>
<1>1. status[r] # "approved"
  BY PendingMeansUndecided
<1>2. QED
  BY <1>1 DEF ProvisionIfApproved, ReadyToProvision

\* An approval preserves the decision invariant of its request: the status
\* becomes approved exactly when the last open step was approved.
LEMMA ApproveInv ==
    ASSUME TypeOK, NEW r \in Requests, DecisionInv(r), NEW k \in Rules,
           NEW u \in Users, Approve(r, k, u)
    PROVE  DecisionInv(r)'
<1>1. steps[r][k].status = "pending"
  BY DEF Approve, MayAct
<1>2. /\ status[r] \in {"pending", "rejected", "cancelled"}
      /\ grants[r] = 0 /\ telling[r] = 0 /\ ~ held[r]
  BY <1>1, PendingMeansUndecided
<1>3. /\ steps'[r][k].status = "approved"
      /\ \A j \in Rules : j # k => steps'[r][j] = steps[r][j]
  BY ApproveTouches DEF Touches
<1>4. grants'[r] = 0 /\ telling'[r] = 0 /\ ~ held'[r]
  BY <1>2 DEF Approve
<1>5. status'[r] = IF FullyApproved(steps'[r]) THEN "approved" ELSE status[r]
  BY DEF Approve, StatusAfter, TypeOK
<1>6. Present(r)' # {}
  BY <1>3 DEF Present
<1>7. CASE FullyApproved(steps'[r])
  <2>1. FullyApproved(steps[r])'
    BY <1>7 DEF FullyApproved
  <2>2. QED
    BY <1>4, <1>5, <1>7, <2>1 DEF DecisionInv
<1>8. CASE ~ FullyApproved(steps'[r])
  <2>1. ~ FullyApproved(steps[r])'
    BY <1>8 DEF FullyApproved
  <2>2. status'[r] = status[r]
    BY <1>5, <1>8
  <2>3. status[r] = "pending"
          => \A j \in Rules : steps'[r][j].status # "rejected"
    BY <1>3 DEF DecisionInv
  <2>4. status[r] = "rejected"
          => \E j \in Rules : steps'[r][j].status = "rejected"
    BY <1>1, <1>3 DEF DecisionInv
  <2>5. QED
    BY <1>2, <1>4, <1>6, <2>1, <2>2, <2>3, <2>4 DEF DecisionInv
<1>9. QED
  BY <1>7, <1>8

\* A rejection preserves the decision invariant of its request.
LEMMA RejectInv ==
    ASSUME TypeOK, NEW r \in Requests, DecisionInv(r), NEW k \in Rules,
           NEW u \in Users, Reject(r, k, u)
    PROVE  DecisionInv(r)'
<1>1. steps[r][k].status = "pending"
  BY DEF Reject, MayAct
<1>2. grants[r] = 0 /\ telling[r] = 0 /\ ~ held[r]
  BY <1>1, PendingMeansUndecided
<1>3. steps'[r][k].status = "rejected"
  BY RejectTouches DEF Touches
<1>4. grants'[r] = 0 /\ telling'[r] = 0 /\ ~ held'[r]
  BY <1>2 DEF Reject
<1>5. status'[r] = "rejected"
  BY DEF Reject, TypeOK
<1>6. QED
  BY <1>3, <1>4, <1>5 DEF DecisionInv

\* Every branch of process_approval_action preserves the decision invariant.
LEMMA ActInv ==
    ASSUME Inv, NEW r \in Requests, NEW k \in Rules, NEW u \in Users,
           Act(r, k, u), NEW q \in Requests
    PROVE  DecisionInv(q)'
<1>1. TypeOK /\ DecisionInv(r) /\ DecisionInv(q)
  BY DEF Inv
<1>2. steps[r][k].status = "pending"
  BY DEF Act, Approve, Reject, Escalate, RequestInfo, DelegateRefused, Delegate,
         MayAct
<1>3. CASE Approve(r, k, u)
  <2>1. CASE q = r
    BY <1>1, <1>3, <2>1, ApproveInv
  <2>2. CASE q # r
    <3>1. steps'[q] = steps[q]
      BY <1>1, <1>3, <2>2, ApproveTouches, TouchesOnly
    <3>2. SameRequest(q)
      BY <1>1, <1>3, <2>2, <3>1 DEF Approve, SameRequest, TypeOK
    <3>3. QED
      BY <1>1, <3>2, SameInv
  <2>3. QED
    BY <2>1, <2>2
<1>4. CASE Reject(r, k, u)
  <2>1. CASE q = r
    BY <1>1, <1>4, <2>1, RejectInv
  <2>2. CASE q # r
    <3>1. steps'[q] = steps[q]
      BY <1>1, <1>4, <2>2, RejectTouches, TouchesOnly
    <3>2. SameRequest(q)
      BY <1>1, <1>4, <2>2, <3>1 DEF Reject, SameRequest, TypeOK
    <3>3. QED
      BY <1>1, <3>2, SameInv
  <2>3. QED
    BY <2>1, <2>2
<1>5. ASSUME NEW st \in {"pending", "escalated"}, Touches(r, k, st),
             UNCHANGED <<status, grants, held, telling>>
      PROVE  DecisionInv(q)'
  <2>1. CASE q = r
    BY <1>1, <1>2, <1>5, <2>1, UndecidedStep
  <2>2. CASE q # r
    <3>1. steps'[q] = steps[q]
      BY <1>1, <1>5, <2>2, TouchesOnly
    <3>2. SameRequest(q)
      BY <1>5, <3>1 DEF SameRequest
    <3>3. QED
      BY <1>1, <3>2, SameInv
  <2>3. QED
    BY <2>1, <2>2
<1>6. CASE Escalate(r, k, u)
  <2>1. Touches(r, k, "escalated")
    BY <1>1, <1>6, EscalateTouches
  <2>2. UNCHANGED <<status, grants, held, telling>>
    BY <1>1, <1>2, <1>6, NothingToProvision DEF Escalate
  <2>3. QED
    BY <1>5, <2>1, <2>2
<1>7. CASE RequestInfo(r, k, u)
  <2>1. Touches(r, k, "pending")
    BY <1>1, <1>7, RecordTouches
  <2>2. UNCHANGED <<status, grants, held, telling>>
    BY <1>1, <1>2, <1>7, NothingToProvision DEF RequestInfo
  <2>3. QED
    BY <1>5, <2>1, <2>2
<1>8. CASE DelegateRefused(r, k, u)
  <2>1. Touches(r, k, "pending")
    BY <1>1, <1>8, RecordTouches
  <2>2. UNCHANGED <<status, grants, held, telling>>
    BY <1>8 DEF DelegateRefused
  <2>3. QED
    BY <1>5, <2>1, <2>2
<1>9. ASSUME NEW d \in Delegates, Delegate(r, k, u, d)
      PROVE  DecisionInv(q)'
  <2>1. Touches(r, k, "pending")
    BY <1>1, <1>9, DelegateTouches
  <2>2. UNCHANGED <<status, grants, held, telling>>
    BY <1>1, <1>2, <1>9, NothingToProvision DEF Delegate
  <2>3. QED
    BY <1>5, <2>1, <2>2
<1>10. QED
  BY <1>3, <1>4, <1>6, <1>7, <1>8, <1>9 DEF Act

\* Resume: the only action that provisions.  It finds the request approved, so
\* every step is approved and nothing was granted yet.
LEMMA ResumeInv ==
    ASSUME TypeOK, NEW r \in Requests, NEW q \in Requests, DecisionInv(q),
           Resume(r)
    PROVE  DecisionInv(q)'
<1>1. steps' = steps
  BY DEF Resume
<1>2. CASE ReadyToProvision(r)
  <2>1. /\ status' = [status EXCEPT ![r] = "provisioned"]
        /\ grants' = [grants EXCEPT ![r] = @ + 1]
        /\ held' = [held EXCEPT ![r] = TRUE]
        /\ telling' = [telling EXCEPT ![r] = @ + 1]
    BY <1>2, Zenon DEF Resume, ProvisionIfApproved
  <2>2. CASE q = r
    <3>1. status[q] = "approved"
      BY <1>2, <2>2 DEF ReadyToProvision
    <3>2. FullyApproved(steps[q]) /\ ~ (grants[q] > 0)
      BY <3>1 DEF DecisionInv
    <3>3. grants[q] = 0
      BY <3>2 DEF TypeOK
    <3>4. status'[q] = "provisioned" /\ grants'[q] = 1 /\ held'[q]
      BY <2>1, <2>2, <3>3 DEF TypeOK
    <3>5. FullyApproved(steps[q])'
      BY <1>1, <3>2 DEF FullyApproved
    <3>6. QED
      BY <3>4, <3>5 DEF DecisionInv
  <2>3. CASE q # r
    <3>1. SameRequest(q)
      BY <1>1, <2>1, <2>3 DEF SameRequest, TypeOK
    <3>2. QED
      BY <3>1, SameInv
  <2>4. QED
    BY <2>2, <2>3
<1>3. CASE ~ ReadyToProvision(r)
  <2>1. SameRequest(q)
    BY <1>1, <1>3 DEF Resume, ProvisionIfApproved, SameRequest
  <2>2. QED
    BY <2>1, SameInv
<1>4. QED
  BY <1>2, <1>3

\* Submission of a draft: the workflow has a step and no step is approved yet.
LEMMA SubmitInv ==
    ASSUME AutoApprove = FALSE, TypeOK, NEW r \in Requests, NEW q \in Requests,
           DecisionInv(r), DecisionInv(q), SubmitRequest(r)
    PROVE  DecisionInv(q)'
<1>1. PICK others \in SUBSET (Rules \ {ManagerRule}), lowRisk \in BOOLEAN :
        /\ steps' = [steps EXCEPT ![r] = Workflow(r, others \cup {ManagerRule})]
        /\ status' = [status EXCEPT ![r] =
                        IF AutoApprove /\ lowRisk THEN "approved" ELSE "pending"]
  BY DEF SubmitRequest
<1>2. CASE q = r
  <2>1. steps'[q] = Workflow(r, others \cup {ManagerRule})
    BY <1>1, <1>2 DEF TypeOK
  <2>2. /\ \E k \in Rules : steps'[q][k].status = "pending"
        /\ \A k \in Rules : steps'[q][k].status \in {"absent", "pending"}
    BY <2>1, WorkflowType, RulesAssumption
  <2>3. status'[q] = "pending"
    BY <1>1, <1>2 DEF TypeOK
  <2>4. status[q] = "draft"
    BY <1>2 DEF SubmitRequest
  <2>5. ~ (grants[q] > 0) /\ ~ (telling[q] > 0) /\ ~ held[q]
    BY <2>4 DEF DecisionInv
  <2>6. UNCHANGED <<grants, telling, held>>
    BY DEF SubmitRequest
  <2>7. Present(q)' # {} /\ ~ FullyApproved(steps[q])'
    BY <2>2 DEF Present, FullyApproved
  <2>8. QED
    BY <2>2, <2>3, <2>5, <2>6, <2>7 DEF DecisionInv, TypeOK
<1>3. CASE q # r
  <2>1. SameRequest(q)
    BY <1>1, <1>3 DEF SubmitRequest, SameRequest, TypeOK
  <2>2. QED
    BY <2>1, SameInv
<1>4. QED
  BY <1>2, <1>3

\* The actions that change the status of a request and leave its steps alone.
LEMMA StatusInv ==
    ASSUME TypeOK, NEW r \in Requests, NEW q \in Requests, DecisionInv(q),
           CreateRequest(r) \/ CancelRequest(r) \/ Told(r) \/ RevokeExpired(r)
    PROVE  DecisionInv(q)'
<1>1. steps' = steps /\ grants' = grants
  BY DEF CreateRequest, CancelRequest, Told, RevokeExpired
<1>2. Present(q)' = Present(q) /\ (FullyApproved(steps[q])' <=> FullyApproved(steps[q]))
  BY <1>1 DEF Present, FullyApproved
<1>3. CASE q # r
  <2>1. SameRequest(q)
    BY <1>1, <1>3 DEF CreateRequest, CancelRequest, Told, RevokeExpired,
                      SameRequest, TypeOK
  <2>2. QED
    BY <2>1, SameInv
<1>4. CASE q = r /\ CreateRequest(r)
  BY <1>1, <1>2, <1>4 DEF CreateRequest, DecisionInv, TypeOK
<1>5. CASE q = r /\ CancelRequest(r)
  BY <1>1, <1>2, <1>5 DEF CancelRequest, Cancellable, DecisionInv, TypeOK
<1>6. CASE q = r /\ Told(r)
  <2>1. telling[q] > 0 /\ telling'[q] \in Nat /\ held' = held
    BY <1>6 DEF Told, TypeOK
  <2>2. grants[q] > 0 /\ status[q] \in {"provisioned", "failed", "expired"}
    BY <2>1 DEF DecisionInv
  <2>3. status'[q] = status[q] \/ status'[q] = "failed"
    BY <1>6 DEF Told, NoticeOutcomes, Raised, TypeOK
  <2>4. CASE status'[q] = status[q]
    BY <1>1, <1>2, <2>1, <2>2, <2>4 DEF DecisionInv
  <2>5. CASE status'[q] = "failed"
    BY <1>1, <1>2, <2>1, <2>2, <2>5 DEF DecisionInv
  <2>6. QED
    BY <2>3, <2>4, <2>5
<1>7. CASE q = r /\ RevokeExpired(r)
  BY <1>1, <1>2, <1>7 DEF RevokeExpired, Revocable, DecisionInv, TypeOK
<1>8. QED
  BY <1>3, <1>4, <1>5, <1>6, <1>7

\* The decision invariant holds initially.
LEMMA InvInit == Init => Inv
<1> SUFFICES ASSUME Init PROVE Inv
  OBVIOUS
<1>1. TypeOK
  BY TypeInit
<1>2. ASSUME NEW r \in Requests PROVE DecisionInv(r)
  BY <1>2 DEF Init, DecisionInv, Present, NoStep, FullyApproved
<1>3. QED
  BY <1>1, <1>2 DEF Inv

\* Every step of the manager preserves the decision invariant.
LEMMA InvNext ==
    ASSUME AutoApprove = FALSE
    PROVE  Inv /\ [Next]_vars => Inv'
<1> SUFFICES ASSUME Inv, [Next]_vars, NEW q \in Requests
             PROVE  DecisionInv(q)'
  BY TypeNext DEF Inv
<1>1. TypeOK /\ DecisionInv(q) /\ \A r \in Requests : DecisionInv(r)
  BY DEF Inv
<1>2. ASSUME NEW r \in Requests,
             CreateRequest(r) \/ CancelRequest(r) \/ Told(r) \/ RevokeExpired(r)
      PROVE  DecisionInv(q)'
  BY <1>1, <1>2, StatusInv
<1>3. ASSUME NEW r \in Requests, SubmitRequest(r) PROVE DecisionInv(q)'
  BY <1>1, <1>3, SubmitInv
<1>4. ASSUME NEW r \in Requests, Resume(r) PROVE DecisionInv(q)'
  BY <1>1, <1>4, ResumeInv
<1>5. ASSUME NEW r \in Requests,
             ResumeRaises(r) \/ NotifyExpiry(r) \/ EndDateNears(r)
      PROVE  DecisionInv(q)'
  <2>1. SameRequest(q)
    BY <1>5 DEF ResumeRaises, NotifyExpiry, EndDateNears, SameRequest
  <2>2. QED
    BY <1>1, <2>1, SameInv
<1>6. ASSUME NEW r \in Requests, NEW k \in Rules,
             SlaEscalate(r, k) \/ DueDatePasses(r, k)
      PROVE  DecisionInv(q)'
  <2>1. Touches(r, k, "pending") /\ steps[r][k].status = "pending"
    BY <1>1, <1>6, SlaTouches, DueDateTouches
       DEF SlaEscalate, Escalatable, DueDatePasses
  <2>2. UNCHANGED <<status, grants, held, telling>>
    BY <1>6 DEF SlaEscalate, DueDatePasses
  <2>3. CASE q = r
    BY <1>1, <2>1, <2>2, <2>3, UndecidedStep
  <2>4. CASE q # r
    <3>1. steps'[q] = steps[q]
      BY <1>1, <2>1, <2>4, TouchesOnly
    <3>2. QED
      BY <1>1, <2>2, <3>1, SameInv DEF SameRequest
  <2>5. QED
    BY <2>3, <2>4
<1>7. ASSUME NEW r \in Requests, NEW k \in Rules, NEW u \in Users, Act(r, k, u)
      PROVE  DecisionInv(q)'
  BY <1>7, ActInv
<1>8. CASE SlaLeave \/ UNCHANGED vars
  <2>1. SameRequest(q)
    BY <1>8 DEF SlaLeave, vars, SameRequest
  <2>2. QED
    BY <1>1, <2>1, SameInv
<1>9. QED
  BY <1>2, <1>3, <1>4, <1>5, <1>6, <1>7, <1>8 DEF Next

-----------------------------------------------------------------------------
\* What every status says of the steps and of the grant (DecisionInv), in every
\* reachable state, when no request is auto-approved.
THEOREM DecisionInvariant ==
    ASSUME AutoApprove = FALSE
    PROVE  Spec => []Inv
<1>1. QED
  BY InvInit, InvNext, PTL DEF Spec

\* Access is provisioned only for a request all of whose steps were approved.
THEOREM GrantsAreApproved ==
    ASSUME AutoApprove = FALSE
    PROVE  Spec => []GrantNeedsEveryApproval
<1>1. Inv => GrantNeedsEveryApproval
  <2> SUFFICES ASSUME Inv, NEW r \in Requests, grants[r] > 0
               PROVE  /\ Present(r) # {}
                      /\ \A k \in Present(r) : steps[r][k].status = "approved"
    BY DEF GrantNeedsEveryApproval
  <2>1. FullyApproved(steps[r])
    BY DEF Inv, DecisionInv
  <2>2. QED
    BY <2>1 DEF FullyApproved, Present
<1>2. QED
  BY <1>1, DecisionInvariant, PTL

\* However many process_approval calls are parked in the notification handler,
\* one of them provisions.
THEOREM GrantsHappenOnce ==
    ASSUME AutoApprove = FALSE
    PROVE  Spec => []GrantAtMostOnce
<1>1. Inv => GrantAtMostOnce
  BY DEF Inv, DecisionInv, GrantAtMostOnce
<1>2. QED
  BY <1>1, DecisionInvariant, PTL

\* The last approval never leaves a request undecided.
THEOREM PendingRequestsAreOpen ==
    ASSUME AutoApprove = FALSE
    PROVE  Spec => []PendingHasOpenStep
<1>1. Inv => PendingHasOpenStep
  <2> SUFFICES ASSUME Inv, NEW r \in Requests, status[r] = "pending"
               PROVE  \E k \in Rules :
                        steps[r][k].status \in {"pending", "escalated"}
    BY DEF PendingHasOpenStep
  <2>1. /\ Present(r) # {} /\ ~ FullyApproved(steps[r])
        /\ \A k \in Rules : steps[r][k].status # "rejected"
    BY DEF Inv, DecisionInv
  <2>2. PICK k \in Rules : steps[r][k].status \notin {"absent", "approved"}
    BY <2>1 DEF Present, FullyApproved
  <2>3. steps[r][k].status
          \in {"absent", "pending", "approved", "rejected", "escalated"}
    BY DEF Inv, TypeOK, Step
  <2>4. QED
    BY <2>1, <2>2, <2>3
<1>2. QED
  BY <1>1, DecisionInvariant, PTL

\* The status of a request tells whether its access is in the target system.
THEOREM StatusIsTruthful ==
    ASSUME AutoApprove = FALSE
    PROVE  Spec => []StatusTellsAccess
<1>1. Inv => StatusTellsAccess
  BY DEF Inv, DecisionInv, StatusTellsAccess
<1>2. QED
  BY <1>1, DecisionInvariant, PTL

-----------------------------------------------------------------------------
\* A rejected request has a rejected step, which no later approval of another
\* step can outvote; the status is final.
THEOREM RejectionsAreFinal ==
    ASSUME AutoApprove = FALSE
    PROVE  Spec => RejectionIsFinal
<1>1. ASSUME Inv, [Next]_vars, NEW q \in Requests, status[q] = "rejected"
      PROVE  status'[q] = "rejected"
  <2>0. TypeOK /\ DecisionInv(q)
    BY <1>1 DEF Inv
  <2>1. PICK j \in Rules : steps[q][j].status = "rejected"
    BY <1>1, <2>0 DEF DecisionInv
  <2>2. grants[q] = 0 /\ telling[q] = 0
    BY <1>1, <2>0 DEF DecisionInv, TypeOK
  <2>3. ASSUME NEW r \in Requests, ProvisionIfApproved(r)
        PROVE  status'[q] = "rejected"
    <3>1. CASE ReadyToProvision(r)
      <4>1. q # r
        BY <1>1, <3>1 DEF ReadyToProvision
      <4>2. status' = [status EXCEPT ![r] = "provisioned"]
        BY <2>3, <3>1, Zenon DEF ProvisionIfApproved
      <4>3. QED
        BY <1>1, <2>0, <4>1, <4>2 DEF TypeOK
    <3>2. CASE ~ ReadyToProvision(r)
      BY <1>1, <2>3, <3>2 DEF ProvisionIfApproved
    <3>3. QED
      BY <3>1, <3>2
  <2>4. ASSUME NEW r \in Requests, NEW k \in Rules, NEW u \in Users,
               Approve(r, k, u)
        PROVE  status'[q] = "rejected"
    <3>1. CASE q = r
      <4>1. j # k
        BY <2>1, <2>4, <3>1 DEF Approve, MayAct
      <4>2. steps'[r][j].status = "rejected"
        BY <2>0, <2>1, <2>4, <3>1, <4>1, ApproveTouches DEF Touches
      <4>3. ~ FullyApproved(steps'[r])
        BY <4>2 DEF FullyApproved
      <4>4. QED
        BY <1>1, <2>0, <2>4, <3>1, <4>3 DEF Approve, StatusAfter, TypeOK
    <3>2. CASE q # r
      BY <1>1, <2>0, <2>4, <3>2 DEF Approve, TypeOK
    <3>3. QED
      BY <3>1, <3>2
  <2>5. ASSUME NEW r \in Requests, NEW k \in Rules, NEW u \in Users, Act(r, k, u)
        PROVE  status'[q] = "rejected"
    <3>1. CASE Reject(r, k, u)
      BY <1>1, <2>0, <3>1 DEF Reject, TypeOK
    <3>2. CASE DelegateRefused(r, k, u)
      BY <1>1, <3>2 DEF DelegateRefused
    <3>3. QED
      BY <2>3, <2>4, <2>5, <3>1, <3>2 DEF Act, Escalate, RequestInfo, Delegate
  <2>6. ASSUME NEW r \in Requests,
               CreateRequest(r) \/ SubmitRequest(r) \/ CancelRequest(r)
                 \/ RevokeExpired(r)
        PROVE  status'[q] = "rejected"
    <3>1. status[r] # "rejected"
      BY <2>6 DEF CreateRequest, SubmitRequest, CancelRequest, Cancellable,
                  RevokeExpired, Revocable
    <3>2. QED
      BY <1>1, <2>0, <2>6, <3>1
         DEF CreateRequest, SubmitRequest, CancelRequest, RevokeExpired, TypeOK
  <2>7. ASSUME NEW r \in Requests, Told(r)
        PROVE  status'[q] = "rejected"
    <3>1. q # r
      BY <2>2, <2>7 DEF Told
    <3>2. QED
      BY <1>1, <2>0, <2>7, <3>1 DEF Told, TypeOK
  <2>8. ASSUME NEW r \in Requests, Resume(r) PROVE status'[q] = "rejected"
    BY <2>3, <2>8 DEF Resume
  <2>9. ASSUME NEW r \in Requests,
               \/ ResumeRaises(r) \/ NotifyExpiry(r) \/ EndDateNears(r)
               \/ \E k \in Rules : SlaEscalate(r, k) \/ DueDatePasses(r, k)
        PROVE  status'[q] = "rejected"
    BY <1>1, <2>9 DEF ResumeRaises, NotifyExpiry, EndDateNears, SlaEscalate,
                      DueDatePasses
  <2>10. CASE SlaLeave \/ UNCHANGED vars
    BY <1>1, <2>10 DEF SlaLeave, vars
  <2>11. QED
    BY <1>1, <2>5, <2>6, <2>7, <2>8, <2>9, <2>10 DEF Next
<1>2. Inv /\ [Next]_vars =>
        [\A r \in Requests : status[r] = "rejected" => status'[r] = "rejected"]_vars
  BY <1>1
<1>3. QED
  BY <1>2, DecisionInvariant, PTL DEF Spec, RejectionIsFinal

-----------------------------------------------------------------------------
\* Temporary access has an end date from the step that gives it: it is set
\* before the await that a failing notice leaves.
HeldHasEnd == \A r \in Temporary : held[r] => expires[r]

\* The check for provisioning sets the end date along with the access.
LEMMA ProvisionSetsEnd ==
    ASSUME TypeOK, HeldHasEnd, NEW r \in Requests, ProvisionIfApproved(r)
    PROVE  HeldHasEnd'
<1>1. CASE ReadyToProvision(r)
  <2>1. ASSUME NEW q \in Temporary, q = r PROVE expires'[q]
    BY <1>1, <2>1, ConfigAssumption DEF ProvisionIfApproved, TypeOK
  <2>2. ASSUME NEW q \in Temporary, q # r
        PROVE  held'[q] = held[q] /\ expires'[q] = expires[q]
    BY <1>1, <2>2, ConfigAssumption DEF ProvisionIfApproved, TypeOK
  <2>3. QED
    BY <2>1, <2>2 DEF HeldHasEnd
<1>2. CASE ~ ReadyToProvision(r)
  BY <1>2 DEF ProvisionIfApproved, HeldHasEnd
<1>3. QED
  BY <1>1, <1>2

\* No step gives temporary access without its end date, or takes the date away.
LEMMA HeldHasEndNext == TypeOK /\ HeldHasEnd /\ [Next]_vars => HeldHasEnd'
<1> SUFFICES ASSUME TypeOK, HeldHasEnd, [Next]_vars
             PROVE  HeldHasEnd'
  OBVIOUS
<1>1. ASSUME NEW r \in Requests, Resume(r) PROVE HeldHasEnd'
  BY <1>1, ProvisionSetsEnd DEF Resume
<1>2. ASSUME NEW r \in Requests, NEW k \in Rules, NEW u \in Users, Act(r, k, u)
      PROVE  HeldHasEnd'
  <2>1. ASSUME ProvisionIfApproved(r) PROVE HeldHasEnd'
    BY <2>1, ProvisionSetsEnd
  <2>2. ASSUME UNCHANGED <<held, expires>> PROVE HeldHasEnd'
    BY <2>2 DEF HeldHasEnd
  <2>3. QED
    BY <1>2, <2>1, <2>2
       DEF Act, Approve, Reject, Escalate, RequestInfo, DelegateRefused, Delegate
<1>3. ASSUME NEW r \in Requests, RevokeExpired(r) PROVE HeldHasEnd'
  <2>1. \A q \in Temporary : held'[q] => held[q]
    BY <1>3, ConfigAssumption DEF RevokeExpired, TypeOK
  <2>2. QED
    BY <1>3, <2>1 DEF RevokeExpired, HeldHasEnd
<1>4. ASSUME UNCHANGED <<held, expires>> PROVE HeldHasEnd'
  BY <1>4 DEF HeldHasEnd
<1>5. ASSUME NEW r \in Requests,
             \/ CreateRequest(r) \/ SubmitRequest(r) \/ CancelRequest(r)
             \/ ResumeRaises(r) \/ Told(r) \/ NotifyExpiry(r) \/ EndDateNears(r)
             \/ \E k \in Rules : SlaEscalate(r, k) \/ DueDatePasses(r, k)
      PROVE  UNCHANGED <<held, expires>>
  BY <1>5 DEF CreateRequest, SubmitRequest, CancelRequest, ResumeRaises, Told,
              NotifyExpiry, EndDateNears, SlaEscalate, DueDatePasses
<1>6. CASE SlaLeave \/ UNCHANGED vars
  BY <1>4, <1>6 DEF SlaLeave, vars
<1>7. QED
  BY <1>1, <1>2, <1>3, <1>4, <1>5, <1>6 DEF Next

\* Whenever revoke_expired_access is called, temporary access held after its
\* end date is selected unless the notice of its provisioning raised.
THEOREM EndedAccessCanBeRevoked ==
    ASSUME AutoApprove = FALSE
    PROVE  Spec => []EndedAccessIsRevocable
<1>1. Init => HeldHasEnd
  BY ConfigAssumption DEF Init, HeldHasEnd
<1>2. Spec => []HeldHasEnd
  BY <1>1, HeldHasEndNext, TypeCorrect, PTL DEF Spec
<1>3. Inv /\ HeldHasEnd => EndedAccessIsRevocable
  BY ConfigAssumption DEF Inv, DecisionInv, HeldHasEnd, EndedAccessIsRevocable, Revocable
<1>4. QED
  BY <1>2, <1>3, DecisionInvariant, PTL

-----------------------------------------------------------------------------
(* The manager implements AccessGrant.  Needed, Votes, Vetoes and Granted are *)
(* the values the refinement mapping gives the abstract variables.            *)

Needed == [r \in Requests |-> Present(r)]
Votes  == [r \in Requests |-> {k \in Rules : steps[r][k].status = "approved"}]
Vetoes == [r \in Requests |-> {k \in Rules : steps[r][k].status = "rejected"}]
Outcome(r) == IF grants[r] = 0 THEN "no" ELSE IF held[r] THEN "yes" ELSE "ended"
Granted == [r \in Requests |-> Outcome(r)]

QuietGrant == UNCHANGED <<Needed, Votes, Vetoes, Granted>>

\* A step that leaves the mapped variables alone is a stutter of the promise.
LEMMA QuietIsStutter ==
    ASSUME QuietGrant
    PROVE  UNCHANGED Grant!grantVars
BY DEF QuietGrant, Needed, Votes, Vetoes, Granted, Outcome, Grant!grantVars

\* Steps that were pending or escalated and still are leave the votes alone.
LEMMA QuietSteps ==
    ASSUME \A q \in Requests, j \in Rules :
             \/ steps'[q][j].status = steps[q][j].status
             \/ /\ steps[q][j].status = "pending"
                /\ steps'[q][j].status = "escalated"
    PROVE  UNCHANGED <<Needed, Votes, Vetoes>>
<1>1. \A q \in Requests : Present(q)' = Present(q)
  BY DEF Present
<1>2. QED
  BY <1>1 DEF Needed, Votes, Vetoes

\* Touching a pending step without deciding it is a stutter of the promise.
LEMMA QuietTouch ==
    ASSUME NEW r \in Requests, NEW k \in Rules, NEW st \in {"pending", "escalated"},
           steps[r][k].status = "pending", Touches(r, k, st),
           UNCHANGED <<grants, held>>
    PROVE  QuietGrant
<1>1. UNCHANGED <<Needed, Votes, Vetoes>>
  <2>1. \A q \in Requests, j \in Rules :
          \/ steps'[q][j].status = steps[q][j].status
          \/ /\ steps[q][j].status = "pending"
             /\ steps'[q][j].status = "escalated"
    BY DEF Touches
  <2>2. QED
    BY <2>1, QuietSteps
<1>2. QED
  BY <1>1 DEF QuietGrant, Granted, Outcome

\* A submission fixes the approvals needed.
LEMMA SubmitRefines ==
    ASSUME Inv, NEW r \in Requests, SubmitRequest(r)
    PROVE  Grant!Submit(r)
<1>1. TypeOK /\ DecisionInv(r) /\ status[r] = "draft"
  BY DEF Inv, SubmitRequest
<1>2. Present(r) = {}
  BY <1>1 DEF DecisionInv
<1>3. PICK others \in SUBSET (Rules \ {ManagerRule}) :
        steps' = [steps EXCEPT ![r] = Workflow(r, others \cup {ManagerRule})]
  BY DEF SubmitRequest
<1>4. steps'[r] = Workflow(r, others \cup {ManagerRule})
  BY <1>1, <1>3 DEF TypeOK
<1>5. /\ \E k \in Rules : steps'[r][k].status = "pending"
      /\ \A k \in Rules : steps'[r][k].status \in {"absent", "pending"}
  BY <1>4, WorkflowType, RulesAssumption
<1>6. \A q \in Requests : q # r => steps'[q] = steps[q]
  BY <1>1, <1>3 DEF TypeOK
<1> DEFINE needed == Present(r)'
<1>7. needed \in (SUBSET Rules) \ {{}}
  BY <1>5 DEF Present
<1>8. Needed' = [Needed EXCEPT ![r] = needed]
  BY <1>6 DEF Needed, Present
<1>9. Votes' = Votes /\ Vetoes' = Vetoes
  <2>1. \A k \in Rules : steps[r][k].status = "absent"
    BY <1>2 DEF Present
  <2>2. QED
    BY <1>5, <1>6, <2>1 DEF Votes, Vetoes
<1>10. Granted' = Granted
  BY DEF SubmitRequest, Granted, Outcome
<1>11. Needed[r] = {}
  BY <1>2 DEF Needed
<1> HIDE DEF needed
<1>12. QED
  BY <1>7, <1>8, <1>9, <1>10, <1>11
     DEF Grant!Submit, Needed, Votes, Vetoes, Granted, Outcome

\* An approval is a vote.
LEMMA ApproveRefines ==
    ASSUME Inv, NEW r \in Requests, NEW k \in Rules, NEW u \in Users,
           Approve(r, k, u)
    PROVE  Grant!Vote(r, k)
<1>1. TypeOK /\ steps[r][k].status = "pending"
  BY DEF Inv, Approve, MayAct
<1>2. /\ steps'[r][k].status = "approved"
      /\ \A q \in Requests, j \in Rules :
            (q # r \/ j # k) => steps'[q][j] = steps[q][j]
  BY <1>1, ApproveTouches DEF Touches
<1>3. \A q \in Requests : Present(q)' = Present(q)
  BY <1>1, <1>2 DEF Present
<1>4. Needed' = Needed
  BY <1>3 DEF Needed
<1>5. Votes' = [Votes EXCEPT ![r] = @ \cup {k}]
  <2>1. {j \in Rules : steps'[r][j].status = "approved"}
          = {j \in Rules : steps[r][j].status = "approved"} \cup {k}
    BY <1>2
  <2>2. \A q \in Requests : q # r =>
          {j \in Rules : steps'[q][j].status = "approved"}
            = {j \in Rules : steps[q][j].status = "approved"}
    BY <1>2
  <2>3. QED
    BY <2>1, <2>2 DEF Votes
<1>6. Vetoes' = Vetoes
  BY <1>1, <1>2 DEF Vetoes
<1>7. Granted' = Granted
  BY DEF Approve, Granted, Outcome
<1>8. k \in Needed[r] \ (Votes[r] \cup Vetoes[r])
  BY <1>1 DEF Needed, Votes, Vetoes, Present
<1>9. QED
  BY <1>4, <1>5, <1>6, <1>7, <1>8
     DEF Grant!Vote, Needed, Votes, Vetoes, Granted, Outcome

\* A rejection is a veto.
LEMMA RejectRefines ==
    ASSUME Inv, NEW r \in Requests, NEW k \in Rules, NEW u \in Users,
           Reject(r, k, u)
    PROVE  Grant!Veto(r, k)
<1>1. TypeOK /\ steps[r][k].status = "pending"
  BY DEF Inv, Reject, MayAct
<1>2. /\ steps'[r][k].status = "rejected"
      /\ \A q \in Requests, j \in Rules :
            (q # r \/ j # k) => steps'[q][j] = steps[q][j]
  BY <1>1, RejectTouches DEF Touches
<1>3. \A q \in Requests : Present(q)' = Present(q)
  BY <1>1, <1>2 DEF Present
<1>4. Needed' = Needed
  BY <1>3 DEF Needed
<1>5. Vetoes' = [Vetoes EXCEPT ![r] = @ \cup {k}]
  <2>1. {j \in Rules : steps'[r][j].status = "rejected"}
          = {j \in Rules : steps[r][j].status = "rejected"} \cup {k}
    BY <1>2
  <2>2. \A q \in Requests : q # r =>
          {j \in Rules : steps'[q][j].status = "rejected"}
            = {j \in Rules : steps[q][j].status = "rejected"}
    BY <1>2
  <2>3. QED
    BY <2>1, <2>2 DEF Vetoes
<1>6. Votes' = Votes
  BY <1>1, <1>2 DEF Votes
<1>7. Granted' = Granted
  BY DEF Reject, Granted, Outcome
<1>8. k \in Needed[r] \ (Votes[r] \cup Vetoes[r])
  BY <1>1 DEF Needed, Votes, Vetoes, Present
<1>9. QED
  BY <1>4, <1>5, <1>6, <1>7, <1>8
     DEF Grant!Veto, Needed, Votes, Vetoes, Granted, Outcome

\* A call that resumes grants the access with every vote, or stutters.
LEMMA ResumeRefines ==
    ASSUME Inv, NEW r \in Requests, Resume(r)
    PROVE  Grant!GrantAccess(r) \/ QuietGrant
<1>1. TypeOK /\ DecisionInv(r) /\ steps' = steps
  BY DEF Inv, Resume
<1>2. UNCHANGED <<Needed, Votes, Vetoes>>
  BY <1>1, QuietSteps
<1>3. CASE ReadyToProvision(r)
  <2>1. /\ grants' = [grants EXCEPT ![r] = @ + 1]
        /\ held' = [held EXCEPT ![r] = TRUE]
    BY <1>3, Zenon DEF Resume, ProvisionIfApproved
  <2>2. FullyApproved(steps[r]) /\ ~ (grants[r] > 0)
    BY <1>1, <1>3 DEF DecisionInv, ReadyToProvision
  <2>3. grants[r] = 0
    BY <1>1, <2>2 DEF TypeOK
  <2>4. grants'[r] = 1 /\ held'[r]
    BY <1>1, <2>1, <2>3 DEF TypeOK
  <2>5. \A q \in Requests : q # r => grants'[q] = grants[q] /\ held'[q] = held[q]
    BY <1>1, <2>1 DEF TypeOK
  <2>6. Granted' = [Granted EXCEPT ![r] = "yes"]
    <3>1. Outcome(r)' = "yes"
      BY <2>4 DEF Outcome
    <3>2. \A q \in Requests : q # r => Outcome(q)' = Outcome(q)
      BY <2>5 DEF Outcome
    <3>3. QED
      BY <3>1, <3>2 DEF Granted
  <2>7. Granted[r] = "no"
    BY <2>3 DEF Granted, Outcome
  <2>8. Needed[r] # {} /\ Votes[r] = Needed[r]
    BY <2>2 DEF FullyApproved, Needed, Votes, Present
  <2>9. QED
    BY <1>2, <2>6, <2>7, <2>8
       DEF Grant!GrantAccess, Needed, Votes, Vetoes, Granted, Outcome
<1>4. CASE ~ ReadyToProvision(r)
  <2>1. UNCHANGED <<grants, held>>
    BY <1>4 DEF Resume, ProvisionIfApproved
  <2>2. QED
    BY <1>2, <2>1 DEF QuietGrant, Granted, Outcome
<1>5. QED
  BY <1>3, <1>4

\* The revocation of expired access ends the grant.
LEMMA RevokeRefines ==
    ASSUME Inv, NEW r \in Requests, RevokeExpired(r)
    PROVE  Grant!EndAccess(r)
<1>1. TypeOK /\ DecisionInv(r) /\ steps' = steps /\ grants' = grants
  BY DEF Inv, RevokeExpired
<1>2. UNCHANGED <<Needed, Votes, Vetoes>>
  BY <1>1, QuietSteps
<1>3. status[r] = "provisioned" /\ held' = [held EXCEPT ![r] = FALSE]
  BY DEF RevokeExpired, Revocable
<1>4. grants[r] > 0 /\ held[r]
  BY <1>1, <1>3 DEF DecisionInv
<1>5. ~ held'[r] /\ \A q \in Requests : q # r => held'[q] = held[q]
  BY <1>1, <1>3 DEF TypeOK
<1>6. Granted[r] = "yes" /\ Granted' = [Granted EXCEPT ![r] = "ended"]
  <2>1. Outcome(r) = "yes" /\ Outcome(r)' = "ended"
    BY <1>1, <1>4, <1>5 DEF Outcome
  <2>2. \A q \in Requests : q # r => Outcome(q)' = Outcome(q)
    BY <1>1, <1>5 DEF Outcome
  <2>3. QED
    BY <2>1, <2>2 DEF Granted
<1>7. QED
  BY <1>2, <1>6 DEF Grant!EndAccess, Needed, Votes, Vetoes, Granted, Outcome

\* Every branch of process_approval_action is a vote, a veto or a stutter.
LEMMA ActRefines ==
    ASSUME Inv, NEW r \in Requests, NEW k \in Rules, NEW u \in Users, Act(r, k, u)
    PROVE  Grant!Vote(r, k) \/ Grant!Veto(r, k) \/ QuietGrant
<1>1. TypeOK /\ DecisionInv(r)
  BY DEF Inv
<1>2. steps[r][k].status = "pending"
  BY DEF Act, Approve, Reject, Escalate, RequestInfo, DelegateRefused, Delegate,
         MayAct
<1>3. CASE Escalate(r, k, u)
  <2>1. UNCHANGED <<grants, held>>
    BY <1>1, <1>2, <1>3, NothingToProvision DEF Escalate
  <2>2. QED
    BY <1>1, <1>2, <1>3, <2>1, EscalateTouches, QuietTouch
<1>4. CASE RequestInfo(r, k, u)
  <2>1. UNCHANGED <<grants, held>>
    BY <1>1, <1>2, <1>4, NothingToProvision DEF RequestInfo
  <2>2. QED
    BY <1>1, <1>2, <1>4, <2>1, RecordTouches, QuietTouch
<1>5. CASE DelegateRefused(r, k, u)
  <2>1. UNCHANGED <<grants, held>>
    BY <1>5 DEF DelegateRefused
  <2>2. QED
    BY <1>1, <1>2, <1>5, <2>1, RecordTouches, QuietTouch
<1>6. ASSUME NEW d \in Delegates, Delegate(r, k, u, d)
      PROVE  QuietGrant
  <2>1. UNCHANGED <<grants, held>>
    BY <1>1, <1>2, <1>6, NothingToProvision DEF Delegate
  <2>2. QED
    BY <1>1, <1>2, <1>6, <2>1, DelegateTouches, QuietTouch
<1>7. QED
  BY <1>3, <1>4, <1>5, <1>6, ApproveRefines, RejectRefines DEF Act

\* Initial states map to the initial state of the promise.
LEMMA GrantInit == Init => Grant!Init
<1> SUFFICES ASSUME Init PROVE Grant!Init
  OBVIOUS
<1>1. \A r \in Requests, k \in Rules : steps[r][k].status = "absent"
  BY DEF Init, NoStep
<1>2. /\ [r \in Requests |-> Present(r)] = [r \in Requests |-> {}]
      /\ Votes = [r \in Requests |-> {}]
      /\ Vetoes = [r \in Requests |-> {}]
  BY <1>1 DEF Present, Votes, Vetoes
<1>3. Granted = [r \in Requests |-> "no"]
  BY DEF Init, Granted, Outcome
<1>4. QED
  BY <1>2, <1>3 DEF Grant!Init, Votes, Vetoes, Granted, Outcome

\* Every step of the manager is a step or a stutter of the promise.
LEMMA GrantNext ==
    Inv /\ [Next]_vars => [Grant!Next]_(Grant!grantVars)
<1> SUFFICES ASSUME Inv, [Next]_vars
             PROVE  Grant!Next \/ UNCHANGED Grant!grantVars
  OBVIOUS
<1>1. ASSUME NEW r \in Requests, NEW k \in Rules, NEW u \in Users, Act(r, k, u)
      PROVE  Grant!Next \/ UNCHANGED Grant!grantVars
  BY <1>1, ActRefines, QuietIsStutter DEF Grant!Next
<1>2. ASSUME NEW r \in Requests, SubmitRequest(r)
      PROVE  Grant!Next
  BY <1>2, SubmitRefines DEF Grant!Next
<1>3. ASSUME NEW r \in Requests, Resume(r)
      PROVE  Grant!Next \/ UNCHANGED Grant!grantVars
  BY <1>3, ResumeRefines, QuietIsStutter DEF Grant!Next
<1>4. ASSUME NEW r \in Requests, RevokeExpired(r)
      PROVE  Grant!Next
  BY <1>4, RevokeRefines DEF Grant!Next
<1>5. ASSUME NEW r \in Requests, NEW k \in Rules,
             SlaEscalate(r, k) \/ DueDatePasses(r, k)
      PROVE  UNCHANGED Grant!grantVars
  <2>1. Touches(r, k, "pending") /\ steps[r][k].status = "pending"
    BY <1>5, SlaTouches, DueDateTouches
       DEF Inv, SlaEscalate, Escalatable, DueDatePasses
  <2>2. UNCHANGED <<grants, held>>
    BY <1>5 DEF SlaEscalate, DueDatePasses
  <2>3. QED
    BY <2>1, <2>2, QuietTouch, QuietIsStutter
<1>6. ASSUME UNCHANGED <<steps, grants, held>>
      PROVE  UNCHANGED Grant!grantVars
  <2>1. UNCHANGED <<Needed, Votes, Vetoes>>
    BY <1>6, QuietSteps
  <2>2. QED
    BY <1>6, <2>1, QuietIsStutter DEF QuietGrant, Granted, Outcome
<1>7. ASSUME NEW r \in Requests,
             \/ CreateRequest(r) \/ CancelRequest(r) \/ ResumeRaises(r)
             \/ Told(r) \/ NotifyExpiry(r) \/ EndDateNears(r)
      PROVE  UNCHANGED Grant!grantVars
  BY <1>6, <1>7 DEF CreateRequest, CancelRequest, ResumeRaises, Told,
                    NotifyExpiry, EndDateNears
<1>8. CASE SlaLeave \/ UNCHANGED vars
  BY <1>6, <1>8 DEF SlaLeave, vars
<1>9. QED
  BY <1>1, <1>2, <1>3, <1>4, <1>5, <1>7, <1>8 DEF Next

\* The manager keeps AccessGrant's promise: parked calls, delegation, the SLA
\* scan, cancellation and failing notices are stuttering steps or one of its
\* actions.
THEOREM ManagerImplementsGrant ==
    ASSUME AutoApprove = FALSE
    PROVE  Spec => ImplementsGrant
<1>1. QED
  BY GrantInit, GrantNext, DecisionInvariant, PTL
     DEF Spec, ImplementsGrant, Grant!Spec
=============================================================================
