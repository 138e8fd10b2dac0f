------------------------ MODULE ApprovalWorkflowProofs ------------------------
(***************************************************************************)
(* Proofs about ApprovalWorkflow, for every set of people and of routes    *)
(* and any number of decisions.                                            *)
(***************************************************************************)
EXTENDS ApprovalWorkflow, FiniteSetTheorems, TLAPS

-----------------------------------------------------------------------------
(* The inductive invariant.                                                *)

Pristine == status = "none" => route = <<>> /\ current = 1 /\ final = "none" /\ told = {}

(* The status of the current stage says what was decided in it.            *)
CurrentIsTruthful ==
    Stages # {} =>
        /\ stage[current] # "created"
        /\ (With(decisions[current], "rejected") # {}) <=> (stage[current] = "rejected")
        /\ stage[current] = "completed" => Enough(current, decisions[current])

(* An approval is given in the last stage.                                 *)
ApprovalIsLast ==
    /\ "approval" \in told \/ final = "approved" =>
            current = Len(route) /\ Enough(current, decisions[current])
    /\ final = "approved" => stage[current] = "completed"

EarlierStages ==
    \A i \in Stages : i < current =>
        /\ stage[i] = "completed"
        /\ Enough(i, decisions[i])
        /\ With(decisions[i], "rejected") = {}

LaterStages == \A i \in Stages : i > current => stage[i] = "created" /\ decisions[i] = <<>>

IInv ==
    /\ TypeOK
    /\ Pristine
    /\ CurrentIsTruthful
    /\ ApprovalIsLast
    /\ EarlierStages
    /\ LaterStages

-----------------------------------------------------------------------------
(* What one more decision does to the verdicts of a stage.                 *)

LEMMA WithAppend ==
    ASSUME NEW ds \in Seq(Decision), NEW d \in Decision, NEW v
    PROVE  /\ With(ds, v) \subseteq With(Append(ds, d), v)
           /\ IsFiniteSet(With(ds, v)) /\ IsFiniteSet(With(Append(ds, d), v))
<1>1. \A k \in DOMAIN ds : k \in DOMAIN Append(ds, d) /\ Append(ds, d)[k] = ds[k]
  OBVIOUS
<1>2. With(ds, v) \subseteq With(Append(ds, d), v)
  BY <1>1 DEF With
<1>3. ASSUME NEW e \in Seq(Decision) PROVE IsFiniteSet(With(e, v))
  <2>1. IsFiniteSet(1..Len(e))
    BY FS_Interval
  <2>2. With(e, v) \subseteq 1..Len(e)
    BY DEF With
  <2>3. QED
    BY <2>1, <2>2, FS_Subset
<1>4. Append(ds, d) \in Seq(Decision)
  OBVIOUS
<1>5. IsFiniteSet(With(ds, v)) /\ IsFiniteSet(With(Append(ds, d), v))
  BY <1>3, <1>4, Zenon
<1>6. QED
  BY <1>2, <1>5

(* What is enough stays enough.                                            *)
LEMMA EnoughKept ==
    ASSUME NEW i, route[i] \in Seq(People), NEW ds \in Seq(Decision), NEW d \in Decision,
           Enough(i, ds)
    PROVE  Enough(i, Append(ds, d))
<1> DEFINE before == With(ds, "approved")
           after == With(Append(ds, d), "approved")
<1>1. before \subseteq after /\ IsFiniteSet(before) /\ IsFiniteSet(after)
  BY WithAppend
<1>2. Cardinality(before) <= Cardinality(after)
  BY <1>1, FS_Subset
<1>3. Cardinality(before) \in Nat /\ Cardinality(after) \in Nat
  BY <1>1, FS_CardinalityType
<1>4. Cardinality(before) >= Len(route[i])
  BY DEF Enough
<1>5. Len(route[i]) \in Nat
  OBVIOUS
<1> HIDE DEF before, after
<1>6. Cardinality(after) >= Len(route[i])
  BY <1>2, <1>3, <1>4, <1>5
<1>7. QED
  BY <1>6 DEF Enough, after

-----------------------------------------------------------------------------

LEMMA Initially == Init => IInv
<1> SUFFICES ASSUME Init PROVE IInv
  OBVIOUS
<1>1. Stages = {}
  BY DEF Init, Stages
<1>2. stage \in [Stages -> StageStatus] /\ decisions \in [Stages -> Seq(Decision)]
  BY <1>1 DEF Init
<1>3. TypeOK
  <2>1. route \in Seq(Seq(People))
    BY DEF Init
  <2>2. /\ status \in Status /\ final \in Final /\ current \in Nat \ {0}
        /\ told \subseteq {"approval", "rejection"}
    BY DEF Init, Status, Final
  <2>3. late \in BOOLEAN
    BY DEF Init
  <2>4. QED
    BY <1>1, <1>2, <2>1, <2>2, <2>3 DEF TypeOK
<1>4. QED
  BY <1>1, <1>3 DEF Init, IInv, Pristine, CurrentIsTruthful, ApprovalIsLast,
                    EarlierStages, LaterStages

LEMMA CreateKeeps == IInv /\ Create => IInv'
<1> SUFFICES ASSUME IInv, Create PROVE IInv'
  OBVIOUS
<1>1. PICK r \in Routes :
        /\ route' = r
        /\ status' = IF r = <<>> THEN "active" ELSE "pending"
        /\ stage' = [i \in DOMAIN r |-> IF i = 1 THEN "pending" ELSE "created"]
        /\ decisions' = [i \in DOMAIN r |-> <<>>]
  BY DEF Create
<1>2. r \in Seq(Seq(People))
  BY RoutesAssumption
<1>3. current = 1 /\ final = "none" /\ told = {} /\ status = "none"
  BY DEF Create, IInv, Pristine
<1>4. current' = 1 /\ final' = "none" /\ told' = {} /\ late' = late
  BY <1>3 DEF Create
<1>5. TypeOK'
  <2>1. DOMAIN r # {} => 1 \in DOMAIN r
    BY <1>2
  <2>2. \A i \in DOMAIN r : decisions'[i] = <<>>
    BY <1>1
  <2>3. QED
    BY <1>1, <1>2, <1>4, <2>1, <2>2 DEF IInv, TypeOK, Stages, Status, Final, StageStatus
<1>6. \A v : With(<<>>, v) = {}
  BY DEF With
<1>7. CurrentIsTruthful'
  <2> SUFFICES ASSUME Stages' # {} PROVE
        /\ stage'[1] = "pending"
        /\ With(decisions'[1], "rejected") = {}
    BY <1>4 DEF CurrentIsTruthful
  <2>1. 1 \in DOMAIN r
    BY <1>1, <1>2 DEF Stages
  <2>2. QED
    BY <2>1, <1>1, <1>6
<1>8. Pristine' /\ ApprovalIsLast'
  BY <1>1, <1>4 DEF Pristine, ApprovalIsLast
<1>9. EarlierStages' /\ LaterStages'
  BY <1>1, <1>2, <1>4 DEF EarlierStages, LaterStages, Stages
<1>10. QED
  BY <1>5, <1>7, <1>8, <1>9 DEF IInv

(* The invariant outlives whatever changes no stage and approves nothing.  *)
LEMMA StagesUntouched ==
    ASSUME IInv, UNCHANGED <<route, current, stage, decisions>>,
           status' = "none" => status = "none" /\ UNCHANGED <<final, told>>,
           status' \in Status, final' \in Final, late' \in BOOLEAN,
           final' = final \/ final' # "approved",
           told' \subseteq {"approval", "rejection"},
           "approval" \in told' => "approval" \in told \/ final = "approved"
    PROVE  IInv'
<1>1. TypeOK'
  BY DEF IInv, TypeOK, Stages
<1>2. Pristine' /\ CurrentIsTruthful'
  BY DEF IInv, Pristine, CurrentIsTruthful, Stages, Enough
<1>3. ApprovalIsLast'
  BY DEF IInv, ApprovalIsLast, Enough
<1>4. EarlierStages' /\ LaterStages'
  BY DEF IInv, EarlierStages, LaterStages, Stages, Enough
<1>5. QED
  BY <1>1, <1>2, <1>3, <1>4 DEF IInv

-----------------------------------------------------------------------------
(* A decision.  i is the stage it is recorded in, ds what that stage then  *)
(* has recorded and s the status it then has.                              *)

Recorded(i, ds, s) ==
    /\ i = current /\ i \in Stages
    /\ route' = route
    /\ ds \in Seq(Decision)
    /\ s \in StageStatus \ {"created"}
    /\ decisions' = [decisions EXCEPT ![i] = ds]
    /\ stage' = Started(i, s)
    /\ HandleCompletion(i, s)
    /\ CallBack
    /\ (With(ds, "rejected") # {}) <=> (s = "rejected")
    /\ s = "completed" => Enough(i, ds)
    /\ stage[i] = "completed" => s # "pending"
    /\ With(decisions[i], "rejected") \subseteq With(ds, "rejected")
    /\ Enough(i, decisions[i]) => Enough(i, ds)

OneMore(p, v) == Append(decisions[current], [by |-> p, verdict |-> v])

LEMMA RecordDecisionRecords ==
    ASSUME IInv, NEW p \in People, NEW v \in Verdicts, RecordDecision(p, v)
    PROVE  /\ Recorded(current, OneMore(p, v), StageAfter(current, OneMore(p, v)))
           /\ status # "none"
<1> DEFINE i == current
           d == [by |-> p, verdict |-> v]
           ds == Append(decisions[i], d)
           s == StageAfter(i, ds)
<1>1. i \in Stages /\ decisions[i] \in Seq(Decision) /\ d \in Decision
  BY DEF IInv, TypeOK, RecordDecision, Decision
<1>2. ds \in Seq(Decision)
  BY <1>1
<1>3. route[i] \in Seq(People)
  BY <1>1 DEF IInv, TypeOK, Stages
<1>4. With(decisions[i], "rejected") \subseteq With(ds, "rejected")
  BY <1>1, WithAppend
<1>5. Enough(i, decisions[i]) => Enough(i, ds)
  BY <1>1, <1>3, EnoughKept
<1>6. /\ decisions' = [decisions EXCEPT ![i] = ds]
      /\ HandleCompletion(i, s) /\ stage' = Started(i, s)
      /\ CallBack /\ route' = route
  BY DEF RecordDecision
<1>7. /\ stage[i] \in StageStatus \ {"created"}
      /\ stage[i] = "completed" => Enough(i, decisions[i])
  BY <1>1 DEF IInv, TypeOK, CurrentIsTruthful
<1>8. stage[i] = "rejected" => With(ds, "rejected") # {}
  BY <1>1, <1>4 DEF IInv, CurrentIsTruthful
<1>9. status # "none"
  BY <1>1 DEF IInv, Pristine, Stages
<1> HIDE DEF ds, i
<1>10. /\ s \in StageStatus \ {"created"}
       /\ (With(ds, "rejected") # {}) <=> (s = "rejected")
       /\ s = "completed" => Enough(i, ds)
       /\ stage[i] = "completed" => s # "pending"
  BY <1>5, <1>7, <1>8 DEF StageAfter, StageStatus
<1> HIDE DEF s
<1>11. Recorded(i, ds, s)
  BY <1>1, <1>2, <1>4, <1>5, <1>6, <1>10 DEF Recorded, i
<1>12. QED
  BY <1>9, <1>11 DEF OneMore, s, ds, i

(* Where the workflow goes from there.                                     *)
LEMMA Destination ==
    ASSUME IInv, NEW i, NEW ds, NEW s, Recorded(i, ds, s)
    PROVE  /\ Stages' = Stages /\ i \in Stages /\ i \in 1..Len(route) /\ Len(route) \in Nat
           /\ \/ /\ s = "completed" /\ i < Len(route) /\ current' = i + 1 /\ late' = FALSE
                 /\ status' = status /\ final' = final
              \/ current' = i /\ late' = late
           /\ s = "rejected" => status' = "rejected" /\ final' = "rejected" /\ current' = i
           /\ s = "pending" => status' = status /\ final' = final /\ current' = i
           /\ s = "completed" /\ current' = i =>
                i = Len(route) /\ status' = "completed" /\ final' = "approved"
           /\ s \in {"rejected", "pending", "completed"}
<1>1. route' = route /\ i \in Stages /\ i = current /\ route \in Seq(Seq(People))
  BY DEF Recorded, IInv, TypeOK
<1>2. Stages' = Stages /\ i \in 1..Len(route) /\ Len(route) \in Nat
  BY <1>1 DEF Stages
<1>3. HandleCompletion(i, s) /\ s \in {"rejected", "pending", "completed"}
  BY DEF Recorded, StageStatus
<1>4. QED
  BY <1>1, <1>2, <1>3 DEF HandleCompletion, Advance, Finish

LEMMA RecordedKeeps ==
    ASSUME IInv, NEW i, NEW ds, NEW s, Recorded(i, ds, s), status # "none"
    PROVE  IInv'
<1>1. /\ Stages' = Stages /\ i \in Stages /\ i \in 1..Len(route) /\ Len(route) \in Nat
      /\ s \in {"rejected", "pending", "completed"}
  BY Destination
<1>2. \/ /\ s = "completed" /\ i < Len(route) /\ current' = i + 1 /\ late' = FALSE
         /\ status' = status /\ final' = final
      \/ current' = i /\ late' = late
  BY Destination
<1>3. /\ s = "rejected" => status' = "rejected" /\ final' = "rejected" /\ current' = i
      /\ s = "pending" => status' = status /\ final' = final /\ current' = i
      /\ s = "completed" /\ current' = i =>
            i = Len(route) /\ status' = "completed" /\ final' = "approved"
  BY Destination
<1>4. i = current /\ route' = route /\ ds \in Seq(Decision)
  BY DEF Recorded
<1>5. TypeOK
  BY DEF IInv
<1>6. Stages = 1..Len(route)
  BY <1>5 DEF TypeOK, Stages
<1>7. /\ decisions'[i] = ds
      /\ \A j \in Stages \ {i} : decisions'[j] = decisions[j]
      /\ decisions' \in [Stages -> Seq(Decision)]
  BY <1>1, <1>4, <1>5 DEF Recorded, TypeOK
<1>8. /\ stage'[i] = s
      /\ \A j \in Stages \ {i} :
            stage'[j] = IF s = "completed" /\ j = i + 1 THEN "pending" ELSE stage[j]
      /\ stage' \in [Stages -> StageStatus]
  BY <1>1, <1>5 DEF Recorded, Started, TypeOK, StageStatus
<1>9. /\ told' \subseteq {"approval", "rejection"}
      /\ "approval" \in told' => "approval" \in told \/ final' = "approved"
  BY <1>5 DEF Recorded, CallBack, TypeOK
<1>10. \A j : Enough(j, decisions[j])' <=> Enough(j, decisions'[j])
  BY <1>4 DEF Enough
<1>11. TypeOK'
  <2>1. status' \in Status /\ final' \in Final
    BY <1>1, <1>2, <1>3, <1>5 DEF TypeOK, Status, Final
  <2>2. current' \in Nat \ {0} /\ current' \in Stages
    BY <1>1, <1>2, <1>6
  <2>3. late' \in BOOLEAN
    BY <1>2, <1>5 DEF TypeOK
  <2>4. QED
    BY <1>1, <1>4, <1>5, <1>7, <1>8, <1>9, <2>1, <2>2, <2>3 DEF TypeOK
<1>12. Pristine'
  BY <1>1, <1>2, <1>3, <1>5 DEF Pristine, TypeOK
<1>13. CurrentIsTruthful'
  <2>1. /\ stage'[current'] # "created"
        /\ (With(decisions'[current'], "rejected") # {}) <=> (stage'[current'] = "rejected")
        /\ stage'[current'] = "completed" => Enough(current', decisions'[current'])
    <3>1. CASE current' = i
      BY <3>1, <1>1, <1>4, <1>7, <1>8 DEF Recorded
    <3>2. ASSUME s = "completed", i < Len(route), current' = i + 1
          PROVE  stage'[current'] = "pending" /\ With(decisions'[current'], "rejected") = {}
      <4>1. i + 1 \in Stages \ {i} /\ i + 1 > current
        BY <3>2, <1>1, <1>4, <1>6
      <4>2. decisions[i + 1] = <<>>
        BY <4>1 DEF IInv, LaterStages
      <4>3. With(<<>>, "rejected") = {}
        BY DEF With
      <4>4. QED
        BY <3>2, <4>1, <4>2, <4>3, <1>7, <1>8
    <3>3. QED
      BY <3>1, <3>2, <1>2
  <2>2. QED
    BY <2>1, <1>10 DEF CurrentIsTruthful
<1>14. ApprovalIsLast'
  <2>1. ASSUME s = "completed", i < Len(route)
        PROVE  "approval" \notin told /\ final # "approved"
    BY <2>1, <1>1, <1>4 DEF IInv, ApprovalIsLast
  <2>2. ASSUME current' = i, "approval" \in told' \/ final' = "approved"
        PROVE  i = Len(route) /\ Enough(i, ds)
    <3>1. CASE "approval" \in told \/ final = "approved"
      BY <3>1, <1>4 DEF IInv, ApprovalIsLast, Recorded
    <3>2. CASE ~ ("approval" \in told \/ final = "approved")
      <4>1. s = "completed"
        BY <2>2, <3>2, <1>1, <1>3, <1>9
      <4>2. QED
        BY <4>1, <2>2, <1>3 DEF Recorded
    <3>3. QED
      BY <3>1, <3>2
  <2>3. ASSUME current' = i, final' = "approved"
        PROVE  s = "completed"
    BY <2>3, <1>1, <1>3, <1>4 DEF IInv, ApprovalIsLast, Recorded
  <2>4. CASE current' = i
    BY <2>2, <2>3, <2>4, <1>4, <1>7, <1>8, <1>10 DEF ApprovalIsLast
  <2>5. CASE s = "completed" /\ i < Len(route) /\ current' = i + 1 /\ final' = final
    BY <2>1, <2>5, <1>9 DEF ApprovalIsLast
  <2>6. QED
    BY <2>4, <2>5, <1>2
<1>15. EarlierStages'
  <2> SUFFICES ASSUME NEW j \in Stages, j < current'
               PROVE  /\ stage'[j] = "completed"
                      /\ Enough(j, decisions'[j])
                      /\ With(decisions'[j], "rejected") = {}
    BY <1>1, <1>10 DEF EarlierStages
  <2>1. CASE j < i
    <3>1. j \in Stages \ {i} /\ j # i + 1
      BY <2>1, <1>1, <1>6
    <3>2. stage'[j] = stage[j] /\ decisions'[j] = decisions[j]
      BY <3>1, <1>7, <1>8
    <3>3. /\ stage[j] = "completed"
          /\ Enough(j, decisions[j])
          /\ With(decisions[j], "rejected") = {}
      BY <2>1, <1>4 DEF IInv, EarlierStages
    <3>4. QED
      BY <3>2, <3>3
  <2>2. CASE j >= i
    <3>1. j = i /\ s = "completed"
      BY <2>2, <1>1, <1>2, <1>6
    <3>2. QED
      BY <3>1, <1>7, <1>8 DEF Recorded
  <2>3. QED
    BY <2>1, <2>2, <1>1, <1>6
<1>16. LaterStages'
  <2> SUFFICES ASSUME NEW j \in Stages, j > current'
               PROVE  stage'[j] = "created" /\ decisions'[j] = <<>>
    BY <1>1 DEF LaterStages
  <2>1. j \in Stages \ {i} /\ j > i /\ (s = "completed" => j # i + 1)
    <3>1. j \in 1..Len(route) /\ i \in 1..Len(route)
      BY <1>1, <1>6
    <3>2. CASE current' = i
      <4>1. j > i /\ j # i
        BY <3>1, <3>2
      <4>2. s # "completed"
        BY <3>1, <3>2, <4>1, <1>1, <1>3
      <4>3. QED
        BY <4>1, <4>2, <1>1
    <3>3. CASE current' = i + 1
      <4>1. j > i + 1
        BY <3>3
      <4>2. QED
        BY <4>1, <3>1
    <3>4. QED
      BY <3>2, <3>3, <1>2
  <2>2. QED
    BY <2>1, <1>4, <1>7, <1>8 DEF IInv, LaterStages
<1>17. QED
  BY <1>11, <1>12, <1>13, <1>14, <1>15, <1>16 DEF IInv

-----------------------------------------------------------------------------
(* The other operations change no stage.                                   *)

Undecided ==
    /\ UNCHANGED <<route, current, stage, decisions>>
    /\ status' = "none" => status = "none" /\ UNCHANGED <<final, told>>
    /\ status' \in Status /\ final' \in Final /\ late' \in BOOLEAN
    /\ final' = final \/ final' # "approved"
    /\ told' \subseteq {"approval", "rejection"}
    /\ "approval" \in told' => "approval" \in told \/ final = "approved"

LEMMA NothingElseDecides ==
    ASSUME TypeOK,
           \/ CreateApproved
           \/ \E p \in People : RefuseDecision(p)
           \/ DueDatePasses \/ Expire \/ Escalate \/ Cancel
           \/ UNCHANGED vars
    PROVE  Undecided
<1>1. CASE CreateApproved
  BY <1>1 DEF CreateApproved, Undecided, TypeOK, Status, Final
<1>2. ASSUME NEW p \in People, RefuseDecision(p) PROVE Undecided
  BY <1>2 DEF RefuseDecision, CallBack, Undecided, TypeOK
<1>3. CASE DueDatePasses
  BY <1>3 DEF DueDatePasses, Undecided, TypeOK
<1>4. CASE Expire
  BY <1>4 DEF Expire, Undecided, TypeOK, Status, Final
<1>5. CASE Escalate
  BY <1>5 DEF Escalate, Undecided, TypeOK, Status
<1>6. CASE Cancel
  BY <1>6 DEF Cancel, Undecided, TypeOK, Status, Final
<1>7. CASE UNCHANGED vars
  BY <1>7 DEF vars, Undecided, TypeOK
<1>8. QED
  BY <1>1, <1>2, <1>3, <1>4, <1>5, <1>6, <1>7

(* The steps of the workflow are of three kinds.                           *)
LEMMA Kinds ==
    ASSUME IInv, [Next]_vars
    PROVE  \/ Create
           \/ \E i, ds, s : Recorded(i, ds, s) /\ status # "none"
           \/ Undecided
<1>1. TypeOK
  BY DEF IInv
<1>2. \/ Create
      \/ \E p \in People, v \in Verdicts : RecordDecision(p, v)
      \/ \/ CreateApproved
         \/ \E p \in People : RefuseDecision(p)
         \/ DueDatePasses \/ Expire \/ Escalate \/ Cancel
         \/ UNCHANGED vars
  BY DEF Next
<1>3. ASSUME NEW p \in People, NEW v \in Verdicts, RecordDecision(p, v)
      PROVE  \E i, ds, s : Recorded(i, ds, s) /\ status # "none"
  BY <1>3, RecordDecisionRecords
<1>4. QED
  BY <1>1, <1>2, <1>3, NothingElseDecides

LEMMA Step == IInv /\ [Next]_vars => IInv'
<1> SUFFICES ASSUME IInv, [Next]_vars PROVE IInv'
  OBVIOUS
<1>1. CASE Create
  BY <1>1, CreateKeeps
<1>2. ASSUME NEW i, NEW ds, NEW s, Recorded(i, ds, s), status # "none" PROVE IInv'
  BY <1>2, RecordedKeeps
<1>3. CASE Undecided
  BY <1>3, StagesUntouched DEF Undecided
<1>4. QED
  BY <1>1, <1>2, <1>3, Kinds

(* In every reachable state the status of each stage says what was decided *)
(* in it, stages are closed in order, and approvals are given in the last. *)
THEOREM Invariant == Spec => []IInv
  BY Initially, Step, PTL DEF Spec

(* Every variable keeps its type; the current stage exists.                *)
THEOREM TypeCorrect == Spec => []TypeOK
<1>1. IInv => TypeOK
  BY DEF IInv
<1>2. QED
  BY <1>1, Invariant, PTL

-----------------------------------------------------------------------------

LEMMA ApprovalsAreComplete == IInv => ApprovalNeedsEveryStage
<1> SUFFICES ASSUME IInv PROVE ApprovalNeedsEveryStage
  OBVIOUS
<1>1. Stages = 1..Len(route) /\ current \in Nat /\ Len(route) \in Nat
  BY DEF IInv, TypeOK, Stages
<1>2. \A i \in Stages :
        /\ i < current => /\ stage[i] = "completed"
                          /\ Enough(i, decisions[i])
                          /\ With(decisions[i], "rejected") = {}
        /\ i > current => stage[i] = "created" /\ decisions[i] = <<>>
  BY DEF IInv, EarlierStages, LaterStages
<1>3. ASSUME current = Len(route), NEW i \in Stages PROVE i < current \/ i = current
  BY <1>1, <1>3
<1>4. ASSUME "approval" \in told, NEW i \in Stages PROVE Enough(i, decisions[i])
  <2>1. current = Len(route) /\ Enough(current, decisions[current])
    BY <1>4 DEF IInv, ApprovalIsLast
  <2>2. QED
    BY <2>1, <1>2, <1>3
<1>5. ASSUME final = "approved", NEW i \in Stages PROVE With(decisions[i], "rejected") = {}
  <2>1. current = Len(route) /\ stage[current] = "completed"
    BY <1>5 DEF IInv, ApprovalIsLast
  <2>2. With(decisions[current], "rejected") = {}
    BY <2>1, <1>1 DEF IInv, CurrentIsTruthful
  <2>3. QED
    BY <2>1, <2>2, <1>2, <1>3
<1>6. RequiredStages \subseteq Stages
  BY DEF RequiredStages
<1>7. QED
  BY <1>2, <1>4, <1>5, <1>6 DEF ApprovalNeedsEveryStage

(* on_approval is called only when every required stage has all its        *)
(* approvals, and what is approved no required approver rejected.          *)
THEOREM ApprovalIsComplete == Spec => []ApprovalNeedsEveryStage
  BY ApprovalsAreComplete, Invariant, PTL

-----------------------------------------------------------------------------

LEMMA RejectedStaysRejected ==
    ASSUME IInv, [Next]_vars, Rejected
    PROVE  final' # "approved" /\ ("approval" \in told' => "approval" \in told)
<1>1. PICK r \in RequiredStages : With(decisions[r], "rejected") # {}
  BY DEF Rejected
<1>0. RequiredStages \subseteq Stages
  BY DEF RequiredStages
<1>2. r = current
  <2>1. With(<<>>, "rejected") = {}
    BY DEF With
  <2>2. r \in Nat /\ current \in Nat
    BY <1>0, <1>1 DEF IInv, TypeOK, Stages
  <2>3. ~ (r < current) /\ ~ (r > current)
    BY <1>0, <1>1, <2>1 DEF IInv, EarlierStages, LaterStages
  <2>4. QED
    BY <2>2, <2>3
<1>3. final # "approved"
  BY <1>1, ApprovalsAreComplete DEF ApprovalNeedsEveryStage
<1>4. ~ Create
  BY <1>0, <1>1 DEF Create, IInv, Pristine, Stages
<1>5. ASSUME NEW i, NEW ds, NEW s, Recorded(i, ds, s)
      PROVE  final' = "rejected" /\ ("approval" \in told' => "approval" \in told)
  <2>1. s = "rejected"
    BY <1>1, <1>2, <1>5 DEF Recorded
  <2>2. final' = "rejected"
    BY <1>5, <2>1, Destination
  <2>3. QED
    BY <1>5, <2>2 DEF Recorded, CallBack
<1>6. CASE Undecided
  BY <1>3, <1>6 DEF Undecided
<1>7. QED
  BY <1>4, <1>5, <1>6, Kinds

(* No later decision, scan or cancellation turns a rejection in a required *)
(* stage into an approval.                                                 *)
THEOREM RejectionsStand == Spec => RejectionStands
<1>1. IInv /\ [Next]_vars =>
        [Rejected => final' # "approved" /\ ("approval" \in told' => "approval" \in told)]_vars
  BY RejectedStaysRejected
<1>2. QED
  BY <1>1, Invariant, PTL DEF Spec, RejectionStands

-----------------------------------------------------------------------------

(* The refinement.  One more decision is counted in its stage if it        *)
(* approves.                                                               *)
LEMMA CountAppend ==
    ASSUME NEW ds \in Seq(Decision), NEW d \in Decision
    PROVE  /\ Cardinality(With(ds, "approved")) \in Nat
           /\ Cardinality(With(Append(ds, d), "approved")) =
                IF d.verdict = "approved" THEN Cardinality(With(ds, "approved")) + 1
                ELSE Cardinality(With(ds, "approved"))
<1> DEFINE before == With(ds, "approved")
           after == With(Append(ds, d), "approved")
           n == Len(ds) + 1
<1>1. IsFiniteSet(before) /\ Cardinality(before) \in Nat
  BY WithAppend, FS_CardinalityType
<1>2. /\ DOMAIN Append(ds, d) = DOMAIN ds \cup {n} /\ n \notin DOMAIN ds
      /\ Append(ds, d)[n] = d
      /\ \A k \in DOMAIN ds : Append(ds, d)[k] = ds[k]
  OBVIOUS
<1>3. CASE d.verdict = "approved"
  <2>1. after = before \cup {n} /\ n \notin before
    BY <1>2, <1>3 DEF With
  <2>2. Cardinality(after) = Cardinality(before) + 1
    BY <1>1, <2>1, FS_AddElement
  <2>3. QED
    BY <1>1, <1>3, <2>2
<1>4. CASE d.verdict # "approved"
  <2>1. after = before
    BY <1>2, <1>4 DEF With
  <2>2. QED
    BY <1>1, <1>4, <2>1
<1>5. QED
  BY <1>3, <1>4

(* A completed stage is left unless it is the last.                        *)
LastIsLeftOpen == Stages # {} /\ current < Len(route) => stage[current] # "completed"

LEMMA LastInit == Init => LastIsLeftOpen
BY DEF Init, LastIsLeftOpen, Stages

LEMMA LastStep == IInv /\ IInv' /\ LastIsLeftOpen /\ [Next]_vars => LastIsLeftOpen'
<1> SUFFICES ASSUME IInv, IInv', LastIsLeftOpen, [Next]_vars, Stages' # {}, current' < Len(route')
             PROVE  stage'[current'] # "completed"
  BY DEF LastIsLeftOpen, Stages
<1>1. current' \in Stages'
  BY DEF IInv, TypeOK
<1>2. CASE Create
  <2>1. current' = 1
    BY <1>2 DEF Create, IInv, Pristine
  <2>2. stage'[1] = "pending"
    BY <1>1, <1>2, <2>1 DEF Create, Stages
  <2>3. QED
    BY <2>1, <2>2
<1>3. ASSUME NEW i, NEW ds, NEW s, Recorded(i, ds, s)
      PROVE  stage'[current'] # "completed"
  <2>1. stage' = Started(i, s) /\ i = current /\ i \in 1..Len(route) /\ Len(route) \in Nat
        /\ route' = route /\ Stages' = Stages
    BY <1>3, Destination DEF Recorded
  <2>0. /\ current' = i \/ current' = i + 1
        /\ s # "completed" => current' = i
        /\ s = "completed" /\ current' = i => i = Len(route)
    BY <1>3, <2>1, Destination
  <2>2. CASE s = "completed"
    <3>1. current' = i + 1 /\ i \in Nat
      BY <2>0, <2>1, <2>2
    <3>2. stage'[i + 1] = "pending"
      BY <1>1, <2>1, <2>2, <3>1 DEF Started
    <3>3. QED
      BY <3>1, <3>2
  <2>3. CASE s # "completed"
    <3>1. current' = i
      BY <2>0, <2>3
    <3>2. QED
      BY <1>1, <2>1, <2>3, <3>1 DEF Started
  <2>4. QED
    BY <2>2, <2>3
<1>4. CASE Undecided
  BY <1>4 DEF Undecided, LastIsLeftOpen, Stages
<1>5. QED
  BY <1>2, <1>3, <1>4, Kinds

(* The verdict so far, by the status of the current stage.                 *)
VerdictOf(s) == IF s = "completed" THEN "carried" ELSE IF s = "rejected" THEN "defeated" ELSE "open"

LEMMA VerdictShown ==
    ASSUME TypeOK, TypeOK'
    PROVE  /\ Stages = {} => BallotVerdict = "open"
           /\ Stages # {} => BallotVerdict = VerdictOf(stage[current])
           /\ Stages' = {} => BallotVerdict' = "open"
           /\ Stages' # {} => BallotVerdict' = VerdictOf(stage'[current'])
BY DEF BallotVerdict, VerdictOf

LEMMA BallotStays ==
    UNCHANGED <<route, current, stage, decisions>> =>
        Approvals' = Approvals /\ BallotVerdict' = BallotVerdict
BY DEF Approvals, BallotVerdict, Stages

LEMMA AnnouncementsAgree == CallBack => Ballot!Announce
<1> SUFFICES ASSUME CallBack PROVE Ballot!Announce
  OBVIOUS
<1>1. CASE final' = "approved"
  <2>1. {a \in {"approval", "rejection"} :
            final' = IF a = "approval" THEN "approved" ELSE "rejected"} = {"approval"}
    BY <1>1
  <2>2. QED
    BY <1>1, <2>1 DEF CallBack, Ballot!Announce
<1>2. CASE final' = "rejected"
  <2>1. {a \in {"approval", "rejection"} :
            final' = IF a = "approval" THEN "approved" ELSE "rejected"} = {"rejection"}
    BY <1>2
  <2>2. QED
    BY <1>2, <2>1 DEF CallBack, Ballot!Announce
<1>3. CASE final' \notin {"approved", "rejected"}
  <2>1. {a \in {"approval", "rejection"} :
            final' = IF a = "approval" THEN "approved" ELSE "rejected"} = {}
    BY <1>3
  <2>2. QED
    BY <1>3, <2>1 DEF CallBack, Ballot!Announce
<1>4. QED
  BY <1>1, <1>2, <1>3

LEMMA CreateOpens ==
    ASSUME IInv, IInv', Create
    PROVE  \E r \in Routes : Ballot!Open(r)
<1>1. route = <<>> /\ current = 1 /\ final = "none" /\ Stages = {}
  BY DEF Create, IInv, Pristine, Stages
<1>2. PICK r \in Routes :
        /\ route' = r
        /\ stage' = [i \in DOMAIN r |-> IF i = 1 THEN "pending" ELSE "created"]
        /\ decisions' = [i \in DOMAIN r |-> <<>>]
  BY DEF Create
<1>3. UNCHANGED <<current, final, told>>
  BY DEF Create
<1>4. Approvals' = [i \in DOMAIN r |-> 0]
  <2>1. Stages' = DOMAIN r
    BY <1>2 DEF Stages
  <2>2. \A i \in DOMAIN r : With(decisions'[i], "approved") = {}
    BY <1>2 DEF With
  <2>3. Cardinality({}) = 0
    BY FS_EmptySet
  <2>4. Approvals' = [i \in Stages' |-> Cardinality(With(decisions'[i], "approved"))]
    BY DEF Approvals
  <2>5. QED
    BY <2>1, <2>2, <2>3, <2>4
<1>5. BallotVerdict = "open" /\ BallotVerdict' = "open"
  <2>1. TypeOK /\ TypeOK'
    BY DEF IInv
  <2>2. Stages' # {} => current' = 1 /\ 1 \in DOMAIN r
    BY <1>1, <1>2, <1>3, <2>1 DEF TypeOK, Stages
  <2>3. Stages' # {} => stage'[current'] = "pending"
    BY <1>2, <2>2
  <2>4. QED
    BY <1>1, <2>1, <2>3, VerdictShown DEF VerdictOf
<1>6. Ballot!Open(r)
  BY <1>1, <1>2, <1>3, <1>4, <1>5 DEF Ballot!Open
<1>7. QED
  BY <1>6

(* A decision is a vote of the stage whose turn it is.                     *)
LEMMA DecisionVotes ==
    ASSUME IInv, IInv', LastIsLeftOpen, NEW p \in People, NEW v \in Verdicts, RecordDecision(p, v)
    PROVE  Ballot!Vote(v)
<1> DEFINE i == current
           ds == OneMore(p, v)
           s == StageAfter(i, ds)
           n == Cardinality(With(ds, "approved"))
<1>1. Recorded(i, ds, s)
  BY RecordDecisionRecords
<1>2. TypeOK /\ TypeOK' /\ i \in Stages /\ decisions[i] \in Seq(Decision)
  BY <1>1 DEF IInv, TypeOK, Recorded
<1>3. /\ ds = Append(decisions[i], [by |-> p, verdict |-> v])
      /\ [by |-> p, verdict |-> v] \in Decision
  BY DEF OneMore, Decision
<1>4. n = IF v = "approved" THEN Approvals[i] + 1 ELSE Approvals[i]
  BY <1>2, <1>3, CountAppend DEF Approvals
<1>5. With(ds, "rejected") # {} <=> v = "rejected" \/ With(decisions[i], "rejected") # {}
  <2>1. /\ DOMAIN ds = DOMAIN decisions[i] \cup {Len(decisions[i]) + 1}
        /\ ds[Len(decisions[i]) + 1].verdict = v
        /\ \A k \in DOMAIN decisions[i] : ds[k] = decisions[i][k]
    BY <1>2, <1>3
  <2>2. QED
    BY <2>1 DEF With
<1>6. Enough(i, ds) <=> n >= Len(route[i])
  BY DEF Enough
<1>7. /\ decisions' = [decisions EXCEPT ![i] = ds] /\ Stages' = Stages /\ route' = route
      /\ stage' = Started(i, s)
  BY <1>1, Destination DEF Recorded
<1> HIDE DEF ds, n
<1>8. Approvals' = [Approvals EXCEPT ![i] = n]
  <2>1. \A j \in Stages : decisions'[j] = IF j = i THEN ds ELSE decisions[j]
    BY <1>2, <1>7 DEF TypeOK
  <2>2. Approvals' = [j \in Stages |-> Cardinality(With(decisions'[j], "approved"))]
    BY <1>7 DEF Approvals
  <2>3. \A j \in Stages : Cardinality(With(decisions'[j], "approved")) =
                            IF j = i THEN n ELSE Approvals[j]
    BY <2>1 DEF Approvals, n
  <2>4. QED
    BY <1>2, <2>2, <2>3 DEF Approvals
<1>9. BallotVerdict = VerdictOf(stage[i])
  BY <1>2, VerdictShown
<1>10. /\ Ballot!MayDefeat(v) <=> With(ds, "rejected") # {}
       /\ Ballot!MustDefeat(v) => With(ds, "rejected") # {}
  <2>1. With(decisions[i], "rejected") # {} <=> stage[i] = "rejected"
    BY <1>2 DEF IInv, CurrentIsTruthful
  <2>2. QED
    BY <1>5, <1>9, <2>1 DEF Ballot!MayDefeat, Ballot!MustDefeat, VerdictOf
<1>11. /\ Enough(i, ds) => Ballot!MayPass
       /\ ~ Enough(i, ds) => ~ Ballot!MustPass
  <2>1. Ballot!Carried <=> Enough(i, ds)
    BY <1>2, <1>6, <1>8 DEF Ballot!Carried, Approvals
  <2>2. QED
    BY <2>1 DEF Ballot!MayPass, Ballot!MustPass
<1>12. route # <<>> /\ route[i] # <<>>
  BY <1>2 DEF RecordDecision, Listed, Stages
<1>13. Approvals' = [Approvals EXCEPT ![i] = IF v = "approved" THEN Approvals[i] + 1 ELSE Approvals[i]]
  BY <1>4, <1>8
<1>14. Ballot!Announce /\ HandleCompletion(i, s)
  BY <1>1, AnnouncementsAgree DEF Recorded
<1>15. i \in 1..Len(route) /\ Len(route) \in Nat /\ i + 1 # i
  <2>1. i \in 1..Len(route) /\ Len(route) \in Nat
    BY <1>1, Destination
  <2>2. QED
    BY <2>1
<1>16. stage'[i] = s
  BY <1>2, <1>7 DEF Started
<1>17. Stages' # {} /\ BallotVerdict' = VerdictOf(stage'[current'])
  BY <1>2, <1>7, VerdictShown
<1>18. CASE With(ds, "rejected") # {}
  <2>1. s = "rejected"
    BY <1>18 DEF StageAfter
  <2>2. Ballot!Decide("defeated", "rejected")
    BY <1>14, <1>16, <1>17, <2>1 DEF HandleCompletion, Finish, VerdictOf, Ballot!Decide
  <2>3. QED
    BY <1>7, <1>10, <1>12, <1>13, <1>14, <1>18, <2>2 DEF Ballot!Vote
<1>19. CASE With(ds, "rejected") = {} /\ Enough(i, ds)
  <2>1. s = "completed"
    BY <1>19 DEF StageAfter
  <2>2. CASE i = Len(route)
    <3>1. Ballot!Decide("carried", "approved")
      BY <1>14, <1>15, <1>16, <1>17, <2>1, <2>2
         DEF HandleCompletion, Advance, Finish, VerdictOf, Ballot!Decide
    <3>2. Ballot!Pass
      BY <2>2, <3>1 DEF Ballot!Pass
    <3>3. QED
      BY <1>7, <1>10, <1>11, <1>12, <1>13, <1>14, <1>19, <3>2 DEF Ballot!Vote
  <2>3. CASE i # Len(route)
    <3>1. i < Len(route) /\ current' = i + 1 /\ final' = final
      BY <1>14, <1>15, <2>1, <2>3 DEF HandleCompletion, Advance
    <3>2. BallotVerdict' = "open"
      <4>1. i + 1 \in Stages
        BY <1>15, <3>1 DEF Stages
      <4>2. stage'[i + 1] = "pending"
        BY <1>7, <1>15, <2>1, <4>1 DEF Started
      <4>3. QED
        BY <1>17, <3>1, <4>2 DEF VerdictOf
    <3>3. BallotVerdict = "open"
      <4>1. stage[i] # "completed"
        BY <1>2, <3>1 DEF LastIsLeftOpen
      <4>2. stage[i] # "rejected"
        BY <1>2, <1>5, <1>19 DEF IInv, CurrentIsTruthful
      <4>3. QED
        BY <1>9, <4>1, <4>2 DEF VerdictOf
    <3>4. Ballot!Pass
      BY <3>1, <3>2, <3>3 DEF Ballot!Pass
    <3>5. QED
      BY <1>7, <1>10, <1>11, <1>12, <1>13, <1>14, <1>19, <3>4 DEF Ballot!Vote
  <2>4. QED
    BY <2>2, <2>3
<1>20. CASE With(ds, "rejected") = {} /\ ~ Enough(i, ds)
  <2>1. s = stage[i]
    BY <1>20 DEF StageAfter
  <2>2. stage[i] = "pending"
    BY <1>1, <1>20, <2>1 DEF Recorded, StageStatus
  <2>3. UNCHANGED <<current, final>>
    BY <1>14, <2>1, <2>2 DEF HandleCompletion
  <2>4. BallotVerdict' = BallotVerdict
    BY <1>9, <1>16, <1>17, <2>1, <2>3
  <2>5. QED
    BY <1>7, <1>10, <1>11, <1>12, <1>13, <1>14, <1>20, <2>3, <2>4 DEF Ballot!Vote
<1>21. QED
  BY <1>18, <1>19, <1>20

(* What else happens decides nothing in the ballot.                        *)
LEMMA OtherStepsAreSeen ==
    ASSUME IInv,
           \/ CreateApproved
           \/ \E p \in People : RefuseDecision(p)
           \/ DueDatePasses \/ Expire \/ Escalate \/ Cancel
           \/ UNCHANGED vars
    PROVE  [Ballot!Next]_(Ballot!ballotVars)
<1>0. UNCHANGED <<route, current, stage, decisions>>
  BY DEF CreateApproved, RefuseDecision, DueDatePasses, Expire, Escalate, Cancel, vars
<1>1. Approvals' = Approvals /\ BallotVerdict' = BallotVerdict
  BY <1>0, BallotStays
<1>2. CASE CreateApproved
  <2>1. route = <<>> /\ final = "none"
    BY <1>2 DEF CreateApproved, IInv, Pristine
  <2>2. Ballot!Waive
    BY <1>1, <1>2, <2>1 DEF CreateApproved, Ballot!Waive
  <2>3. QED
    BY <2>2 DEF Ballot!Next
<1>3. ASSUME NEW p \in People, RefuseDecision(p) PROVE Ballot!Ask
  BY <1>1, <1>3, AnnouncementsAgree DEF RefuseDecision, Ballot!Ask
<1>4. CASE Expire
  <2>1. BallotVerdict = "open"
    BY <1>4 DEF Expire, Overdue, BallotVerdict
  <2>2. Ballot!Expire
    BY <1>1, <1>4, <2>1 DEF Expire, Ballot!Expire
  <2>3. QED
    BY <2>2 DEF Ballot!Next
<1>5. CASE Cancel
  <2>1. Ballot!Withdraw
    BY <1>1, <1>5 DEF Cancel, Ballot!Withdraw
  <2>2. QED
    BY <2>1 DEF Ballot!Next
<1>6. CASE DueDatePasses \/ Escalate \/ UNCHANGED vars
  BY <1>1, <1>6 DEF DueDatePasses, Escalate, vars, Ballot!ballotVars
<1>7. QED
  BY <1>2, <1>3, <1>4, <1>5, <1>6 DEF Ballot!Next

LEMMA BallotInit == Init => Ballot!Init
<1> SUFFICES ASSUME Init PROVE Ballot!Init
  OBVIOUS
<1>1. Stages = {}
  BY DEF Init, Stages
<1>2. Approvals = <<>>
  BY <1>1 DEF Approvals
<1>3. QED
  BY <1>1, <1>2 DEF Init, BallotVerdict, Ballot!Init

LEMMA BallotNext ==
    IInv /\ IInv' /\ LastIsLeftOpen /\ [Next]_vars => [Ballot!Next]_(Ballot!ballotVars)
<1> SUFFICES ASSUME IInv, IInv', LastIsLeftOpen, [Next]_vars
             PROVE  [Ballot!Next]_(Ballot!ballotVars)
  OBVIOUS
<1>1. CASE Create
  BY <1>1, CreateOpens DEF Ballot!Next
<1>2. ASSUME NEW p \in People, NEW v \in Verdicts, RecordDecision(p, v)
      PROVE  Ballot!Next
  BY <1>2, DecisionVotes DEF Ballot!Next, Verdicts
<1>3. CASE \/ CreateApproved
           \/ \E p \in People : RefuseDecision(p)
           \/ DueDatePasses \/ Expire \/ Escalate \/ Cancel
           \/ UNCHANGED vars
  BY <1>3, OtherStepsAreSeen
<1>4. QED
  BY <1>1, <1>2, <1>3 DEF Next

(* For any people, routes and number of decisions the workflow implements  *)
(* StagedBallot: whatever is decided in whatever status, each stage votes  *)
(* in its turn, a rejection in a required one is final, and only a ballot  *)
(* that every required stage carried is approved or called back            *)
(* (workflow.py:104-116, 199-274).                                         *)
THEOREM WorkflowImplementsBallot == Spec => ImplementsBallot
<1>1. Spec => []LastIsLeftOpen
  BY Invariant, LastInit, LastStep, PTL DEF Spec
<1>2. QED
  BY <1>1, Invariant, BallotInit, BallotNext, PTL DEF Spec, ImplementsBallot, Ballot!Spec

=============================================================================
