------------------------------ MODULE TaskLedger ------------------------------
(***************************************************************************)
(* What the provisioning subsystem promises about one task, with no heap,  *)
(* no workers and no retry counters: a task is in one place at a time, its *)
(* steps take effect one by one and never again, a task goes back to the   *)
(* queue or is given up only while nothing of it took effect, and what is  *)
(* completed stays so.                                                     *)
(***************************************************************************)
EXTENDS Naturals

CONSTANTS Tasks, StepsOf

VARIABLES
    place,    \* [Tasks -> Places]
    effects   \* [Tasks -> the steps that took effect in a target system]

Places == {"out", "queued", "working", "completed", "failed", "dropped", "direct"}

ledgerVars == <<place, effects>>

Init ==
    /\ place = [t \in Tasks |-> "out"]
    /\ effects = [t \in Tasks |-> {}]

Move(t, from, to) ==
    /\ place[t] \in from
    /\ \E p \in to : place' = [place EXCEPT ![t] = p]
    /\ UNCHANGED effects

Accept(t) == Move(t, {"out"}, {"queued"})

Take(t) == Move(t, {"queued"}, {"working"})

TakeEffect(t, i) ==
    /\ place[t] \in {"working", "direct"}
    /\ i \notin effects[t]
    /\ effects' = [effects EXCEPT ![t] = @ \cup {i}]
    /\ UNCHANGED place

\* The task is filed, possibly in the step of its last effect
Complete(t) ==
    /\ place[t] = "working"
    /\ \E i \in 1..StepsOf[t] :
        effects' = [effects EXCEPT ![t] = @ \cup {i}]
    /\ place' = [place EXCEPT ![t] = "completed"]

CompleteEmpty(t) == StepsOf[t] = 0 /\ Move(t, {"queued"}, {"completed"})

\* Nothing of it took effect: it is tried again, or given up
Reject(t) ==
    /\ effects[t] = {}
    /\ Move(t, {"queued", "working"}, {"queued", "failed"})

\* By hand; a full queue refuses
Retry(t) == Move(t, {"failed"}, {"queued", "dropped"})

Cancel(t) == Move(t, {"queued"}, {"dropped"})

\* An API call executes a task no queue will see
Execute(t) == Move(t, {"out"}, {"direct"})

Next ==
    \E t \in Tasks :
        \/ Accept(t) \/ Take(t) \/ Complete(t) \/ CompleteEmpty(t)
        \/ Reject(t) \/ Retry(t) \/ Cancel(t) \/ Execute(t)
        \/ \E i \in 1..StepsOf[t] : TakeEffect(t, i)

Spec == Init /\ [][Next]_ledgerVars
=============================================================================
