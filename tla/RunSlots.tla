------------------------------- MODULE RunSlots -------------------------------
(***************************************************************************)
(* What the scheduler's loop promises about the runs it starts, with no    *)
(* statuses, clocks, handlers or table: a job has at most one such run, a  *)
(* pass starts several runs at once but never more than there are free     *)
(* slots, only a job that is still known begins, and a run whose job is    *)
(* deleted is withdrawn or stopped.                                        *)
(***************************************************************************)
EXTENDS Integers, FiniteSets

CONSTANTS Jobs, MaxConcurrent

VARIABLES
    known,  \* [Jobs -> {"absent", "present", "deleted"}]
    run     \* [Jobs -> {"idle", "created", "waiting", "cancelling"}]

slotVars == <<known, run>>

Busy == {j \in Jobs : run[j] # "idle"}

Init ==
    /\ known = [j \in Jobs |-> "absent"]
    /\ run = [j \in Jobs |-> "idle"]

Move(j, from, to) ==
    /\ run[j] \in from
    /\ \E state \in to : run' = [run EXCEPT ![j] = state]

Add(j) ==
    /\ known[j] = "absent"
    /\ known' = [known EXCEPT ![j] = "present"]
    /\ UNCHANGED run

StartRuns(jobs) ==
    /\ \A j \in jobs : known[j] = "present" /\ run[j] = "idle"
    /\ Cardinality(Busy) + Cardinality(jobs) <= MaxConcurrent
    /\ run' = [j \in Jobs |-> IF j \in jobs THEN "created" ELSE run[j]]
    /\ UNCHANGED known

\* The run suspends, or it is over at once
Begin(j) ==
    /\ known[j] = "present"
    /\ Move(j, {"created"}, {"waiting", "idle"})
    /\ UNCHANGED known

End(j) == Move(j, {"waiting", "cancelling"}, {"idle"}) /\ UNCHANGED known

Delete(j) ==
    /\ known[j] = "present"
    /\ known' = [known EXCEPT ![j] = "deleted"]
    /\ \/ Move(j, {"created", "idle"}, {"idle"})
       \/ Move(j, {"waiting"}, {"cancelling"})

Next ==
    \/ \E j \in Jobs : Add(j) \/ Begin(j) \/ End(j) \/ Delete(j)
    \/ \E jobs \in SUBSET Jobs : StartRuns(jobs)

Spec == Init /\ [][Next]_slotVars
=============================================================================
