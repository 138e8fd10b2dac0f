---------------------------- MODULE EmergencyLease ----------------------------
(***************************************************************************)
(* What emergency access promises an auditor, with no timers, connector or *)
(* account tables: a request is decided once, an approval opens at most    *)
(* one lease of the requested length, a lease is extended a limited number *)
(* of times and only while it runs, time never passes for a lease that has *)
(* used up its budget, and a closed lease stays closed.                    *)
(***************************************************************************)
EXTENDS Integers

CONSTANTS Requests, Duration, Extensions, MaxExtensions

VARIABLES
    phase,     \* "none", "asked", "refused", "open", "closed" or "reviewed"
    budget,    \* the time an open lease may still run
    extended   \* how often it was extended

leaseVars == <<phase, budget, extended>>

Init ==
    /\ phase = [r \in Requests |-> "none"]
    /\ budget = [r \in Requests |-> 0]
    /\ extended = [r \in Requests |-> 0]

Move(r, from, to) ==
    /\ phase[r] = from
    /\ phase' = [phase EXCEPT ![r] = to]

Ask(r) == Move(r, "none", "asked") /\ UNCHANGED <<budget, extended>>

\* By a person, or because the account could not be made ready
Refuse(r) == Move(r, "asked", "refused") /\ UNCHANGED <<budget, extended>>

Open(r) ==
    /\ Move(r, "asked", "open")
    /\ budget' = [budget EXCEPT ![r] = Duration[r]]
    /\ UNCHANGED extended

Extend(r, more) ==
    /\ phase[r] = "open" /\ budget[r] > 0
    /\ extended[r] < MaxExtensions
    /\ budget' = [budget EXCEPT ![r] = @ + more]
    /\ extended' = [extended EXCEPT ![r] = @ + 1]
    /\ UNCHANGED phase

Close(r) ==
    /\ Move(r, "open", "closed")
    /\ budget' = [budget EXCEPT ![r] = 0]
    /\ UNCHANGED extended

Review(r) == Move(r, "closed", "reviewed") /\ UNCHANGED <<budget, extended>>

Tick ==
    /\ \A r \in Requests : phase[r] = "open" => budget[r] > 0
    /\ budget' = [r \in Requests |->
                    IF phase[r] = "open" THEN budget[r] - 1 ELSE budget[r]]
    /\ UNCHANGED <<phase, extended>>

Next ==
    \/ \E r \in Requests :
        \/ Ask(r) \/ Refuse(r) \/ Open(r) \/ Close(r) \/ Review(r)
        \/ \E more \in Extensions : Extend(r, more)
    \/ Tick

Spec == Init /\ [][Next]_leaseVars
=============================================================================
