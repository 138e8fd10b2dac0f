----------------------------- MODULE AccessGrant -----------------------------
(***************************************************************************)
(* What the access-request subsystem promises an auditor, with no queues,  *)
(* awaits or notifications: the approvals a request needs are fixed when it *)
(* is submitted, each is given or refused once, the access is granted at    *)
(* most once and only with every approval, and a grant can end.             *)
(***************************************************************************)
CONSTANTS Requests, Rules

VARIABLES
    required,  \* [Requests -> SUBSET Rules]: the approvals a request needs
    votes,     \* those given
    vetoes,    \* those refused
    granted    \* "no", "yes" or "ended"

grantVars == <<required, votes, vetoes, granted>>

Init ==
    /\ required = [r \in Requests |-> {}]
    /\ votes = [r \in Requests |-> {}]
    /\ vetoes = [r \in Requests |-> {}]
    /\ granted = [r \in Requests |-> "no"]

Submit(r) ==
    /\ required[r] = {}
    /\ \E needed \in (SUBSET Rules) \ {{}} :
        required' = [required EXCEPT ![r] = needed]
    /\ UNCHANGED <<votes, vetoes, granted>>

Vote(r, k) ==
    /\ k \in required[r] \ (votes[r] \cup vetoes[r])
    /\ votes' = [votes EXCEPT ![r] = @ \cup {k}]
    /\ UNCHANGED <<required, vetoes, granted>>

Veto(r, k) ==
    /\ k \in required[r] \ (votes[r] \cup vetoes[r])
    /\ vetoes' = [vetoes EXCEPT ![r] = @ \cup {k}]
    /\ UNCHANGED <<required, votes, granted>>

GrantAccess(r) ==
    /\ granted[r] = "no"
    /\ required[r] # {} /\ votes[r] = required[r]
    /\ granted' = [granted EXCEPT ![r] = "yes"]
    /\ UNCHANGED <<required, votes, vetoes>>

EndAccess(r) ==
    /\ granted[r] = "yes"
    /\ granted' = [granted EXCEPT ![r] = "ended"]
    /\ UNCHANGED <<required, votes, vetoes>>

Next ==
    \E r \in Requests :
        \/ Submit(r) \/ GrantAccess(r) \/ EndAccess(r)
        \/ \E k \in Rules : Vote(r, k) \/ Veto(r, k)

Spec == Init /\ [][Next]_grantVars
=============================================================================
