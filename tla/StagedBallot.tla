----------------------------- MODULE StagedBallot -----------------------------
(***************************************************************************)
(* What an approval route promises, with no workflow status, deadlines or  *)
(* escalations: one stage votes at a time, its turn passes when it has as  *)
(* many approvals as it lists approvers, a single rejection defeats the    *)
(* ballot for good, and only a ballot that every stage carried is approved *)
(* and announced so.  Nothing is promised of the votes of an observer, who *)
(* has the last turn if there is one: they may bind or not.                *)
(***************************************************************************)
EXTENDS Naturals, Sequences

CONSTANTS
    Routes,   \* sequences of stages, which are lists of approvers
    Observed  \* those whose last stage is an observer's

VARIABLES
    route,      \* the stages of this ballot
    turn,       \* the stage that votes
    approvals,  \* counted in each stage
    verdict,    \* "open", "carried" or "defeated"
    outcome,    \* what the requester is told when asking
    announced   \* what was announced

ballotVars == <<route, turn, approvals, verdict, outcome, announced>>

Init ==
    /\ route = <<>> /\ turn = 1 /\ approvals = <<>>
    /\ verdict = "open" /\ outcome = "none"
    /\ announced = {}

Open(r) ==
    /\ route = <<>> /\ outcome = "none"
    /\ route' = r
    /\ approvals' = [i \in DOMAIN r |-> 0]
    /\ UNCHANGED <<turn, verdict, outcome, announced>>

\* No ballot is needed
Waive ==
    /\ route = <<>> /\ outcome = "none"
    /\ outcome' = "auto_approved"
    /\ UNCHANGED <<route, turn, approvals, verdict, announced>>

Announce ==
    announced' = announced \cup {a \in {"approval", "rejection"} :
        outcome' = IF a = "approval" THEN "approved" ELSE "rejected"}

(* The votes of a required stage bind; those of an observer may.           *)
Binding == route \in Observed => turn < Len(route)
Carried == approvals'[turn] >= Len(route[turn])

MayDefeat(vote) == vote = "rejected" \/ verdict = "defeated"
MustDefeat(vote) == verdict = "defeated" \/ (vote = "rejected" /\ Binding)
MayPass == Binding => Carried
MustPass == Binding /\ Carried

Decide(v, result) == verdict' = v /\ outcome' = result /\ turn' = turn

Pass ==
    \/ turn = Len(route) /\ Decide("carried", "approved")
    \/ turn < Len(route) /\ turn' = turn + 1 /\ UNCHANGED <<verdict, outcome>>

(* Votes are taken after the decision too, and can only defeat it.         *)
Vote(vote) ==
    /\ route # <<>> /\ route[turn] # <<>>
    /\ approvals' = [approvals EXCEPT ![turn] = IF vote = "approved" THEN @ + 1 ELSE @]
    /\ \/ MayDefeat(vote) /\ Decide("defeated", "rejected")
       \/ ~ MustDefeat(vote) /\ MayPass /\ Pass
       \/ ~ MustDefeat(vote) /\ ~ MustPass /\ UNCHANGED <<turn, verdict, outcome>>
    /\ Announce
    /\ UNCHANGED route

\* Somebody without a vote makes it announce again
Ask == UNCHANGED <<route, turn, approvals, verdict, outcome>> /\ Announce

Expire ==
    /\ verdict = "open"
    /\ outcome' = "expired"
    /\ UNCHANGED <<route, turn, approvals, verdict, announced>>

Withdraw == outcome' = "cancelled" /\ UNCHANGED <<route, turn, approvals, verdict, announced>>

Next ==
    \/ \E r \in Routes : Open(r)
    \/ \E vote \in {"approved", "rejected", "other"} : Vote(vote)
    \/ Waive \/ Ask \/ Expire \/ Withdraw

Spec == Init /\ [][Next]_ballotVars

=============================================================================
