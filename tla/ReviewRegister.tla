---------------------------- MODULE ReviewRegister ----------------------------
(***************************************************************************)
(* What a certification campaign promises an auditor, with no counters,    *)
(* records, inboxes or overdue marks: the entitlements under review are    *)
(* fixed once the draft is left, a verdict is signed by the reviewer or by *)
(* somebody it was delegated to, what is decided stays decided, the system *)
(* revokes what is pending only after the end date, and a campaign closes  *)
(* in the very step that decides its last entitlement.                     *)
(***************************************************************************)
EXTENDS Naturals

CONSTANTS Campaigns, Access, Persons, Reviewer, Verdicts

VARIABLES
    phase,      \* [Campaigns -> {"absent", "draft", "open", "closed"}]
    listed,     \* the entitlements under review
    verdict,    \* of each entitlement, or "none"
    delegates,  \* whom each was delegated to
    due         \* campaigns past their end date

registerVars == <<phase, listed, verdict, delegates, due>>

Init ==
    /\ phase = [c \in Campaigns |-> "absent"]
    /\ listed = [c \in Campaigns |-> {}]
    /\ verdict = [c \in Campaigns |-> [a \in Access |-> "none"]]
    /\ delegates = [c \in Campaigns |-> [a \in Access |-> {}]]
    /\ due = {}

Create(c) ==
    /\ phase[c] = "absent"
    /\ phase' = [phase EXCEPT ![c] = "draft"]
    /\ due' \in {due \cup {c}, due \ {c}}
    /\ UNCHANGED <<listed, verdict, delegates>>

\* A new list of a draft starts from nothing
List(c, found) ==
    /\ phase[c] = "draft"
    /\ listed' = [listed EXCEPT ![c] = found]
    /\ verdict' = [verdict EXCEPT ![c] = [a \in Access |-> "none"]]
    /\ delegates' = [delegates EXCEPT ![c] = [a \in Access |-> {}]]
    /\ UNCHANGED <<phase, due>>

\* For the first time or again
Open(c) ==
    /\ listed[c] # {}
    /\ phase' = [phase EXCEPT ![c] = "open"]
    /\ UNCHANGED <<listed, verdict, delegates, due>>

MaySign(c, a, p) == a \in listed[c] /\ p \in {Reviewer[a]} \cup delegates[c][a]

CloseIfDone(c) ==
    phase' = [phase EXCEPT ![c] =
        IF \A a \in listed[c] : verdict'[c][a] # "none" THEN "closed" ELSE @]

Sign(c, a, p, v) ==
    /\ MaySign(c, a, p)
    /\ verdict' = [verdict EXCEPT ![c] = [@ EXCEPT ![a] = v]]
    /\ CloseIfDone(c)
    /\ UNCHANGED <<listed, delegates, due>>

Delegate(c, a, p, q) ==
    /\ MaySign(c, a, p)
    /\ delegates' = [delegates EXCEPT ![c] = [delegates[c] EXCEPT ![a] = @ \cup {q}]]
    /\ UNCHANGED <<listed, verdict, due>>
    /\ CloseIfDone(c)

EndDatePasses(c) == due' = due \cup {c} /\ UNCHANGED <<phase, listed, verdict, delegates>>

RevokePending(campaigns) ==
    /\ \A c \in campaigns : phase[c] = "open" /\ c \in due
    /\ verdict' = [c \in Campaigns |-> [a \in Access |->
          IF c \in campaigns /\ a \in listed[c] /\ verdict[c][a] = "none"
          THEN "revoke" ELSE verdict[c][a]]]
    /\ phase' = [c \in Campaigns |-> IF c \in campaigns THEN "closed" ELSE phase[c]]
    /\ UNCHANGED <<listed, delegates, due>>

Next ==
    \/ \E c \in Campaigns :
        \/ Create(c) \/ Open(c) \/ EndDatePasses(c)
        \/ \E found \in SUBSET Access : List(c, found)
        \/ \E a \in Access, p \in Persons :
            \/ \E v \in Verdicts : Sign(c, a, p, v)
            \/ \E q \in Persons : Delegate(c, a, p, q)
    \/ \E campaigns \in SUBSET Campaigns : RevokePending(campaigns)

Spec == Init /\ [][Next]_registerVars
=============================================================================
