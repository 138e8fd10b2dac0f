---------------------------- MODULE Certification ----------------------------
(***************************************************************************)
(* Certification campaigns: src/core/certification/manager.py, called by   *)
(* src/api/routers/certification.py.                                       *)
(*                                                                         *)
(* Every handler assigns before its first await that can suspend (the      *)
(* notices of start_campaign), so each is one step.  bulk_certify is a     *)
(* sequence of decisions that swallows refusals.  Calls that are refused   *)
(* change nothing and are not steps; a revocation without comments is one  *)
(* of them.  send_reminders and the queries change nothing.                *)
(***************************************************************************)
EXTENDS Naturals, FiniteSets

CONSTANTS
    Campaigns,  \* identifiers of campaigns
    Access,     \* user-role pairs, one item each: what a campaign reviews
    Persons,    \* who reviews and who is delegated to
    Reviewer,   \* the manager an item is generated for
    Verdicts    \* the CertificationActions that decide an item

ASSUME ReviewerAssumption == Reviewer \in [Access -> Persons]
ASSUME VerdictsAssumption ==
    {"certify", "revoke"} \subseteq Verdicts /\ "none" \notin Verdicts
ASSUME AccessAssumption == IsFiniteSet(Access)

Nobody == "nobody"
System == "SYSTEM"
ASSUME PersonsAssumption == {Nobody, System} \cap Persons = {}

VARIABLES
    campaign,    \* the campaigns of the manager
    ended,       \* whether now is past end_date of a campaign
    autoRevoke,  \* config["auto_revoke_on_timeout"]
    chain        \* history: who has been delegated each current item

vars == <<campaign, ended, autoRevoke, chain>>

-----------------------------------------------------------------------------

(* An item, if it was generated; "none" is a decision of None, and an item *)
(* is completed exactly when it has a decision.  "record" is its latest    *)
(* entry of self.decisions.                                                *)
NoRecord == [action |-> "none", by |-> Nobody]
Records == [action : Verdicts \cup {"none"}, by : Persons \cup {Nobody, System}]
Items == [generated : BOOLEAN, decision : Verdicts \cup {"none"},
          delegatedTo : Persons \cup {Nobody}, overdue : BOOLEAN, record : Records]
Item(generated) == [generated |-> generated, decision |-> "none", delegatedTo |-> Nobody,
                    overdue |-> FALSE, record |-> NoRecord]

Statuses == {"absent", "draft", "active", "in_review", "completed"}
NoCampaign == [status |-> "absent", items |-> [a \in Access |-> Item(FALSE)],
               completed |-> 0, certified |-> 0, revoked |-> 0]

Listed(items) == {a \in Access : items[a].generated}
Decided(items) == {a \in Access : items[a].decision # "none"}
With(items, verdict) == {a \in Access : items[a].decision = verdict}
Generated(c) == Listed(campaign[c].items)
Pending(c) == Generated(c) \ Decided(campaign[c].items)

Counts == 0..Cardinality(Access)
CampaignType == [status : Statuses, items : [Access -> Items],
                 completed : Counts, certified : Counts, revoked : Counts]

TypeOK ==
    /\ campaign \in [Campaigns -> CampaignType]
    /\ ended \in [Campaigns -> BOOLEAN]
    /\ autoRevoke \in BOOLEAN
    /\ chain \in [Campaigns -> [Access -> SUBSET Persons]]

Init ==
    /\ campaign = [c \in Campaigns |-> NoCampaign]
    /\ ended = [c \in Campaigns |-> FALSE]
    /\ autoRevoke \in BOOLEAN
    /\ chain = [c \in Campaigns |-> [a \in Access |-> {}]]

-----------------------------------------------------------------------------

(* create_campaign: an end date may lie in the past already.               *)
CreateCampaign(c) ==
    /\ campaign[c].status = "absent"
    /\ campaign' = [campaign EXCEPT ![c] = [@ EXCEPT !.status = "draft"]]
    /\ \E past \in BOOLEAN : ended' = [ended EXCEPT ![c] = past]
    /\ UNCHANGED <<autoRevoke, chain>>

\* Mutant of MayGenerate: items of a campaign under review may be replaced.
MayGenerateIdle(c) == campaign[c].status \in {"draft", "in_review"}
MayGenerate(c) == campaign[c].status = "draft"

(* generate_campaign_items: the items replace those of an earlier call and *)
(* whatever was decided of them; the counters stay as they were.  What the *)
(* scope and the risk threshold leave depends on user data and the date.   *)
Fresh(found) == [a \in Access |-> Item(a \in found)]
GenerateItems(c) ==
    /\ MayGenerate(c)
    /\ \E found \in SUBSET Access :
        campaign' = [campaign EXCEPT ![c] = [@ EXCEPT !.items = Fresh(found)]]
    /\ chain' = [chain EXCEPT ![c] = [a \in Access |-> {}]]
    /\ UNCHANGED <<ended, autoRevoke>>

(* start_campaign: it asks for items and nothing of the status, so it also *)
(* reopens a campaign that is under review or completed.                   *)
StartCampaign(c) ==
    /\ Generated(c) # {}
    /\ campaign' = [campaign EXCEPT ![c] = [@ EXCEPT !.status = "active"]]
    /\ UNCHANGED <<ended, autoRevoke, chain>>

MayReview(c, a, p) == p \in {Reviewer[a], campaign[c].items[a].delegatedTo}

\* Mutant of CompletedCount: it counts decisions instead of items.
CompletedByOne(old, items) == IF items = old.items THEN old.completed ELSE old.completed + 1
\* "Update campaign stats": completed_items, the counter of one verdict, and
\* the check that every item is completed.
CompletedCount(old, items) == Cardinality(Decided(items))

CountAfter(kind, verdict, count, old, items) ==
    IF verdict = kind THEN Cardinality(With(items, kind)) ELSE count

\* Mutant of StatusAfter: it trusts the counter from before.
StatusByCounter(old, items) ==
    IF old.completed + 1 = Cardinality(Listed(items)) THEN "completed" ELSE old.status
StatusAfter(old, items) == IF Listed(items) \subseteq Decided(items) THEN "completed" ELSE old.status

(* The campaign after a verdict on an item, and after its delegation.      *)
AfterVerdict(old, a, p, verdict) ==
    LET items == [old.items EXCEPT
                     ![a] = [@ EXCEPT !.decision = verdict,
                                      !.record = [action |-> verdict, by |-> p]]]
    IN  [status |-> StatusAfter(old, items),
         items |-> items,
         completed |-> CompletedCount(old, items),
         certified |-> CountAfter("certify", verdict, old.certified, old.items, items),
         revoked |-> CountAfter("revoke", verdict, old.revoked, old.items, items)]
AfterDelegation(old, a, q) ==
    LET items == [old.items EXCEPT ![a] = [@ EXCEPT !.delegatedTo = q]]
    IN  [old EXCEPT !.status = StatusAfter(old, items),
                    !.items = items,
                    !.completed = CompletedCount(old, items)]

(* process_decision with an action other than DELEGATE, in any status; an  *)
(* item that is decided already may be decided again.                      *)
Decide(c, a, p, verdict) ==
    /\ a \in Generated(c)
    /\ MayReview(c, a, p)
    /\ campaign' = [campaign EXCEPT ![c] = AfterVerdict(campaign[c], a, p, verdict)]
    /\ UNCHANGED <<ended, autoRevoke, chain>>

(* process_decision with DELEGATE: the delegate replaces an earlier one,   *)
(* and the reviewer keeps the item.                                        *)
Delegate(c, a, p, q) ==
    /\ a \in Generated(c)
    /\ MayReview(c, a, p)
    /\ campaign' = [campaign EXCEPT ![c] = AfterDelegation(campaign[c], a, q)]
    /\ chain' = [chain EXCEPT ![c] = [chain[c] EXCEPT ![a] = @ \cup {q}]]
    /\ UNCHANGED <<ended, autoRevoke>>

Expired(c) == campaign[c].status = "active" /\ ended[c]

(* The branch of process_expired_campaigns that hands over to a review.    *)
\* Mutant of MarkOverdue: delegated items are passed over.
MarkOverdueKept(old) ==
    [old EXCEPT !.status = "in_review",
                !.items = [a \in Access |->
                    IF @[a].generated /\ @[a].decision = "none" /\ @[a].delegatedTo = Nobody
                    THEN [@[a] EXCEPT !.overdue = TRUE] ELSE @[a]]]
MarkOverdue(old) ==
    [old EXCEPT !.status = "in_review",
                !.items = [a \in Access |->
                    IF @[a].generated /\ @[a].decision = "none"
                    THEN [@[a] EXCEPT !.overdue = TRUE] ELSE @[a]]]

(* _auto_revoke_pending: it records its decisions, and leaves the counters.*)
\* Mutant of AutoRevoke: no decision is recorded.
AutoRevokeUnrecorded(old) ==
    [old EXCEPT !.status = "completed",
                !.items = [a \in Access |->
                    IF @[a].generated /\ @[a].decision = "none"
                    THEN [@[a] EXCEPT !.decision = "revoke"] ELSE @[a]]]
AutoRevoke(old) ==
    [old EXCEPT !.status = "completed",
                !.items = [a \in Access |->
                    IF @[a].generated /\ @[a].decision = "none"
                    THEN [@[a] EXCEPT !.decision = "revoke",
                                      !.record = [action |-> "revoke", by |-> System]]
                    ELSE @[a]]]

(* process_expired_campaigns: one pass over all campaigns.                 *)
ProcessExpired ==
    /\ \E c \in Campaigns : Expired(c)
    /\ campaign' = [c \in Campaigns |->
           IF ~ Expired(c) THEN campaign[c]
           ELSE IF autoRevoke THEN AutoRevoke(campaign[c]) ELSE MarkOverdue(campaign[c])]
    /\ UNCHANGED <<ended, autoRevoke, chain>>

(* The clock passes the end date of a campaign.                            *)
EndDatePasses(c) ==
    /\ campaign[c].status # "absent"
    /\ ~ ended[c]
    /\ ended' = [ended EXCEPT ![c] = TRUE]
    /\ UNCHANGED <<campaign, autoRevoke, chain>>

Next ==
    \/ \E c \in Campaigns :
        \/ CreateCampaign(c)
        \/ GenerateItems(c)
        \/ StartCampaign(c)
        \/ EndDatePasses(c)
        \/ \E a \in Access, p \in Persons :
            \/ \E verdict \in Verdicts : Decide(c, a, p, verdict)
            \/ \E q \in Persons : Delegate(c, a, p, q)
    \/ ProcessExpired

Spec == Init /\ [][Next]_vars

-----------------------------------------------------------------------------

(* A completed campaign has nothing left to decide: neither a decision     *)
(* taken before the start, a restart, a delegation nor a new generation    *)
(* of items leaves a pending item behind that no inbox shows               *)
(* (manager.py:417, 526 against 136 and 316).                              *)
CompletedMeansDecided ==
    \A c \in Campaigns : campaign[c].status = "completed" => Pending(c) = {}

(* A campaign under review shows which items were late: every item still   *)
(* pending is marked overdue, also after restarts and delegations          *)
(* (manager.py:501-505).                                                   *)
LateItemsAreMarked ==
    \A c \in Campaigns : campaign[c].status = "in_review" =>
        \A a \in Pending(c) : campaign[c].items[a].overdue

(* Every decision an item carries is the latest on record for it, and only *)
(* the chain of delegation that starts at its reviewer took it; the system *)
(* decides nothing but revocations of campaigns that have ended            *)
(* (manager.py:376-405, 507-524).                                          *)
DecisionsAreAccountable ==
    \A c \in Campaigns : \A a \in Generated(c) :
        LET item == campaign[c].items[a]
            by == item.record.by
        IN  /\ item.record.action = item.decision
            /\ item.decision # "none" =>
                 \/ by \in {Reviewer[a]} \cup chain[c][a]
                 \/ by = System /\ item.decision = "revoke" /\ autoRevoke /\ ended[c]

(* The counters of the campaign never fall short of its items, although    *)
(* each is recomputed by its own kind of decision only; the automatic      *)
(* revocations alone are not counted (manager.py:407-414, 507-526).        *)
CountersDoNotFallShort ==
    \A c \in Campaigns :
        /\ Cardinality(With(campaign[c].items, "certify")) <= campaign[c].certified
        /\ ~ autoRevoke =>
            /\ Cardinality(With(campaign[c].items, "revoke")) <= campaign[c].revoked
            /\ Cardinality(Decided(campaign[c].items)) <= campaign[c].completed

(* Once a campaign has left its draft it never returns, its items stay the *)
(* same ones, and one that was decided stays decided: a review cannot be   *)
(* emptied and closed again (manager.py:136, 159, 316, 391-395).           *)
StartedReviewsOnlyAdvance ==
    [][\A c \in Campaigns : campaign[c].status \notin {"absent", "draft"} =>
          /\ campaign'[c].status \notin {"absent", "draft"}
          /\ Listed(campaign'[c].items) = Generated(c)
          /\ Decided(campaign[c].items) \subseteq Decided(campaign'[c].items)]_vars

(* Campaigns as ReviewRegister.tla sees them: under review is open,        *)
(* whether or not the end date has passed.                                 *)
PhaseIn(x) ==
    IF x.status \in {"active", "in_review"} THEN "open"
    ELSE IF x.status = "completed" THEN "closed" ELSE x.status

VerdictsIn(x) == [a \in Access |-> x.items[a].decision]

Register == INSTANCE ReviewRegister WITH
    phase <- [c \in Campaigns |-> PhaseIn(campaign[c])],
    listed <- [c \in Campaigns |-> Generated(c)],
    verdict <- [c \in Campaigns |-> VerdictsIn(campaign[c])],
    delegates <- chain,
    due <- {c \in Campaigns : ended[c]}

(* Decisions in any status, new items, restarts, delegations and deadlines,*)
(* in any order, leave a register an auditor can trust: a review that left *)
(* its draft is never emptied, only its reviewers and their delegates sign,*)
(* and it closes with its last decision (manager.py:136, 159, 316, 376-418,*)
(* 495-526).                                                               *)
ImplementsRegister == Register!Spec

=============================================================================
