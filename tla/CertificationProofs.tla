------------------------- MODULE CertificationProofs -------------------------
(***************************************************************************)
(* What Certification guarantees for any campaigns, items and persons.     *)
(* Each handler replaces the record of a campaign by another one, so the   *)
(* invariant is a conjunction of predicates on a record, and there is one  *)
(* lemma for each of the records a handler may make.  The last part shows  *)
(* that the manager implements ReviewRegister, again record by record.     *)
(***************************************************************************)
EXTENDS Certification, FiniteSetTheorems, TLAPS

(* Nothing is decided but what is listed, and a campaign not yet created   *)
(* lists nothing.                                                          *)
Tidy(x) ==
    /\ x.status = "absent" => Listed(x.items) = {}
    /\ Decided(x.items) \subseteq Listed(x.items)

Closed(x) == x.status = "completed" => Listed(x.items) \subseteq Decided(x.items)

Late(x) ==
    x.status = "in_review" =>
        \A a \in Listed(x.items) \ Decided(x.items) : x.items[a].overdue

(* An item whose reviewer is r was delegated to those of "delegates"; "auto"*)
(* tells whether the system may have revoked it.                           *)
ItemAccounted(item, r, delegates, auto) ==
    /\ item.record.action = item.decision
    /\ item.delegatedTo # Nobody => item.delegatedTo \in delegates
    /\ item.decision # "none" =>
         \/ item.record.by \in {r} \cup delegates
         \/ item.record.by = System /\ item.decision = "revoke" /\ auto

Accounted(x, delegates, auto) ==
    \A a \in Access : ItemAccounted(x.items[a], Reviewer[a], delegates[a], auto)

Counted(x, auto) ==
    /\ Cardinality(With(x.items, "certify")) <= x.certified
    /\ ~ auto =>
        /\ Cardinality(With(x.items, "revoke")) <= x.revoked
        /\ Cardinality(Decided(x.items)) <= x.completed

Sound(x, delegates, auto, over) ==
    /\ x \in CampaignType
    /\ Tidy(x) /\ Closed(x) /\ Late(x)
    /\ Accounted(x, delegates, auto /\ over)
    /\ Counted(x, auto)

(* What a step may make of a campaign that has left its draft.             *)
Advances(x, y) ==
    x.status \notin {"absent", "draft"} =>
        /\ y.status \notin {"absent", "draft"}
        /\ Listed(y.items) = Listed(x.items)
        /\ Decided(x.items) \subseteq Decided(y.items)

-----------------------------------------------------------------------------

(* What can be counted of the items lies within their number, and what     *)
(* shrinks is not counted more often.                                      *)
LEMMA Counting ==
    ASSUME NEW S \in SUBSET Access, NEW T \in SUBSET S
    PROVE  Cardinality(S) \in Counts /\ Cardinality(T) <= Cardinality(S)
<1>1. IsFiniteSet(S) /\ IsFiniteSet(Access)
  BY AccessAssumption, FS_Subset
<1>2. Cardinality(S) \in Nat /\ Cardinality(Access) \in Nat
  BY <1>1, FS_CardinalityType
<1>3. Cardinality(S) <= Cardinality(Access) /\ Cardinality(T) <= Cardinality(S)
  BY <1>1, FS_Subset
<1>4. QED
  BY <1>2, <1>3 DEF Counts

(* The same as a formula, which the provers instantiate by themselves.     *)
LEMMA CountingTypes == \A S \in SUBSET Access : Cardinality(S) \in Counts
BY Counting

(* The counters of a campaign are numbers.                                 *)
LEMMA CountsAreNats == Counts \subseteq Nat
<1>1. Cardinality(Access) \in Nat
  BY AccessAssumption, FS_CardinalityType
<1>2. QED
  BY <1>1 DEF Counts

(* The counters can be compared.                                           *)
LEMMA CountsAreInts == Counts \subseteq Int
BY CountsAreNats

(* A campaign with other values in some of its fields.                     *)
Replaced(x, status, items) == [x EXCEPT !.status = status, !.items = items]
Recounted(x, status, items, count) ==
    [x EXCEPT !.status = status, !.items = items, !.completed = count]

(* Replacing the status and the items keeps the type and the counters.     *)
LEMMA ReplacedType ==
    ASSUME NEW x \in CampaignType, NEW status \in Statuses, NEW items \in [Access -> Items]
    PROVE  LET y == Replaced(x, status, items)
           IN  /\ y \in CampaignType /\ y.status = status /\ y.items = items
               /\ y.completed = x.completed /\ y.certified = x.certified /\ y.revoked = x.revoked
BY DEF CampaignType, Replaced

(* So does replacing the number of completed items too.                    *)
LEMMA RecountedType ==
    ASSUME NEW x \in CampaignType, NEW status \in Statuses, NEW items \in [Access -> Items],
           NEW count \in Counts
    PROVE  LET y == Recounted(x, status, items, count)
           IN  /\ y \in CampaignType /\ y.status = status /\ y.items = items
               /\ y.completed = count /\ y.certified = x.certified /\ y.revoked = x.revoked
BY DEF CampaignType, Recounted

(* The items a verdict leaves.                                             *)
LEMMA VerdictItems ==
    ASSUME NEW x \in CampaignType, NEW a \in Access, NEW p \in Persons, NEW verdict \in Verdicts
    PROVE  LET items == AfterVerdict(x, a, p, verdict).items
           IN  /\ items \in [Access -> Items]
               /\ \A b \in Access \ {a} : items[b] = x.items[b]
               /\ items[a].generated = x.items[a].generated
               /\ items[a].decision = verdict
               /\ items[a].delegatedTo = x.items[a].delegatedTo
               /\ items[a].overdue = x.items[a].overdue
               /\ items[a].record = [action |-> verdict, by |-> p]
<1> DEFINE record == [action |-> verdict, by |-> p]
           new == [x.items[a] EXCEPT !.decision = verdict, !.record = record]
           items == AfterVerdict(x, a, p, verdict).items
<1>1. x.items \in [Access -> Items] /\ x.items[a] \in Items
  BY DEF CampaignType
<1>2. record \in Records
  BY DEF Records
<1>3. items = [x.items EXCEPT ![a] = new]
  BY DEF AfterVerdict
<1> HIDE DEF record, items
<1>4. /\ new \in Items
      /\ new.generated = x.items[a].generated
      /\ new.decision = verdict
      /\ new.delegatedTo = x.items[a].delegatedTo
      /\ new.overdue = x.items[a].overdue
      /\ new.record = record
  BY <1>1, <1>2 DEF Items
<1> HIDE DEF new
<1>5. items \in [Access -> Items] /\ items[a] = new /\ \A b \in Access \ {a} : items[b] = x.items[b]
  BY <1>1, <1>3, <1>4
<1>6. QED
  BY <1>4, <1>5 DEF items, record

(* A verdict keeps everything sound, in any status of the campaign.        *)
LEMMA VerdictSound ==
    ASSUME NEW x, NEW delegates, NEW auto \in BOOLEAN, NEW over \in BOOLEAN,
           Sound(x, delegates, auto, over),
           NEW a \in Listed(x.items), NEW p \in Persons, NEW verdict \in Verdicts,
           p \in {Reviewer[a], x.items[a].delegatedTo}
    PROVE  /\ Sound(AfterVerdict(x, a, p, verdict), delegates, auto, over)
           /\ Advances(x, AfterVerdict(x, a, p, verdict))
<1> DEFINE y == AfterVerdict(x, a, p, verdict)
<1>0. x \in CampaignType /\ a \in Access /\ verdict # "none"
  BY VerdictsAssumption DEF Sound, Listed
<1>1. /\ y.items \in [Access -> Items]
      /\ \A b \in Access \ {a} : y.items[b] = x.items[b]
      /\ y.items[a].generated = x.items[a].generated
      /\ y.items[a].decision = verdict
      /\ y.items[a].delegatedTo = x.items[a].delegatedTo
      /\ y.items[a].overdue = x.items[a].overdue
      /\ y.items[a].record = [action |-> verdict, by |-> p]
  BY <1>0, VerdictItems
<1>2. x.items \in [Access -> Items] /\ x.items[a] \in Items /\ x.items[a].generated
  BY <1>0 DEF CampaignType, Listed
<1>3. /\ y.status = StatusAfter(x, y.items)
      /\ y.completed = CompletedCount(x, y.items)
      /\ y.certified = CountAfter("certify", verdict, x.certified, x.items, y.items)
      /\ y.revoked = CountAfter("revoke", verdict, x.revoked, x.items, y.items)
  BY DEF AfterVerdict
<1>4. y = [status |-> y.status, items |-> y.items, completed |-> y.completed,
           certified |-> y.certified, revoked |-> y.revoked]
  BY DEF AfterVerdict
<1> HIDE DEF y
<1>5. \A b \in Access : y.items[b].generated = x.items[b].generated
  BY <1>1
<1>6. /\ Listed(y.items) = Listed(x.items)
      /\ Decided(y.items) = Decided(x.items) \cup {a}
  <2>1. \A b \in Access : b \in Listed(y.items) <=> b \in Listed(x.items)
    BY <1>5 DEF Listed
  <2>2. \A b \in Access : b \in Decided(y.items) <=> b \in Decided(x.items) \cup {a}
    BY <1>0, <1>1 DEF Decided
  <2>3. QED
    BY <1>0, <2>1, <2>2 DEF Listed, Decided
<1>7. \A kind : With(y.items, kind) = IF kind = verdict THEN With(x.items, kind) \cup {a}
                                                        ELSE With(x.items, kind) \ {a}
  <2>1. \A kind, b : b \in With(y.items, kind)
           <=> b \in IF kind = verdict THEN With(x.items, kind) \cup {a} ELSE With(x.items, kind) \ {a}
    BY <1>0, <1>1 DEF With
  <2>2. QED
    BY <2>1
<1>8. /\ \A S \in SUBSET Access : Cardinality(S) \in Counts
      /\ x.completed \in Counts /\ x.certified \in Counts /\ x.revoked \in Counts
      /\ x.status \in Statuses
  BY <1>0, CountingTypes DEF CampaignType
<1>9. y \in CampaignType
  <2>1. y.completed \in Counts /\ y.certified \in Counts /\ y.revoked \in Counts
    BY <1>3, <1>8 DEF CompletedCount, CountAfter, Decided, With
  <2>2. y.status \in Statuses
    BY <1>3, <1>8 DEF StatusAfter, Statuses
  <2>3. QED
    BY <1>1, <1>4, <2>1, <2>2 DEF CampaignType
<1>10. Tidy(y) /\ Closed(y) /\ Late(y)
  <2>1. y.status \in {"completed", x.status} /\ (Closed(y) /\ (Tidy(y)))
    BY <1>0, <1>3, <1>6 DEF StatusAfter, Tidy, Closed, Sound
  <2>2. Late(y)
    BY <1>1, <1>5, <1>6, <2>1 DEF Late, Sound, Listed
  <2>3. QED
    BY <2>1, <2>2
<1>11. Accounted(y, delegates, auto /\ over)
  <2>1. ASSUME NEW b \in Access \ {a}
        PROVE  ItemAccounted(y.items[b], Reviewer[b], delegates[b], auto /\ over)
    BY <1>1 DEF Sound, Accounted
  <2>2. ItemAccounted(x.items[a], Reviewer[a], delegates[a], auto /\ over)
    BY <1>0 DEF Sound, Accounted
  <2>3. p # Nobody
    BY PersonsAssumption
  <2>4. ItemAccounted(y.items[a], Reviewer[a], delegates[a], auto /\ over)
    <3>1. y.items[a].record.action = verdict /\ y.items[a].record.by = p
      BY <1>1
    <3>2. p \in {Reviewer[a]} \cup delegates[a]
      BY <2>2, <2>3 DEF ItemAccounted
    <3>3. QED
      BY <1>1, <2>2, <3>1, <3>2 DEF ItemAccounted
  <2>5. QED
    BY <2>1, <2>4 DEF Accounted
<1>12. Counted(y, auto)
  <2>1. ASSUME NEW kind, NEW old \in Counts, Cardinality(With(x.items, kind)) <= old
        PROVE  Cardinality(With(y.items, kind)) <= CountAfter(kind, verdict, old, x.items, y.items)
    <3>1. With(x.items, kind) \in SUBSET Access /\ With(y.items, kind) \in SUBSET Access
      BY DEF With
    <3>2. /\ Cardinality(With(x.items, kind)) \in Int
          /\ Cardinality(With(y.items, kind)) \in Int /\ old \in Int
      BY <1>8, <2>1, <3>1, CountsAreInts
    <3>3. CASE kind = verdict
      BY <3>2, <3>3 DEF CountAfter
    <3>4. CASE kind # verdict
      <4>1. Cardinality(With(y.items, kind)) <= Cardinality(With(x.items, kind))
        BY <1>7, <3>1, <3>4, Counting
      <4>2. QED
        BY <2>1, <3>2, <3>4, <4>1 DEF CountAfter
    <3>5. QED
      BY <3>3, <3>4
  <2>2. Cardinality(Decided(y.items)) <= y.completed
    <3>1. Cardinality(Decided(y.items)) \in Int
      BY <1>8, CountsAreInts DEF Decided
    <3>2. QED
      BY <1>3, <3>1 DEF CompletedCount
  <2>3. QED
    BY <1>3, <1>8, <2>1, <2>2 DEF Sound, Counted
<1>13. Advances(x, y)
  BY <1>3, <1>6 DEF Advances, StatusAfter
<1>14. QED
  BY <1>9, <1>10, <1>11, <1>12, <1>13 DEF Sound, y

(* A delegation adds to the chain of its item and decides nothing.         *)
Longer(delegates, a, q) == [delegates EXCEPT ![a] = @ \cup {q}]

(* The delegate joins the chain, and nothing else is disturbed.            *)
LEMMA DelegationSound ==
    ASSUME NEW x, NEW delegates \in [Access -> SUBSET Persons], NEW auto \in BOOLEAN,
           NEW over \in BOOLEAN, Sound(x, delegates, auto, over),
           NEW a \in Listed(x.items), NEW q \in Persons
    PROVE  /\ Sound(AfterDelegation(x, a, q), Longer(delegates, a, q), auto, over)
           /\ Advances(x, AfterDelegation(x, a, q))
<1> DEFINE y == AfterDelegation(x, a, q)
           new == [x.items[a] EXCEPT !.delegatedTo = q]
           longer == Longer(delegates, a, q)
<1>0. x \in CampaignType /\ a \in Access /\ x.items \in [Access -> Items] /\ x.items[a] \in Items
  BY DEF Sound, Listed, CampaignType
<1>1. /\ new \in Items
      /\ new.generated = x.items[a].generated /\ new.decision = x.items[a].decision
      /\ new.overdue = x.items[a].overdue /\ new.record = x.items[a].record
      /\ new.delegatedTo = q
  BY <1>0 DEF Items
<1> DEFINE items == [x.items EXCEPT ![a] = new]
<1>2. y = Recounted(x, StatusAfter(x, items), items, CompletedCount(x, items))
  BY DEF AfterDelegation, Recounted
<1> HIDE DEF y, new
<1>3. items \in [Access -> Items] /\ items[a] = new /\ \A b \in Access \ {a} : items[b] = x.items[b]
  BY <1>0, <1>1
<1> HIDE DEF items
<1>4. /\ StatusAfter(x, items) \in Statuses
      /\ CompletedCount(x, items) \in Counts
  BY <1>0, CountingTypes DEF StatusAfter, Statuses, CompletedCount, CampaignType, Decided
<1>8. /\ y \in CampaignType /\ y.status = StatusAfter(x, y.items) /\ y.items = items
      /\ y.completed = CompletedCount(x, y.items)
      /\ y.certified = x.certified /\ y.revoked = x.revoked
  <2>1. /\ y \in CampaignType /\ y.status = StatusAfter(x, items) /\ y.items = items
        /\ y.completed = CompletedCount(x, items)
        /\ y.certified = x.certified /\ y.revoked = x.revoked
    BY <1>0, <1>2, <1>3, <1>4, RecountedType
  <2>2. QED
    BY <2>1
<1>5. \A b \in Access : /\ y.items[b].generated = x.items[b].generated
                        /\ y.items[b].decision = x.items[b].decision
                        /\ y.items[b].overdue = x.items[b].overdue
  BY <1>1, <1>3, <1>8
<1>6. /\ Listed(y.items) = Listed(x.items)
      /\ Decided(y.items) = Decided(x.items)
      /\ \A kind : With(y.items, kind) = With(x.items, kind)
  BY <1>5 DEF Listed, Decided, With
<1>7. Cardinality(Decided(x.items)) \in Counts
  BY CountingTypes DEF Decided
<1>9. Tidy(y) /\ Closed(y) /\ Late(y)
  <2>1. y.status \in {"completed", x.status} /\ Closed(y) /\ Tidy(y)
    BY <1>6, <1>8 DEF StatusAfter, Tidy, Closed, Sound
  <2>2. Late(y)
    BY <1>5, <1>6, <2>1 DEF Late, Sound, Listed
  <2>3. QED
    BY <2>1, <2>2
<1>10. Accounted(y, longer, auto /\ over)
  <2>1. ASSUME NEW b \in Access \ {a}
        PROVE  ItemAccounted(y.items[b], Reviewer[b], longer[b], auto /\ over)
    BY <1>3, <1>8 DEF Sound, Accounted, Longer
  <2>2. ItemAccounted(x.items[a], Reviewer[a], delegates[a], auto /\ over)
    BY <1>0 DEF Sound, Accounted
  <2>3. longer[a] = delegates[a] \cup {q}
    BY <1>0 DEF Longer
  <2>4. ItemAccounted(new, Reviewer[a], longer[a], auto /\ over)
    BY <1>1, <2>2, <2>3 DEF ItemAccounted
  <2>5. QED
    BY <1>3, <1>8, <2>1, <2>4 DEF Accounted
<1>11. Counted(y, auto)
  <2>1. Cardinality(Decided(y.items)) <= y.completed
    <3>1. y.completed = Cardinality(Decided(x.items)) /\ y.completed \in Int
      BY <1>6, <1>7, <1>8, CountsAreInts DEF CompletedCount
    <3>2. QED
      BY <1>6, <3>1
  <2>2. /\ With(y.items, "certify") = With(x.items, "certify")
        /\ With(y.items, "revoke") = With(x.items, "revoke")
    BY <1>6
  <2>3. QED
    BY <1>8, <2>1, <2>2 DEF Counted, Sound
<1>12. Advances(x, y)
  BY <1>6, <1>8 DEF Advances, StatusAfter
<1>13. QED
  BY <1>8, <1>9, <1>10, <1>11, <1>12 DEF Sound, y

(* The pass over an expired campaign marks every pending item.             *)
LEMMA MarkSound ==
    ASSUME NEW x, NEW delegates, NEW auto \in BOOLEAN, NEW over \in BOOLEAN,
           Sound(x, delegates, auto, over)
    PROVE  Sound(MarkOverdue(x), delegates, auto, over) /\ Advances(x, MarkOverdue(x))
<1> DEFINE y == MarkOverdue(x)
           Mark(a) == IF x.items[a].generated /\ x.items[a].decision = "none"
                      THEN [x.items[a] EXCEPT !.overdue = TRUE] ELSE x.items[a]
<1>0. x \in CampaignType /\ x.items \in [Access -> Items]
  BY DEF Sound, CampaignType
<1> DEFINE items == [a \in Access |-> Mark(a)]
<1>2. y = Replaced(x, "in_review", items)
  BY DEF MarkOverdue, Replaced
<1>3. ASSUME NEW a \in Access
      PROVE  /\ Mark(a) \in Items
             /\ Mark(a).generated = x.items[a].generated
             /\ Mark(a).decision = x.items[a].decision
             /\ Mark(a).delegatedTo = x.items[a].delegatedTo
             /\ Mark(a).record = x.items[a].record
             /\ x.items[a].generated /\ x.items[a].decision = "none" => Mark(a).overdue
  <2>1. x.items[a] \in Items
    BY <1>0
  <2>2. QED
    BY <2>1 DEF Items
<1> HIDE DEF y, Mark
<1>1. items \in [Access -> Items] /\ \A a \in Access : items[a] = Mark(a)
  BY <1>3
<1> HIDE DEF items
<1>4. /\ y \in CampaignType /\ y.status = "in_review"
      /\ y.completed = x.completed /\ y.certified = x.certified /\ y.revoked = x.revoked
      /\ \A a \in Access : y.items[a] = Mark(a)
  <2>1. "in_review" \in Statuses
    BY DEF Statuses
  <2>2. QED
    BY <1>0, <1>1, <1>2, <2>1, ReplacedType
<1>5. /\ Listed(y.items) = Listed(x.items)
      /\ Decided(y.items) = Decided(x.items)
      /\ \A kind : With(y.items, kind) = With(x.items, kind)
  BY <1>3, <1>4 DEF Listed, Decided, With
<1>7. Tidy(y) /\ Closed(y)
  BY <1>4, <1>5 DEF Sound, Tidy, Closed
<1>8. Late(y)
  BY <1>3, <1>4, <1>5 DEF Late, Listed, Decided
<1>9. Accounted(y, delegates, auto /\ over)
  BY <1>3, <1>4 DEF Sound, Accounted, ItemAccounted
<1>10. Counted(y, auto)
  BY <1>4, <1>5 DEF Sound, Counted
<1>11. Advances(x, y)
  BY <1>4, <1>5 DEF Advances
<1>12. QED
  BY <1>4, <1>7, <1>8, <1>9, <1>10, <1>11 DEF Sound, y

(* The automatic revocation decides every pending item, in the name of the *)
(* system.                                                                 *)
LEMMA RevokeSound ==
    ASSUME NEW x, NEW delegates, NEW auto \in BOOLEAN, NEW over \in BOOLEAN,
           Sound(x, delegates, auto, over), auto, over
    PROVE  Sound(AutoRevoke(x), delegates, auto, over) /\ Advances(x, AutoRevoke(x))
<1> DEFINE y == AutoRevoke(x)
           record == [action |-> "revoke", by |-> System]
           Revoked(a) == IF x.items[a].generated /\ x.items[a].decision = "none"
                         THEN [x.items[a] EXCEPT !.decision = "revoke", !.record = record]
                         ELSE x.items[a]
<1>0. x \in CampaignType /\ x.items \in [Access -> Items]
  BY DEF Sound, CampaignType
<1> DEFINE items == [a \in Access |-> Revoked(a)]
<1>2. y = Replaced(x, "completed", items)
  BY DEF AutoRevoke, Replaced
<1>3. record \in Records /\ record.action = "revoke" /\ record.by = System
  BY VerdictsAssumption DEF Records
<1> HIDE DEF record, y
<1>4. ASSUME NEW a \in Access
      PROVE  /\ Revoked(a) \in Items
             /\ Revoked(a).generated = x.items[a].generated
             /\ Revoked(a).delegatedTo = x.items[a].delegatedTo
             /\ \/ Revoked(a).decision = "revoke" /\ Revoked(a).record = record
                   /\ x.items[a].generated /\ x.items[a].decision = "none"
                \/ Revoked(a) = x.items[a] /\ (x.items[a].generated => x.items[a].decision # "none")
  <2>1. x.items[a] \in Items /\ "revoke" \in Verdicts
    BY <1>0, VerdictsAssumption
  <2>2. QED
    BY <1>3, <2>1 DEF Items
<1> HIDE DEF Revoked
<1>1. items \in [Access -> Items] /\ \A a \in Access : items[a] = Revoked(a)
  BY <1>4
<1> HIDE DEF items
<1>5. /\ y \in CampaignType /\ y.status = "completed"
      /\ y.completed = x.completed /\ y.certified = x.certified /\ y.revoked = x.revoked
      /\ \A a \in Access : y.items[a] = Revoked(a)
  <2>1. "completed" \in Statuses
    BY DEF Statuses
  <2>2. QED
    BY <1>0, <1>1, <1>2, <2>1, ReplacedType
<1>6. /\ Listed(y.items) = Listed(x.items)
      /\ Decided(y.items) = Listed(x.items)
      /\ With(y.items, "certify") = With(x.items, "certify")
  <2>1. \A a \in Access : a \in Decided(x.items) => a \in Listed(x.items)
    BY DEF Sound, Tidy
  <2>2. \A a \in Access : /\ a \in Listed(y.items) <=> a \in Listed(x.items)
                          /\ a \in Decided(y.items) <=> a \in Listed(x.items)
    BY <1>4, <1>5, <2>1 DEF Listed, Decided
  <2>3. \A a \in Access : a \in With(y.items, "certify") <=> a \in With(x.items, "certify")
    BY <1>4, <1>5 DEF With
  <2>4. QED
    BY <2>2, <2>3 DEF Listed, Decided, With
<1>8. Tidy(y) /\ Closed(y) /\ Late(y)
  BY <1>5, <1>6 DEF Tidy, Closed, Late
<1>9. Accounted(y, delegates, auto /\ over)
  BY <1>3, <1>4, <1>5 DEF Sound, Accounted, ItemAccounted
<1>10. Counted(y, auto)
  BY <1>5, <1>6 DEF Sound, Counted
<1>11. Advances(x, y)
  BY <1>5, <1>6 DEF Advances, Sound, Tidy
<1>12. QED
  BY <1>5, <1>8, <1>9, <1>10, <1>11 DEF Sound, y


(* New items owe nothing to those they replace.                            *)
NoDelegates == [a \in Access |-> {}]

(* Whatever the scope finds, new items of a draft are sound.               *)
LEMMA FreshSound ==
    ASSUME NEW y \in CampaignType, NEW found \in SUBSET Access, y.items = Fresh(found),
           y.status = "draft" \/ (y.status = "absent" /\ found = {}),
           NEW auto \in BOOLEAN, NEW over \in BOOLEAN
    PROVE  Sound(y, NoDelegates, auto, over)
<1>1. \A a \in Access : /\ y.items[a] = Item(a \in found)
                        /\ Item(a \in found).generated = (a \in found)
                        /\ Item(a \in found).decision = "none"
                        /\ Item(a \in found).record.action = "none"
                        /\ Item(a \in found).delegatedTo = Nobody
  BY DEF Fresh, Item, NoRecord
<1>2. Listed(y.items) = found /\ Decided(y.items) = {}
  BY <1>1 DEF Listed, Decided
<1>3. Tidy(y) /\ Closed(y) /\ Late(y)
  BY <1>2 DEF Tidy, Closed, Late
<1>4. Accounted(y, NoDelegates, auto /\ over)
  BY <1>1 DEF NoDelegates, Accounted, ItemAccounted
<1>5. Counted(y, auto)
  <2>1. With(y.items, "certify") = {} /\ With(y.items, "revoke") = {}
    BY <1>1 DEF With
  <2>2. Cardinality({}) = 0
    BY FS_EmptySet
  <2>3. y.certified \in Nat /\ y.revoked \in Nat /\ y.completed \in Nat
    BY CountsAreNats DEF CampaignType
  <2>4. QED
    BY <1>2, <2>1, <2>2, <2>3 DEF Counted
<1>6. QED
  BY <1>3, <1>4, <1>5 DEF Sound

(* A campaign may be started in any status, and a new one has no items.    *)
WithStatus(x, status) == [x EXCEPT !.status = status]

(* Either status keeps the campaign sound, and starting lets it advance.   *)
LEMMA StatusSound ==
    ASSUME NEW x, NEW delegates, NEW auto \in BOOLEAN, NEW over \in BOOLEAN,
           Sound(x, delegates, auto, over), NEW status \in {"draft", "active"}
    PROVE  /\ Sound(WithStatus(x, status), delegates, auto, over)
           /\ status = "active" => Advances(x, WithStatus(x, status))
<1> DEFINE y == WithStatus(x, status)
<1>1. /\ y \in CampaignType /\ y.status = status /\ y.items = x.items
      /\ y.completed = x.completed /\ y.certified = x.certified /\ y.revoked = x.revoked
  BY DEF Sound, CampaignType, Statuses, WithStatus
<1> HIDE DEF y
<1>2. Tidy(y) /\ Closed(y) /\ Late(y)
  BY <1>1 DEF Sound, Tidy, Closed, Late
<1>3. Accounted(y, delegates, auto /\ over) /\ Counted(y, auto)
  BY <1>1 DEF Sound, Accounted, Counted
<1>4. status = "active" => Advances(x, y)
  BY <1>1 DEF Advances
<1>5. QED
  BY <1>1, <1>2, <1>3, <1>4 DEF Sound, y

(* The end of a campaign only widens what the system may do, and means     *)
(* nothing to a campaign without items.                                    *)
LEMMA EndSound ==
    ASSUME NEW x, NEW delegates, NEW auto \in BOOLEAN, NEW over \in BOOLEAN,
           Sound(x, delegates, auto, over),
           NEW later \in BOOLEAN, (over => later) \/ x.status = "absent"
    PROVE  Sound(x, delegates, auto, later)
<1>1. Accounted(x, delegates, auto /\ later)
  <2>1. CASE over => later
    BY <2>1 DEF Sound, Accounted, ItemAccounted
  <2>2. CASE x.status = "absent"
    <3>1. \A a \in Access : x.items[a].decision = "none"
      BY <2>2 DEF Sound, Tidy, Decided
    <3>2. QED
      BY <3>1 DEF Sound, Accounted, ItemAccounted
  <2>3. QED
    BY <2>1, <2>2
<1>2. QED
  BY <1>1 DEF Sound

-----------------------------------------------------------------------------

IInv ==
    /\ TypeOK
    /\ \A c \in Campaigns : Sound(campaign[c], chain[c], autoRevoke, ended[c])

(* The manager starts without campaigns.                                   *)
LEMMA InitInv == Init => IInv
<1> SUFFICES ASSUME Init PROVE IInv
  OBVIOUS
<1>1. NoCampaign \in CampaignType
  <2>1. [a \in Access |-> Item(FALSE)] \in [Access -> Items]
    BY DEF Item, Items, NoRecord, Records
  <2>2. 0 \in Counts
    BY AccessAssumption, FS_CardinalityType DEF Counts
  <2>3. QED
    BY <2>1, <2>2 DEF NoCampaign, CampaignType, Statuses
<1>2. NoCampaign.items = Fresh({}) /\ NoCampaign.status = "absent"
  <2>1. NoCampaign.items = [a \in Access |-> Item(FALSE)] /\ NoCampaign.status = "absent"
    BY DEF NoCampaign
  <2>2. \A a : (a \in {}) = FALSE
    OBVIOUS
  <2>3. Fresh({}) = [a \in Access |-> Item(FALSE)]
    BY <2>2 DEF Fresh
  <2>4. QED
    BY <2>1, <2>3
<1>3. ASSUME NEW over \in BOOLEAN
      PROVE  Sound(NoCampaign, NoDelegates, autoRevoke, over)
  <2>1. autoRevoke \in BOOLEAN
    BY DEF Init
  <2>2. {} \in SUBSET Access
    OBVIOUS
  <2>3. QED
    BY <1>1, <1>2, <2>1, <2>2, FreshSound
<1>4. TypeOK
  BY <1>1 DEF Init, TypeOK
<1>5. QED
  BY <1>3, <1>4 DEF Init, IInv, NoDelegates

(* What every step must leave: a sound manager whose campaigns advanced.   *)
Held ==
    /\ ended' \in [Campaigns -> BOOLEAN] /\ autoRevoke' \in BOOLEAN
    /\ chain' \in [Campaigns -> [Access -> SUBSET Persons]]
    /\ campaign' \in [Campaigns -> CampaignType]
    /\ \A c \in Campaigns : /\ Sound(campaign'[c], chain'[c], autoRevoke', ended'[c])
                            /\ Advances(campaign[c], campaign'[c])

(* All steps but ProcessExpired change the tables for one campaign.        *)
OneChange(c, y, delegates, over) ==
    /\ delegates \in [Access -> SUBSET Persons] /\ over \in BOOLEAN
    /\ campaign' = [campaign EXCEPT ![c] = y]
    /\ chain' = [chain EXCEPT ![c] = delegates]
    /\ ended' = [ended EXCEPT ![c] = over]
    /\ autoRevoke' = autoRevoke
    /\ Sound(y, delegates, autoRevoke, over)
    /\ Advances(campaign[c], y)

(* Such a step keeps everything when what it puts in is sound.             *)
LEMMA OneChangeHolds ==
    ASSUME IInv, NEW c \in Campaigns, NEW y, NEW delegates, NEW over,
           OneChange(c, y, delegates, over)
    PROVE  Held
<1>1. TypeOK /\ \A d \in Campaigns : Sound(campaign[d], chain[d], autoRevoke, ended[d])
  BY DEF IInv
<1>2. y \in CampaignType
  BY DEF OneChange, Sound
<1>3. /\ campaign'[c] = y /\ chain'[c] = delegates /\ ended'[c] = over
      /\ \A d \in Campaigns \ {c} : /\ campaign'[d] = campaign[d] /\ chain'[d] = chain[d]
                                    /\ ended'[d] = ended[d]
  BY <1>1 DEF OneChange, TypeOK
<1>4. /\ ended' \in [Campaigns -> BOOLEAN] /\ autoRevoke' \in BOOLEAN
      /\ chain' \in [Campaigns -> [Access -> SUBSET Persons]]
      /\ campaign' \in [Campaigns -> CampaignType]
  BY <1>1, <1>2 DEF OneChange, TypeOK
<1>5. \A d \in Campaigns \ {c} : /\ Sound(campaign'[d], chain'[d], autoRevoke', ended'[d])
                                 /\ Advances(campaign[d], campaign'[d])
  BY <1>1, <1>3 DEF OneChange, Advances
<1>6. /\ Sound(campaign'[c], chain'[c], autoRevoke', ended'[c])
      /\ Advances(campaign[c], campaign'[c])
  BY <1>3 DEF OneChange
<1>7. QED
  BY <1>4, <1>5, <1>6 DEF Held

(* Every handler does, and so does a pass of ProcessExpired.               *)
LEMMA InvNext ==
    ASSUME IInv, [Next]_vars
    PROVE  IInv' /\ \A c \in Campaigns : Advances(campaign[c], campaign'[c])
<1>1. TypeOK /\ \A c \in Campaigns : Sound(campaign[c], chain[c], autoRevoke, ended[c])
  BY DEF IInv
<1>2. autoRevoke \in BOOLEAN
  BY <1>1 DEF TypeOK
<1>3. ASSUME NEW c \in Campaigns
      PROVE  /\ campaign = [campaign EXCEPT ![c] = campaign[c]]
             /\ chain = [chain EXCEPT ![c] = chain[c]]
             /\ ended = [ended EXCEPT ![c] = ended[c]]
             /\ chain[c] \in [Access -> SUBSET Persons] /\ ended[c] \in BOOLEAN
             /\ Advances(campaign[c], campaign[c])
             /\ Sound(campaign[c], chain[c], autoRevoke, ended[c])
  BY <1>1 DEF TypeOK, Advances
<1>4. ASSUME NEW c \in Campaigns, CreateCampaign(c)
      PROVE  Held
  <2>1. PICK past \in BOOLEAN : ended' = [ended EXCEPT ![c] = past]
    BY <1>4 DEF CreateCampaign
  <2>2. campaign[c].status = "absent"
    BY <1>4 DEF CreateCampaign
  <2>3. Sound(campaign[c], chain[c], autoRevoke, past)
    BY <1>2, <1>3, <2>2, EndSound
  <2>4. Sound(WithStatus(campaign[c], "draft"), chain[c], autoRevoke, past)
    BY <1>2, <2>3, StatusSound
  <2>5. Advances(campaign[c], WithStatus(campaign[c], "draft"))
    BY <2>2 DEF Advances
  <2>6. campaign' = [campaign EXCEPT ![c] = WithStatus(campaign[c], "draft")]
    BY <1>4 DEF CreateCampaign, WithStatus
  <2>7. OneChange(c, WithStatus(campaign[c], "draft"), chain[c], past)
    BY <1>3, <1>4, <2>1, <2>4, <2>5, <2>6 DEF OneChange, CreateCampaign
  <2>8. QED
    BY <2>7, OneChangeHolds
<1>5. ASSUME NEW c \in Campaigns, GenerateItems(c)
      PROVE  Held
  <2>1. PICK found \in SUBSET Access :
          campaign' = [campaign EXCEPT ![c] = [campaign[c] EXCEPT !.items = Fresh(found)]]
    BY <1>5 DEF GenerateItems
  <2> DEFINE y == [campaign[c] EXCEPT !.items = Fresh(found)]
  <2>2. Fresh(found) \in [Access -> Items]
    BY DEF Fresh, Item, Items, NoRecord, Records
  <2>3. campaign[c] \in CampaignType /\ campaign[c].status = "draft"
    BY <1>1, <1>5 DEF TypeOK, GenerateItems, MayGenerate
  <2>4. y \in CampaignType /\ y.items = Fresh(found) /\ y.status = "draft"
    BY <2>2, <2>3 DEF CampaignType
  <2>5. campaign' = [campaign EXCEPT ![c] = y] /\ Advances(campaign[c], y)
    BY <2>1, <2>3 DEF Advances
  <2> HIDE DEF y
  <2>6. Sound(y, NoDelegates, autoRevoke, ended[c])
    <3>1. ended[c] \in BOOLEAN
      BY <1>3
    <3>2. QED
      BY <1>2, <2>4, <3>1, FreshSound
  <2>7. NoDelegates \in [Access -> SUBSET Persons] /\ chain' = [chain EXCEPT ![c] = NoDelegates]
    BY <1>5 DEF NoDelegates, GenerateItems
  <2>8. OneChange(c, y, NoDelegates, ended[c])
    BY <1>3, <1>5, <2>5, <2>6, <2>7 DEF OneChange, GenerateItems
  <2>9. QED
    BY <2>8, OneChangeHolds
<1>6. ASSUME NEW c \in Campaigns, StartCampaign(c)
      PROVE  Held
  <2> DEFINE y == WithStatus(campaign[c], "active")
  <2>1. Sound(y, chain[c], autoRevoke, ended[c]) /\ Advances(campaign[c], y)
    <3>1. Sound(campaign[c], chain[c], autoRevoke, ended[c]) /\ ended[c] \in BOOLEAN
      BY <1>3
    <3>2. QED
      BY <1>2, <3>1, StatusSound
  <2>2. campaign' = [campaign EXCEPT ![c] = y]
    BY <1>6 DEF StartCampaign, WithStatus
  <2> HIDE DEF y
  <2>3. OneChange(c, y, chain[c], ended[c])
    BY <1>3, <1>6, <2>1, <2>2 DEF OneChange, StartCampaign
  <2>4. QED
    BY <2>3, OneChangeHolds
<1>7. ASSUME NEW c \in Campaigns, NEW a \in Access, NEW p \in Persons, NEW verdict \in Verdicts,
             Decide(c, a, p, verdict)
      PROVE  Held
  <2> DEFINE y == AfterVerdict(campaign[c], a, p, verdict)
  <2>1. a \in Listed(campaign[c].items) /\ p \in {Reviewer[a], campaign[c].items[a].delegatedTo}
    BY <1>7 DEF Decide, MayReview, Generated
  <2>2. Sound(y, chain[c], autoRevoke, ended[c]) /\ Advances(campaign[c], y)
    <3>1. Sound(campaign[c], chain[c], autoRevoke, ended[c]) /\ ended[c] \in BOOLEAN
      BY <1>3
    <3>2. QED
      BY <1>2, <2>1, <3>1, VerdictSound
  <2>3. campaign' = [campaign EXCEPT ![c] = y]
    BY <1>7 DEF Decide
  <2> HIDE DEF y
  <2>4. OneChange(c, y, chain[c], ended[c])
    BY <1>3, <1>7, <2>2, <2>3 DEF OneChange, Decide
  <2>5. QED
    BY <2>4, OneChangeHolds
<1>8. ASSUME NEW c \in Campaigns, NEW a \in Access, NEW p \in Persons, NEW q \in Persons,
             Delegate(c, a, p, q)
      PROVE  Held
  <2> DEFINE y == AfterDelegation(campaign[c], a, q)
             longer == Longer(chain[c], a, q)
  <2>1. a \in Listed(campaign[c].items)
    BY <1>8 DEF Delegate, Generated
  <2>2. Sound(y, longer, autoRevoke, ended[c]) /\ Advances(campaign[c], y)
    <3>1. /\ Sound(campaign[c], chain[c], autoRevoke, ended[c]) /\ ended[c] \in BOOLEAN
          /\ chain[c] \in [Access -> SUBSET Persons]
      BY <1>3
    <3>2. QED
      BY <1>2, <2>1, <3>1, DelegationSound
  <2>3. longer \in [Access -> SUBSET Persons]
    BY <1>3 DEF Longer
  <2>4. chain' = [chain EXCEPT ![c] = longer] /\ campaign' = [campaign EXCEPT ![c] = y]
    BY <1>8 DEF Delegate, Longer
  <2> HIDE DEF y, longer
  <2>5. OneChange(c, y, longer, ended[c])
    BY <1>3, <1>8, <2>2, <2>3, <2>4 DEF OneChange, Delegate
  <2>6. QED
    BY <2>5, OneChangeHolds
<1>9. ASSUME NEW c \in Campaigns, EndDatePasses(c)
      PROVE  Held
  <2>1. Sound(campaign[c], chain[c], autoRevoke, TRUE)
    <3>1. Sound(campaign[c], chain[c], autoRevoke, ended[c]) /\ ended[c] \in BOOLEAN
      BY <1>3
    <3>2. QED
      BY <1>2, <3>1, EndSound
  <2>2. OneChange(c, campaign[c], chain[c], TRUE)
    BY <1>3, <1>9, <2>1 DEF OneChange, EndDatePasses
  <2>3. QED
    BY <2>2, OneChangeHolds
<1>10. ASSUME ProcessExpired
       PROVE  Held
  <2>1. UNCHANGED <<ended, autoRevoke, chain>>
    BY <1>10 DEF ProcessExpired
  <2>2. ASSUME NEW c \in Campaigns
        PROVE  /\ Sound(campaign'[c], chain'[c], autoRevoke', ended'[c])
               /\ Advances(campaign[c], campaign'[c])
    <3>1. campaign'[c] = IF ~ Expired(c) THEN campaign[c]
                         ELSE IF autoRevoke THEN AutoRevoke(campaign[c]) ELSE MarkOverdue(campaign[c])
      BY <1>10 DEF ProcessExpired
    <3>2. CASE ~ Expired(c)
      BY <1>3, <2>1, <3>1, <3>2
    <3>3. CASE Expired(c) /\ autoRevoke
      <4>1. Sound(AutoRevoke(campaign[c]), chain[c], autoRevoke, ended[c])
            /\ Advances(campaign[c], AutoRevoke(campaign[c]))
        <5>1. autoRevoke = TRUE /\ ended[c] = TRUE
          BY <1>2, <1>3, <3>3 DEF Expired
        <5>2. Sound(campaign[c], chain[c], TRUE, TRUE)
          BY <1>3, <5>1
        <5>3. Sound(AutoRevoke(campaign[c]), chain[c], TRUE, TRUE)
              /\ Advances(campaign[c], AutoRevoke(campaign[c]))
          BY <5>2, RevokeSound
        <5>4. QED
          BY <5>1, <5>3
      <4>2. QED
        BY <2>1, <3>1, <3>3, <4>1
    <3>4. CASE Expired(c) /\ ~ autoRevoke
      <4>1. Sound(MarkOverdue(campaign[c]), chain[c], autoRevoke, ended[c])
            /\ Advances(campaign[c], MarkOverdue(campaign[c]))
        <5>1. Sound(campaign[c], chain[c], autoRevoke, ended[c]) /\ ended[c] \in BOOLEAN
          BY <1>3
        <5>2. QED
          BY <1>2, <5>1, MarkSound
      <4>2. QED
        BY <2>1, <3>1, <3>4, <4>1
    <3>5. QED
      BY <3>2, <3>3, <3>4
  <2>3. campaign' = [c \in Campaigns |-> campaign'[c]]
    BY <1>10 DEF ProcessExpired
  <2>4. \A c \in Campaigns : campaign'[c] \in CampaignType
    BY <2>2 DEF Sound
  <2>5. campaign' \in [Campaigns -> CampaignType]
    BY <2>3, <2>4
  <2>6. QED
    BY <1>1, <2>1, <2>2, <2>5 DEF Held, TypeOK
<1>11. ASSUME UNCHANGED vars
       PROVE  Held
  BY <1>1, <1>3, <1>11 DEF Held, vars, TypeOK
<1>12. ASSUME Next
       PROVE  Held
  BY <1>4, <1>5, <1>6, <1>7, <1>8, <1>9, <1>10, <1>12 DEF Next
<1>13. Held
  BY <1>11, <1>12
<1>14. QED
  BY <1>13 DEF Held, IInv, TypeOK

(* The invariant holds in every reachable state.                           *)
LEMMA InvAlways == Spec => []IInv
<1>1. IInv /\ [Next]_vars => IInv'
  BY InvNext
<1>2. QED
  BY <1>1, InitInv, PTL DEF Spec

-----------------------------------------------------------------------------

(* The tables of the manager keep their types: no counter of a campaign    *)
(* exceeds the number of items there can be (manager.py:408-414).          *)
THEOREM TypeCorrect == Spec => []TypeOK
BY InvAlways, PTL DEF IInv

(* Whatever is decided, delegated, generated or started in whichever       *)
(* status, a completed campaign has no pending item (manager.py:417, 526). *)
THEOREM CompletedIsDecided == Spec => []CompletedMeansDecided
<1>1. IInv => CompletedMeansDecided
  BY DEF IInv, Sound, Closed, CompletedMeansDecided, Pending, Generated
<1>2. QED
  BY <1>1, InvAlways, PTL

(* Every pending item of a campaign under review is marked overdue         *)
(* (manager.py:501-505).                                                   *)
THEOREM LateIsMarked == Spec => []LateItemsAreMarked
<1>1. IInv => LateItemsAreMarked
  BY DEF IInv, Sound, Late, LateItemsAreMarked, Pending, Generated
<1>2. QED
  BY <1>1, InvAlways, PTL

(* Every decision is on record for somebody the reviewer's chain of        *)
(* delegation reaches, or for the system when it was due                   *)
(* (manager.py:376-405, 507-524).                                          *)
THEOREM DecidersAreKnown == Spec => []DecisionsAreAccountable
<1>1. IInv => DecisionsAreAccountable
  BY DEF IInv, Sound, Accounted, ItemAccounted, DecisionsAreAccountable, Generated, Listed
<1>2. QED
  BY <1>1, InvAlways, PTL

(* No counter falls short of the decisions it counts, automatic revocations*)
(* apart (manager.py:407-414).                                             *)
THEOREM CountersCover == Spec => []CountersDoNotFallShort
<1>1. IInv => CountersDoNotFallShort
  BY DEF IInv, Sound, Counted, CountersDoNotFallShort
<1>2. QED
  BY <1>1, InvAlways, PTL

(* A campaign that has left its draft keeps its items and its decisions    *)
(* (manager.py:136, 159, 316, 391-395).                                    *)
THEOREM ReviewsAdvance == Spec => StartedReviewsOnlyAdvance
<1>1. IInv /\ [Next]_vars =>
        [\A c \in Campaigns : campaign[c].status \notin {"absent", "draft"} =>
            /\ campaign'[c].status \notin {"absent", "draft"}
            /\ Listed(campaign'[c].items) = Generated(c)
            /\ Decided(campaign[c].items) \subseteq Decided(campaign'[c].items)]_vars
  BY InvNext DEF Advances, Generated
<1>2. QED
  BY <1>1, InvAlways, PTL DEF Spec, StartedReviewsOnlyAdvance

-----------------------------------------------------------------------------

(* The refinement.  What the register shows of a campaign depends on its   *)
(* record alone.                                                           *)
Phases == [c \in Campaigns |-> PhaseIn(campaign[c])]
Lists == [c \in Campaigns |-> Generated(c)]
VerdictTable == [c \in Campaigns |-> VerdictsIn(campaign[c])]
DueSet == {c \in Campaigns : ended[c]}

LEMMA OneReviewMoves ==
    ASSUME TypeOK, NEW c \in Campaigns, NEW y, campaign' = [campaign EXCEPT ![c] = y]
    PROVE  /\ Phases' = [Phases EXCEPT ![c] = PhaseIn(y)]
           /\ Lists' = [Lists EXCEPT ![c] = Listed(y.items)]
           /\ VerdictTable' = [VerdictTable EXCEPT ![c] = VerdictsIn(y)]
           /\ Phases[c] = PhaseIn(campaign[c]) /\ Lists[c] = Listed(campaign[c].items)
           /\ VerdictTable[c] = VerdictsIn(campaign[c])
<1>1. campaign'[c] = y /\ \A d \in Campaigns \ {c} : campaign'[d] = campaign[d]
  BY DEF TypeOK
<1>2. \A d \in Campaigns :
        /\ PhaseIn(campaign'[d]) = IF d = c THEN PhaseIn(y) ELSE PhaseIn(campaign[d])
        /\ Listed(campaign'[d].items) = IF d = c THEN Listed(y.items) ELSE Listed(campaign[d].items)
        /\ VerdictsIn(campaign'[d]) = IF d = c THEN VerdictsIn(y) ELSE VerdictsIn(campaign[d])
  BY <1>1
<1>3. /\ Phases' = [d \in Campaigns |-> PhaseIn(campaign'[d])]
      /\ Lists' = [d \in Campaigns |-> Listed(campaign'[d].items)]
      /\ VerdictTable' = [d \in Campaigns |-> VerdictsIn(campaign'[d])]
  BY DEF Phases, Lists, VerdictTable, Generated
<1>4. /\ Phases = [d \in Campaigns |-> PhaseIn(campaign[d])]
      /\ Lists = [d \in Campaigns |-> Listed(campaign[d].items)]
      /\ VerdictTable = [d \in Campaigns |-> VerdictsIn(campaign[d])]
  BY DEF Phases, Lists, VerdictTable, Generated
<1>5. Phases' = [Phases EXCEPT ![c] = PhaseIn(y)]
  BY <1>2, <1>3, <1>4
<1>6. Lists' = [Lists EXCEPT ![c] = Listed(y.items)]
  BY <1>2, <1>3, <1>4
<1>7. VerdictTable' = [VerdictTable EXCEPT ![c] = VerdictsIn(y)]
  BY <1>2, <1>3, <1>4
<1>8. QED
  BY <1>4, <1>5, <1>6, <1>7

(* A record that shows the same keeps what the register shows.             *)
LEMMA SameReview ==
    ASSUME TypeOK, NEW c \in Campaigns, NEW y, campaign' = [campaign EXCEPT ![c] = y],
           Listed(y.items) = Listed(campaign[c].items), VerdictsIn(y) = VerdictsIn(campaign[c])
    PROVE  Lists' = Lists /\ VerdictTable' = VerdictTable
<1>0. /\ Lists' = [Lists EXCEPT ![c] = Listed(y.items)]
      /\ VerdictTable' = [VerdictTable EXCEPT ![c] = VerdictsIn(y)]
      /\ Lists[c] = Listed(campaign[c].items) /\ VerdictTable[c] = VerdictsIn(campaign[c])
  BY OneReviewMoves
<1>1. /\ Lists' = [Lists EXCEPT ![c] = Lists[c]]
      /\ VerdictTable' = [VerdictTable EXCEPT ![c] = VerdictTable[c]]
  BY <1>0
<1>2. /\ Lists = [Lists EXCEPT ![c] = Lists[c]]
      /\ VerdictTable = [VerdictTable EXCEPT ![c] = VerdictTable[c]]
  BY DEF Lists, VerdictTable
<1>3. QED
  BY <1>1, <1>2

(* One lemma for the record each handler makes.                            *)
LEMMA VerdictShows ==
    ASSUME NEW x \in CampaignType, NEW a \in Access, NEW p \in Persons, NEW v \in Verdicts
    PROVE  LET y == AfterVerdict(x, a, p, v)
           IN  /\ Listed(y.items) = Listed(x.items)
               /\ VerdictsIn(y) = [VerdictsIn(x) EXCEPT ![a] = v]
               /\ PhaseIn(y) = IF \A b \in Listed(x.items) : VerdictsIn(y)[b] # "none"
                               THEN "closed" ELSE PhaseIn(x)
<1> DEFINE y == AfterVerdict(x, a, p, v)
<1>1. /\ y.items \in [Access -> Items]
      /\ \A b \in Access \ {a} : y.items[b] = x.items[b]
      /\ y.items[a].generated = x.items[a].generated
      /\ y.items[a].decision = v
      /\ y.items[a].delegatedTo = x.items[a].delegatedTo
      /\ y.items[a].overdue = x.items[a].overdue
      /\ y.items[a].record = [action |-> v, by |-> p]
  BY VerdictItems
<1>2. y.status = StatusAfter(x, y.items)
  BY DEF AfterVerdict
<1> HIDE DEF y
<1>3. Listed(y.items) = Listed(x.items)
  BY <1>1 DEF Listed
<1>4. VerdictsIn(y) = [VerdictsIn(x) EXCEPT ![a] = v]
  BY <1>1 DEF VerdictsIn
<1>5. (\A b \in Listed(x.items) : VerdictsIn(y)[b] # "none") <=> Listed(y.items) \subseteq Decided(y.items)
  BY <1>3 DEF VerdictsIn, Decided, Listed
<1>6. PhaseIn(y) = IF Listed(y.items) \subseteq Decided(y.items) THEN "closed" ELSE PhaseIn(x)
  BY <1>2 DEF StatusAfter, PhaseIn
<1>7. QED
  BY <1>3, <1>4, <1>5, <1>6 DEF y

LEMMA DelegationShows ==
    ASSUME NEW x \in CampaignType, NEW a \in Access, NEW q \in Persons
    PROVE  LET y == AfterDelegation(x, a, q)
           IN  /\ Listed(y.items) = Listed(x.items)
               /\ VerdictsIn(y) = VerdictsIn(x)
               /\ PhaseIn(y) = IF \A b \in Listed(x.items) : VerdictsIn(x)[b] # "none"
                               THEN "closed" ELSE PhaseIn(x)
<1> DEFINE y == AfterDelegation(x, a, q)
           new == [x.items[a] EXCEPT !.delegatedTo = q]
           items == [x.items EXCEPT ![a] = new]
<1>1. x.items \in [Access -> Items] /\ x.items[a] \in Items
  BY DEF CampaignType
<1>2. /\ new.generated = x.items[a].generated /\ new.decision = x.items[a].decision
  BY <1>1 DEF Items
<1>3. y = Recounted(x, StatusAfter(x, items), items, CompletedCount(x, items))
  BY DEF AfterDelegation, Recounted
<1> HIDE DEF y, new
<1>4. items[a] = new /\ \A b \in Access \ {a} : items[b] = x.items[b]
  BY <1>1
<1> HIDE DEF items
<1>5. y.items = items /\ y.status = StatusAfter(x, items)
  BY <1>3 DEF Recounted, CampaignType
<1>6. Listed(y.items) = Listed(x.items) /\ Decided(y.items) = Decided(x.items)
  BY <1>2, <1>4, <1>5 DEF Listed, Decided
<1>7. VerdictsIn(y) = VerdictsIn(x)
  BY <1>2, <1>4, <1>5 DEF VerdictsIn
<1>8. (\A b \in Listed(x.items) : VerdictsIn(x)[b] # "none") <=> Listed(x.items) \subseteq Decided(x.items)
  BY DEF VerdictsIn, Decided, Listed
<1>9. PhaseIn(y) = IF Listed(x.items) \subseteq Decided(x.items) THEN "closed" ELSE PhaseIn(x)
  BY <1>5, <1>6 DEF StatusAfter, PhaseIn
<1>10. QED
  BY <1>6, <1>7, <1>8, <1>9 DEF y

LEMMA DeadlineShows ==
    ASSUME NEW x \in CampaignType
    PROVE  /\ Listed(MarkOverdue(x).items) = Listed(x.items)
           /\ VerdictsIn(MarkOverdue(x)) = VerdictsIn(x)
           /\ x.status = "active" => PhaseIn(MarkOverdue(x)) = PhaseIn(x)
           /\ Listed(AutoRevoke(x).items) = Listed(x.items)
           /\ PhaseIn(AutoRevoke(x)) = "closed"
           /\ VerdictsIn(AutoRevoke(x)) =
                [a \in Access |-> IF a \in Listed(x.items) /\ VerdictsIn(x)[a] = "none"
                                  THEN "revoke" ELSE VerdictsIn(x)[a]]
<1> DEFINE late == [a \in Access |-> IF x.items[a].generated /\ x.items[a].decision = "none"
                                     THEN [x.items[a] EXCEPT !.overdue = TRUE] ELSE x.items[a]]
           record == [action |-> "revoke", by |-> System]
           gone == [a \in Access |-> IF x.items[a].generated /\ x.items[a].decision = "none"
                                     THEN [x.items[a] EXCEPT !.decision = "revoke", !.record = record]
                                     ELSE x.items[a]]
<1>1. \A a \in Access : x.items[a] \in Items
  BY DEF CampaignType
<1>2. MarkOverdue(x).items = late /\ MarkOverdue(x).status = "in_review"
  BY DEF MarkOverdue, CampaignType
<1>3. AutoRevoke(x).items = gone /\ AutoRevoke(x).status = "completed"
  BY DEF AutoRevoke, CampaignType
<1>4. \A a \in Access : late[a].generated = x.items[a].generated /\ late[a].decision = x.items[a].decision
  BY <1>1 DEF Items
<1>5. \A a \in Access :
        /\ gone[a].generated = x.items[a].generated
        /\ gone[a].decision = IF x.items[a].generated /\ x.items[a].decision = "none"
                              THEN "revoke" ELSE x.items[a].decision
  BY <1>1 DEF Items
<1> HIDE DEF late, gone
<1>6. Listed(late) = Listed(x.items) /\ Listed(gone) = Listed(x.items)
  BY <1>4, <1>5 DEF Listed
<1>7. VerdictsIn(MarkOverdue(x)) = VerdictsIn(x)
  BY <1>2, <1>4 DEF VerdictsIn
<1>8. VerdictsIn(AutoRevoke(x)) =
        [a \in Access |-> IF a \in Listed(x.items) /\ VerdictsIn(x)[a] = "none"
                          THEN "revoke" ELSE VerdictsIn(x)[a]]
  BY <1>3, <1>5 DEF VerdictsIn, Listed
<1>9. QED
  BY <1>2, <1>3, <1>6, <1>7, <1>8 DEF PhaseIn

LEMMA FreshShows ==
    ASSUME NEW x \in CampaignType, NEW found \in SUBSET Access
    PROVE  LET y == [x EXCEPT !.items = Fresh(found)]
           IN  /\ Listed(y.items) = found /\ PhaseIn(y) = PhaseIn(x)
               /\ VerdictsIn(y) = [a \in Access |-> "none"]
<1> DEFINE y == [x EXCEPT !.items = Fresh(found)]
<1>1. y.items = Fresh(found) /\ y.status = x.status
  BY DEF CampaignType
<1>2. \A a \in Access : /\ Fresh(found)[a].generated = (a \in found)
                        /\ Fresh(found)[a].decision = "none"
  BY DEF Fresh, Item
<1> HIDE DEF y
<1>3. QED
  BY <1>1, <1>2 DEF Listed, VerdictsIn, PhaseIn, y

-----------------------------------------------------------------------------

LEMMA SignerMay ==
    ASSUME IInv, NEW c \in Campaigns, NEW a \in Access, NEW p \in Persons,
           a \in Generated(c), MayReview(c, a, p)
    PROVE  Register!MaySign(c, a, p)
<1>1. ItemAccounted(campaign[c].items[a], Reviewer[a], chain[c][a], autoRevoke /\ ended[c])
  BY DEF IInv, Sound, Accounted
<1>2. p = Reviewer[a] \/ p \in chain[c][a]
  BY <1>1, PersonsAssumption DEF MayReview, ItemAccounted
<1>3. QED
  BY <1>2 DEF Register!MaySign, Generated

LEMMA DecideSigns ==
    ASSUME IInv, NEW c \in Campaigns, NEW a \in Access, NEW p \in Persons, NEW v \in Verdicts,
           Decide(c, a, p, v)
    PROVE  Register!Sign(c, a, p, v)
<1> DEFINE y == AfterVerdict(campaign[c], a, p, v)
<1>1. TypeOK /\ campaign[c] \in CampaignType
  BY DEF IInv, TypeOK
<1>2. /\ campaign' = [campaign EXCEPT ![c] = y] /\ UNCHANGED <<ended, chain>>
      /\ Register!MaySign(c, a, p)
  BY SignerMay DEF Decide
<1>3. /\ Listed(y.items) = Listed(campaign[c].items)
      /\ VerdictsIn(y) = [VerdictsIn(campaign[c]) EXCEPT ![a] = v]
      /\ PhaseIn(y) = IF \A b \in Listed(campaign[c].items) : VerdictsIn(y)[b] # "none"
                      THEN "closed" ELSE PhaseIn(campaign[c])
  BY <1>1, VerdictShows
<1> HIDE DEF y
<1>4. /\ Phases' = [Phases EXCEPT ![c] = PhaseIn(y)]
      /\ Lists' = [Lists EXCEPT ![c] = Listed(y.items)]
      /\ VerdictTable' = [VerdictTable EXCEPT ![c] = VerdictsIn(y)]
      /\ Phases[c] = PhaseIn(campaign[c]) /\ Lists[c] = Listed(campaign[c].items)
      /\ VerdictTable[c] = VerdictsIn(campaign[c])
  BY <1>1, <1>2, OneReviewMoves
<1>5. VerdictTable' = [VerdictTable EXCEPT ![c] = [@ EXCEPT ![a] = v]]
  BY <1>3, <1>4
<1>6. VerdictTable'[c] = VerdictsIn(y)
  BY <1>4 DEF VerdictTable
<1>7. Phases' = [Phases EXCEPT ![c] =
                    IF \A b \in Lists[c] : VerdictTable'[c][b] # "none" THEN "closed" ELSE @]
  BY <1>3, <1>4, <1>6
<1>8. Lists' = Lists
  BY <1>3, <1>4 DEF Lists
<1>9. QED
  BY <1>2, <1>5, <1>7, <1>8
     DEF Register!Sign, Register!CloseIfDone, Phases, Lists, VerdictTable

LEMMA DelegateDelegates ==
    ASSUME IInv, NEW c \in Campaigns, NEW a \in Access, NEW p \in Persons, NEW q \in Persons,
           Delegate(c, a, p, q)
    PROVE  Register!Delegate(c, a, p, q)
<1> DEFINE y == AfterDelegation(campaign[c], a, q)
<1>1. TypeOK /\ campaign[c] \in CampaignType
  BY DEF IInv, TypeOK
<1>2. /\ campaign' = [campaign EXCEPT ![c] = y] /\ UNCHANGED ended
      /\ chain' = [chain EXCEPT ![c] = [chain[c] EXCEPT ![a] = @ \cup {q}]]
  BY DEF Delegate
<1>0. Register!MaySign(c, a, p)
  <2>1. a \in Generated(c) /\ MayReview(c, a, p)
    BY DEF Delegate
  <2>2. QED
    BY <2>1, SignerMay
<1>3. /\ Listed(y.items) = Listed(campaign[c].items)
      /\ VerdictsIn(y) = VerdictsIn(campaign[c])
      /\ PhaseIn(y) = IF \A b \in Listed(campaign[c].items) : VerdictsIn(campaign[c])[b] # "none"
                      THEN "closed" ELSE PhaseIn(campaign[c])
  BY <1>1, DelegationShows
<1> HIDE DEF y
<1>4. /\ Phases' = [Phases EXCEPT ![c] = PhaseIn(y)]
      /\ Phases[c] = PhaseIn(campaign[c]) /\ Lists[c] = Listed(campaign[c].items)
      /\ VerdictTable[c] = VerdictsIn(campaign[c])
  BY <1>1, <1>2, OneReviewMoves
<1>5. Lists' = Lists /\ VerdictTable' = VerdictTable
  BY <1>1, <1>2, <1>3, SameReview
<1>6. Phases' = [Phases EXCEPT ![c] =
                    IF \A b \in Lists[c] : VerdictTable'[c][b] # "none" THEN "closed" ELSE @]
  BY <1>3, <1>4, <1>5
<1>7. QED
  BY <1>0, <1>2, <1>5, <1>6
     DEF Register!Delegate, Register!CloseIfDone, Phases, Lists, VerdictTable

(* Handlers that set a status.                                             *)
LEMMA StatusShows ==
    ASSUME TypeOK, NEW c \in Campaigns, NEW status,
           campaign' = [campaign EXCEPT ![c] = [@ EXCEPT !.status = status]]
    PROVE  /\ Lists' = Lists /\ VerdictTable' = VerdictTable
           /\ Phases' = [Phases EXCEPT ![c] = IF status = "active" THEN "open" ELSE Phases'[c]]
           /\ status = "draft" => Phases'[c] = "draft"
<1> DEFINE y == WithStatus(campaign[c], status)
<1>1. campaign[c] \in CampaignType /\ campaign' = [campaign EXCEPT ![c] = y]
  BY DEF TypeOK, WithStatus
<1>2. y.items = campaign[c].items /\ y.status = status
  BY <1>1 DEF WithStatus, CampaignType
<1> HIDE DEF y
<1>3. Lists' = Lists /\ VerdictTable' = VerdictTable
  BY <1>1, <1>2, SameReview DEF VerdictsIn
<1>4. Phases' = [Phases EXCEPT ![c] = PhaseIn(y)]
  BY <1>1, OneReviewMoves
<1>5. Phases'[c] = PhaseIn(y)
  BY <1>4 DEF Phases
<1>6. QED
  BY <1>2, <1>3, <1>4, <1>5 DEF PhaseIn

LEMMA CreateCreates ==
    ASSUME IInv, NEW c \in Campaigns, CreateCampaign(c)
    PROVE  Register!Create(c)
<1>1. TypeOK /\ campaign[c].status = "absent"
  BY DEF IInv, CreateCampaign
<1>2. Lists' = Lists /\ VerdictTable' = VerdictTable /\ Phases' = [Phases EXCEPT ![c] = "draft"]
  <2>1. campaign' = [campaign EXCEPT ![c] = [@ EXCEPT !.status = "draft"]]
    BY DEF CreateCampaign
  <2>2. QED
    BY <1>1, <2>1, StatusShows
<1>3. chain' = chain /\ DueSet' \in {DueSet \cup {c}, DueSet \ {c}}
  <2>1. PICK past \in BOOLEAN : ended' = [ended EXCEPT ![c] = past]
    BY DEF CreateCampaign
  <2>2. CASE past = TRUE
    <3>1. DueSet' = DueSet \cup {c}
      BY <1>1, <2>1, <2>2 DEF DueSet, TypeOK
    <3>2. QED
      BY <3>1 DEF CreateCampaign
  <2>3. CASE past = FALSE
    <3>1. DueSet' = DueSet \ {c}
      BY <1>1, <2>1, <2>3 DEF DueSet, TypeOK
    <3>2. QED
      BY <3>1 DEF CreateCampaign
  <2>4. QED
    BY <2>1, <2>2, <2>3
<1>4. Phases[c] = "absent"
  BY <1>1 DEF Phases, PhaseIn
<1>5. QED
  BY <1>2, <1>3, <1>4 DEF Register!Create, Phases, Lists, VerdictTable, DueSet

LEMMA StartOpens ==
    ASSUME IInv, NEW c \in Campaigns, StartCampaign(c)
    PROVE  Register!Open(c)
<1>1. TypeOK /\ Lists[c] # {} /\ UNCHANGED <<chain, ended>>
  BY DEF IInv, StartCampaign, Lists
<1>2. Lists' = Lists /\ VerdictTable' = VerdictTable /\ Phases' = [Phases EXCEPT ![c] = "open"]
  <2>1. campaign' = [campaign EXCEPT ![c] = [@ EXCEPT !.status = "active"]]
    BY DEF StartCampaign
  <2>2. QED
    BY <1>1, <2>1, StatusShows
<1>3. QED
  BY <1>1, <1>2 DEF Register!Open, Phases, Lists, VerdictTable

LEMMA GenerateLists ==
    ASSUME IInv, NEW c \in Campaigns, GenerateItems(c)
    PROVE  \E found \in SUBSET Access : Register!List(c, found)
<1>1. TypeOK /\ campaign[c] \in CampaignType /\ campaign[c].status = "draft"
  BY DEF IInv, TypeOK, GenerateItems, MayGenerate
<1>2. PICK found \in SUBSET Access :
        campaign' = [campaign EXCEPT ![c] = [campaign[c] EXCEPT !.items = Fresh(found)]]
  BY DEF GenerateItems
<1> DEFINE y == [campaign[c] EXCEPT !.items = Fresh(found)]
<1>3. /\ Listed(y.items) = found /\ PhaseIn(y) = PhaseIn(campaign[c])
      /\ VerdictsIn(y) = [a \in Access |-> "none"]
  BY <1>1, FreshShows
<1>4. campaign' = [campaign EXCEPT ![c] = y]
  BY <1>2
<1> HIDE DEF y
<1>5. /\ Phases' = [Phases EXCEPT ![c] = PhaseIn(y)]
      /\ Lists' = [Lists EXCEPT ![c] = Listed(y.items)]
      /\ VerdictTable' = [VerdictTable EXCEPT ![c] = VerdictsIn(y)]
      /\ Phases[c] = PhaseIn(campaign[c])
  BY <1>1, <1>4, OneReviewMoves
<1>6. Phases' = Phases /\ Phases[c] = "draft"
  BY <1>1, <1>3, <1>5 DEF Phases, PhaseIn
<1>7. chain' = [chain EXCEPT ![c] = [a \in Access |-> {}]] /\ ended' = ended
  BY DEF GenerateItems
<1>8. Register!List(c, found)
  BY <1>3, <1>5, <1>6, <1>7 DEF Register!List, Phases, Lists, VerdictTable
<1>9. QED
  BY <1>8

LEMMA EndDateRegistered ==
    ASSUME IInv, NEW c \in Campaigns, EndDatePasses(c)
    PROVE  Register!EndDatePasses(c)
<1>1. TypeOK /\ ended' = [ended EXCEPT ![c] = TRUE] /\ UNCHANGED <<campaign, chain>>
  BY DEF IInv, EndDatePasses
<1>2. DueSet' = DueSet \cup {c}
  BY <1>1 DEF TypeOK, DueSet
<1>3. Phases' = Phases /\ Lists' = Lists /\ VerdictTable' = VerdictTable
  BY <1>1 DEF Phases, Lists, VerdictTable, Generated
<1>4. QED
  BY <1>1, <1>2, <1>3 DEF Register!EndDatePasses, Phases, Lists, VerdictTable, DueSet

(* A pass over the expired campaigns revokes, or means nothing here.       *)
LEMMA ExpiryRevokes ==
    ASSUME IInv, ProcessExpired
    PROVE  \/ \E campaigns \in SUBSET Campaigns : Register!RevokePending(campaigns)
           \/ UNCHANGED Register!registerVars
<1> DEFINE S == {c \in Campaigns : Expired(c)}
<1>1. /\ \A c \in Campaigns : campaign[c] \in CampaignType
      /\ autoRevoke \in BOOLEAN /\ UNCHANGED <<ended, chain>>
  BY DEF IInv, TypeOK, ProcessExpired
<1>2. \A c \in Campaigns :
        campaign'[c] = IF ~ Expired(c) THEN campaign[c]
                       ELSE IF autoRevoke THEN AutoRevoke(campaign[c]) ELSE MarkOverdue(campaign[c])
  BY DEF ProcessExpired
<1>3. \A c \in S : campaign[c].status = "active" /\ ended[c] /\ Phases[c] = "open"
  BY DEF Expired, Phases, PhaseIn
<1>4. /\ Phases' = [c \in Campaigns |-> PhaseIn(campaign'[c])]
      /\ Lists' = [c \in Campaigns |-> Listed(campaign'[c].items)]
      /\ VerdictTable' = [c \in Campaigns |-> VerdictsIn(campaign'[c])]
  BY DEF Phases, Lists, VerdictTable, Generated
<1>5. \A c \in Campaigns : Listed(campaign'[c].items) = Lists[c]
  BY <1>1, <1>2, DeadlineShows DEF Lists, Generated
<1>6. Lists' = Lists
  BY <1>4, <1>5 DEF Lists
<1>7. CASE autoRevoke
  <2>1. \A c \in Campaigns : PhaseIn(campaign'[c]) = IF c \in S THEN "closed" ELSE Phases[c]
    BY <1>1, <1>2, <1>7, DeadlineShows DEF Phases
  <2>2. Phases' = [c \in Campaigns |-> IF c \in S THEN "closed" ELSE Phases[c]]
    BY <1>4, <2>1
  <2>3. ASSUME NEW c \in Campaigns
        PROVE  VerdictsIn(campaign'[c]) = [a \in Access |->
                  IF c \in S /\ a \in Lists[c] /\ VerdictTable[c][a] = "none"
                  THEN "revoke" ELSE VerdictTable[c][a]]
    <3>1. VerdictTable[c] = VerdictsIn(campaign[c]) /\ Lists[c] = Listed(campaign[c].items)
      BY DEF VerdictTable, Lists, Generated
    <3>2. CASE c \in S
      <4>1. campaign'[c] = AutoRevoke(campaign[c])
        BY <1>2, <1>7, <3>2
      <4>2. QED
        BY <1>1, <3>1, <3>2, <4>1, DeadlineShows
    <3>3. CASE c \notin S
      <4>1. campaign'[c] = campaign[c]
        BY <1>2, <3>3
      <4>2. VerdictsIn(campaign[c]) = [a \in Access |-> VerdictsIn(campaign[c])[a]]
        BY DEF VerdictsIn
      <4>3. QED
        BY <3>1, <3>3, <4>1, <4>2
    <3>4. QED
      BY <3>2, <3>3
  <2>4. VerdictTable' = [c \in Campaigns |-> [a \in Access |->
            IF c \in S /\ a \in Lists[c] /\ VerdictTable[c][a] = "none"
            THEN "revoke" ELSE VerdictTable[c][a]]]
    BY <1>4, <2>3
  <2>5. S \in SUBSET Campaigns
    OBVIOUS
  <2> HIDE DEF S
  <2>6. Register!RevokePending(S)
    BY <1>1, <1>3, <1>6, <2>2, <2>4, <2>5
       DEF Register!RevokePending, Phases, Lists, VerdictTable
  <2>7. QED
    BY <2>5, <2>6
<1>8. CASE ~ autoRevoke
  <2>1. \A c \in Campaigns :
          /\ PhaseIn(campaign'[c]) = Phases[c]
          /\ VerdictsIn(campaign'[c]) = VerdictTable[c]
    <3> SUFFICES ASSUME NEW c \in Campaigns
                 PROVE  /\ PhaseIn(campaign'[c]) = PhaseIn(campaign[c])
                        /\ VerdictsIn(campaign'[c]) = VerdictsIn(campaign[c])
      BY DEF Phases, VerdictTable
    <3>1. CASE Expired(c)
      BY <1>1, <1>2, <1>8, <3>1, DeadlineShows DEF Expired
    <3>2. CASE ~ Expired(c)
      BY <1>2, <3>2
    <3>3. QED
      BY <3>1, <3>2
  <2>2. Phases' = Phases /\ VerdictTable' = VerdictTable
    BY <1>4, <2>1 DEF Phases, VerdictTable
  <2>3. QED
    BY <1>1, <1>6, <2>2 DEF Register!registerVars, Phases, Lists, VerdictTable
<1>9. QED
  BY <1>1, <1>7, <1>8

LEMMA RegisterInit == Init => Register!Init
<1> SUFFICES ASSUME Init PROVE Register!Init
  OBVIOUS
<1>1. \A c \in Campaigns : campaign[c] = NoCampaign /\ ended[c] = FALSE
  BY DEF Init
<1>2. PhaseIn(NoCampaign) = "absent"
  BY DEF NoCampaign, PhaseIn
<1>3. Listed(NoCampaign.items) = {} /\ VerdictsIn(NoCampaign) = [a \in Access |-> "none"]
  BY DEF NoCampaign, Item, Listed, VerdictsIn
<1>4. \A c \in Campaigns : Generated(c) = {}
  BY <1>1, <1>3 DEF Generated
<1>5. chain = [c \in Campaigns |-> [a \in Access |-> {}]]
  BY DEF Init
<1>6. {c \in Campaigns : ended[c]} = {}
  BY <1>1
<1>7. QED
  BY <1>1, <1>2, <1>3, <1>4, <1>5, <1>6 DEF Register!Init

LEMMA RegisterNext == IInv /\ [Next]_vars => [Register!Next]_(Register!registerVars)
<1> SUFFICES ASSUME IInv, [Next]_vars
             PROVE  Register!Next \/ UNCHANGED Register!registerVars
  OBVIOUS
<1>1. ASSUME NEW c \in Campaigns,
             CreateCampaign(c) \/ StartCampaign(c) \/ EndDatePasses(c)
      PROVE  Register!Next
  BY <1>1, CreateCreates, StartOpens, EndDateRegistered DEF Register!Next
<1>2. ASSUME NEW c \in Campaigns, GenerateItems(c)
      PROVE  Register!Next
  BY <1>2, GenerateLists DEF Register!Next
<1>3. ASSUME NEW c \in Campaigns, NEW a \in Access, NEW p \in Persons, NEW v \in Verdicts,
             Decide(c, a, p, v)
      PROVE  Register!Next
  BY <1>3, DecideSigns DEF Register!Next
<1>4. ASSUME NEW c \in Campaigns, NEW a \in Access, NEW p \in Persons, NEW q \in Persons,
             Delegate(c, a, p, q)
      PROVE  Register!Next
  BY <1>4, DelegateDelegates DEF Register!Next
<1>5. ASSUME ProcessExpired
      PROVE  Register!Next \/ UNCHANGED Register!registerVars
  BY <1>5, ExpiryRevokes DEF Register!Next
<1>6. CASE UNCHANGED vars
  BY <1>6 DEF vars, Register!registerVars, Generated
<1>7. CASE Next
  BY <1>1, <1>2, <1>3, <1>4, <1>5, <1>7 DEF Next
<1>8. QED
  BY <1>6, <1>7

(* For any campaigns, entitlements, persons and verdicts the manager       *)
(* implements ReviewRegister: every decision is signed by the reviewer or  *)
(* a delegate, none is lost once the draft is left, and a campaign closes  *)
(* when its last one is taken (manager.py:136, 159, 316, 376-418, 495-526).*)
THEOREM ManagerImplementsRegister == Spec => ImplementsRegister
BY RegisterInit, RegisterNext, InvAlways, PTL DEF Spec, ImplementsRegister, Register!Spec

=============================================================================
