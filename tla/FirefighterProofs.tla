------------------------- MODULE FirefighterProofs -------------------------
(***************************************************************************)
(* Proofs about Firefighter, for every set of requests and accounts, every  *)
(* duration and every limit on extensions.                                  *)
(***************************************************************************)
EXTENDS Firefighter, TLAPS

\* The end of a session keeps the tables of accounts typed.
LEMMA CloseType ==
    ASSUME TypeOK, NEW r \in Requests, NEW final \in SessionStatus, Close(r, final)
    PROVE  /\ session' \in [Requests -> SessionStatus]
           /\ activeOf' \in [Accounts -> Requests \cup {NoSession}]
           /\ locked' \in [Accounts -> BOOLEAN]
           /\ trouble' \subseteq Accounts
<1>1. AccountOf[r] \in Accounts
  BY FirefighterAssumption
<1>2. HasConnector \in BOOLEAN
  BY FirefighterAssumption
<1>3. Released(AccountOf[r]) \in [Accounts -> Requests \cup {NoSession}]
  BY <1>1 DEF Released, TypeOK
<1>4. [locked EXCEPT ![AccountOf[r]] = @ \/ HasConnector] \in [Accounts -> BOOLEAN]
  BY <1>1, <1>2 DEF TypeOK
<1>5. session' \in [Requests -> SessionStatus]
  BY DEF Close, TypeOK
<1>6. activeOf' \in [Accounts -> Requests \cup {NoSession}]
  BY <1>3 DEF Close, TypeOK
<1>7. locked' \in [Accounts -> BOOLEAN]
  BY <1>4 DEF Close, TypeOK
<1>8. trouble' \subseteq Accounts
  BY <1>1 DEF Close, TypeOK
<1>9. QED
  BY <1>5, <1>6, <1>7, <1>8

\* Initially every table has its type.
LEMMA TypeInit == Init => TypeOK
BY FirefighterAssumption DEF Init, TypeOK, RequestStatus, SessionStatus

\* Approving, whatever the connector does, keeps every table typed.
LEMMA ApproveType ==
    ASSUME TypeOK, NEW r \in Requests,
           Approve(r) \/ ApproveNotUnlocked(r) \/ ApproveNoPassword(r)
    PROVE  TypeOK'
<1>1. AccountOf[r] \in Accounts /\ HasConnector \in BOOLEAN
  BY FirefighterAssumption
<1>2. CASE Approve(r)
  <2>1. locked' \in [Accounts -> BOOLEAN]
    BY <1>1, <1>2 DEF Approve, TypeOK
  <2>2. Duration[r] \in Int
    BY FirefighterAssumption
  <2>3. QED
    BY <1>1, <1>2, <2>1, <2>2 DEF Approve, StartSession, TypeOK, RequestStatus, SessionStatus
<1>3. CASE ApproveNotUnlocked(r)
  BY <1>3 DEF ApproveNotUnlocked, sessionVars, accountVars, TypeOK, RequestStatus
<1>4. CASE ApproveNoPassword(r)
  <2>1. locked' \in [Accounts -> BOOLEAN]
    BY <1>1, <1>4 DEF ApproveNoPassword, RolledBack, TypeOK
  <2>2. trouble' \subseteq Accounts
    BY <1>1, <1>4 DEF ApproveNoPassword, TypeOK
  <2>3. QED
    BY <1>4, <2>1, <2>2 DEF ApproveNoPassword, sessionVars, TypeOK, RequestStatus
<1>5. QED
  BY <1>2, <1>3, <1>4

\* A timer that wakes up keeps every table typed.
LEMMA TimerFiresType ==
    ASSUME TypeOK, NEW r \in Requests, TimerFires(r)
    PROVE  TypeOK'
<1>1. timers' \in [Requests -> SUBSET Nat]
  BY DEF TimerFires, TypeOK
<1>2. CASE Terminates(r)
  <2>1. Close(r, "expired")
    BY <1>2 DEF TimerFires
  <2>2. QED
    BY <1>1, <2>1, CloseType DEF TimerFires, TypeOK, SessionStatus
<1>3. CASE ~ Terminates(r)
  BY <1>1, <1>3 DEF TimerFires, accountVars, TypeOK
<1>4. QED
  BY <1>2, <1>3

\* Every step keeps every table typed.
LEMMA TypeNext == TypeOK /\ [Next]_vars => TypeOK'
<1> SUFFICES ASSUME TypeOK, [Next]_vars PROVE TypeOK'
  OBVIOUS
<1>1. ASSUME NEW r \in Requests, Submit(r) \/ Reject(r) PROVE TypeOK'
  BY <1>1 DEF Submit, Reject, sessionVars, accountVars, TypeOK, RequestStatus
<1>2. ASSUME NEW r \in Requests, Approve(r) \/ ApproveNotUnlocked(r) \/ ApproveNoPassword(r)
      PROVE TypeOK'
  BY <1>2, ApproveType
<1>3. ASSUME NEW r \in Requests, End(r) \/ Revoke(r) PROVE TypeOK'
  <2>1. \E final \in SessionStatus : Close(r, final)
    BY <1>3 DEF End, Revoke, SessionStatus
  <2>2. QED
    BY <1>3, <2>1, CloseType DEF End, Revoke, TypeOK
<1>4. ASSUME NEW r \in Requests, Review(r) PROVE TypeOK'
  BY <1>4 DEF Review, accountVars, TypeOK
<1>5. ASSUME NEW r \in Requests, TimerStarts(r) PROVE TypeOK'
  <2>1. timers' \in [Requests -> SUBSET Nat]
    BY <1>5 DEF TimerStarts, TypeOK
  <2>2. starting' \in [Requests -> Nat]
    BY <1>5 DEF TimerStarts, TypeOK
  <2>3. QED
    BY <1>5, <2>1, <2>2 DEF TimerStarts, accountVars, TypeOK
<1>6. ASSUME NEW r \in Requests, TimerFires(r) PROVE TypeOK'
  BY <1>6, TimerFiresType
<1>7. ASSUME NEW r \in Requests, NEW more \in Extensions, Extend(r, more) PROVE TypeOK'
  <2>1. more \in Nat /\ MaxExtensions \in Nat
    BY FirefighterAssumption
  <2>2. extensions' \in [Requests -> 0..MaxExtensions]
    BY <1>7, <2>1 DEF Extend, CanExtend, TypeOK
  <2>3. QED
    BY <1>7, <2>1, <2>2 DEF Extend, accountVars, TypeOK
<1>8. ASSUME Tick PROVE TypeOK'
  <2>1. left' \in [Requests -> Int]
    BY <1>8 DEF Tick, TypeOK
  <2>2. \A r \in Requests : {t - 1 : t \in timers[r]} \subseteq Nat
    BY <1>8 DEF Tick, TypeOK
  <2>3. timers' \in [Requests -> SUBSET Nat]
    BY <1>8, <2>2 DEF Tick
  <2>4. QED
    BY <1>8, <2>1, <2>3 DEF Tick, accountVars, TypeOK
<1>9. CASE UNCHANGED vars
  BY <1>9 DEF vars, sessionVars, accountVars, TypeOK
<1>10. QED
  BY <1>1, <1>2, <1>3, <1>4, <1>5, <1>6, <1>7, <1>8, <1>9 DEF Next

\* TypeOK holds in every reachable state: no table is ever corrupted and no
\* session is extended beyond its limit.
THEOREM TypeCorrect == Spec => []TypeOK
BY TypeInit, TypeNext, PTL DEF Spec

-----------------------------------------------------------------------------
\* What TimerInv says of one session.
Guarded(r) ==
    session[r] = "active" =>
        /\ left[r] >= 0
        /\ \/ starting[r] > 0 /\ left[r] > 0
           \/ \E t \in timers[r] : t <= left[r]

\* Nothing a timer depends on changes for session q.
SameTimes(q) ==
    /\ session'[q] = session[q] /\ left'[q] = left[q]
    /\ starting'[q] = starting[q] /\ timers'[q] = timers[q]

\* The end of a session touches the status of that session only.
LEMMA CloseSession ==
    ASSUME TypeOK, NEW r \in Requests, NEW final, Close(r, final)
    PROVE  /\ session'[r] = final
           /\ \A q \in Requests : q # r => session'[q] = session[q]
BY DEF Close, TypeOK

\* A timer that starts either sleeps until the end time, or the session was
\* guarded by another timer already.
LEMMA TimerStartsGuarded ==
    ASSUME TypeOK, NEW r \in Requests, Guarded(r), TimerStarts(r)
    PROVE  Guarded(r)'
<1>1. session'[r] = session[r] /\ left'[r] = left[r]
  BY DEF TimerStarts
<1>2. SUFFICES ASSUME session[r] = "active"
               PROVE  left[r] >= 0 /\ \E t \in timers'[r] : t <= left[r]
  BY <1>1 DEF Guarded
<1>3. CASE left[r] > 0
  <2>1. timers'[r] = timers[r] \cup {left[r]}
    BY <1>3 DEF TimerStarts, TypeOK
  <2>2. left[r] \in Int
    BY DEF TypeOK
  <2>3. QED
    BY <1>3, <2>1, <2>2
<1>4. CASE ~ left[r] > 0
  <2>1. timers'[r] = timers[r]
    BY <1>4 DEF TimerStarts, TypeOK
  <2>2. QED
    BY <1>2, <1>4, <2>1 DEF Guarded
<1>5. QED
  BY <1>3, <1>4

\* When the clock ticks nothing is due, so every timer of an active session
\* has time left, and so has the session.
LEMMA TickGuarded ==
    ASSUME TypeOK, NEW r \in Requests, Guarded(r), Tick
    PROVE  Guarded(r)'
<1>1. SUFFICES ASSUME session[r] = "active"
               PROVE  left'[r] >= 0 /\ \E t \in timers'[r] : t <= left'[r]
  BY DEF Guarded, Tick
<1>2. left'[r] = left[r] - 1 /\ left[r] \in Int
  BY <1>1 DEF Tick, TypeOK
<1>3. PICK t \in timers[r] : t <= left[r]
  BY <1>1 DEF Guarded, Tick, TypeOK
<1>4. t \in Nat /\ t # 0
  BY <1>3 DEF Tick, TypeOK
<1>5. t - 1 \in timers'[r]
  BY <1>3 DEF Tick
<1>6. QED
  BY <1>2, <1>3, <1>4, <1>5

\* Every step keeps every active session guarded by a timer.
LEMMA GuardedNext ==
    ASSUME TypeOK, NEW q \in Requests, Guarded(q), [Next]_vars
    PROVE  Guarded(q)'
<1>1. ASSUME SameTimes(q) PROVE Guarded(q)'
  BY <1>1 DEF SameTimes, Guarded
<1>2. ASSUME session'[q] # "active" PROVE Guarded(q)'
  BY <1>2 DEF Guarded
<1>3. ASSUME NEW r \in Requests,
             Submit(r) \/ Reject(r) \/ Review(r) \/ ApproveNotUnlocked(r) \/ ApproveNoPassword(r)
      PROVE  Guarded(q)'
  BY <1>1, <1>3 DEF Submit, Reject, Review, ApproveNotUnlocked, ApproveNoPassword,
                    SameTimes, sessionVars
<1>4. ASSUME NEW r \in Requests, Approve(r) PROVE Guarded(q)'
  <2>1. CASE q = r
    <3>1. Duration[r] \in Nat \ {0}
      BY FirefighterAssumption
    <3>2. left'[r] = Duration[r] /\ starting'[r] = starting[r] + 1 /\ starting[r] \in Nat
      BY <1>4 DEF Approve, StartSession, TypeOK
    <3>3. QED
      BY <2>1, <3>1, <3>2 DEF Guarded
  <2>2. CASE q # r
    BY <1>1, <1>4, <2>2 DEF Approve, StartSession, SameTimes, TypeOK
  <2>3. QED
    BY <2>1, <2>2
<1>5. ASSUME NEW r \in Requests, End(r) \/ Revoke(r) PROVE Guarded(q)'
  <2>1. PICK final \in {"completed", "revoked"} : Close(r, final)
    BY <1>5 DEF End, Revoke
  <2>2. CASE q = r
    BY <1>2, <2>1, <2>2, CloseSession
  <2>3. CASE q # r
    BY <1>1, <1>5, <2>1, <2>3, CloseSession DEF End, Revoke, SameTimes
  <2>4. QED
    BY <2>2, <2>3
<1>6. ASSUME NEW r \in Requests, NEW more \in Extensions, Extend(r, more) PROVE Guarded(q)'
  <2>1. CASE q = r
    <3>1. more \in Nat /\ left[r] \in Int /\ starting[r] \in Nat /\ left[r] > 0
      BY <1>6, FirefighterAssumption DEF TypeOK, Extend, IsActive
    <3>2. left'[r] = left[r] + more /\ starting'[r] = starting[r] + 1
      BY <1>6 DEF Extend, TypeOK
    <3>3. QED
      BY <2>1, <3>1, <3>2 DEF Guarded
  <2>2. CASE q # r
    BY <1>1, <1>6, <2>2 DEF Extend, SameTimes, TypeOK
  <2>3. QED
    BY <2>1, <2>2
<1>7. ASSUME NEW r \in Requests, TimerStarts(r) PROVE Guarded(q)'
  <2>1. CASE q = r
    BY <1>7, <2>1, TimerStartsGuarded
  <2>2. CASE q # r
    BY <1>1, <1>7, <2>2 DEF TimerStarts, SameTimes, TypeOK
  <2>3. QED
    BY <2>1, <2>2
<1>8. ASSUME NEW r \in Requests, TimerFires(r) PROVE Guarded(q)'
  <2>1. CASE Terminates(r)
    <3>1. Close(r, "expired")
      BY <1>8, <2>1 DEF TimerFires
    <3>2. CASE q = r
      BY <1>2, <3>1, <3>2, CloseSession
    <3>3. CASE q # r
      BY <1>1, <1>8, <3>1, <3>3, CloseSession DEF TimerFires, SameTimes, TypeOK
    <3>4. QED
      BY <3>2, <3>3
  <2>2. CASE ~ Terminates(r)
    <3>1. session' = session
      BY <1>8, <2>2 DEF TimerFires
    <3>2. CASE q = r
      BY <1>2, <2>2, <3>1, <3>2 DEF Terminates
    <3>3. CASE q # r
      BY <1>1, <1>8, <3>1, <3>3 DEF TimerFires, SameTimes, TypeOK
    <3>4. QED
      BY <3>2, <3>3
  <2>3. QED
    BY <2>1, <2>2
<1>9. ASSUME Tick PROVE Guarded(q)'
  BY <1>9, TickGuarded
<1>10. CASE UNCHANGED vars
  BY <1>1, <1>10 DEF vars, sessionVars, SameTimes
<1>11. QED
  BY <1>3, <1>4, <1>5, <1>6, <1>7, <1>8, <1>9, <1>10 DEF Next

\* An active session always has a task or a timer that ends it in time.
LEMMA TimersCover == Spec => []TimerInv
<1>1. Init => TimerInv
  BY DEF Init, TimerInv
<1>2. TypeOK /\ TimerInv /\ [Next]_vars => TimerInv'
  BY GuardedNext DEF TimerInv, Guarded
<1>3. QED
  BY <1>1, <1>2, TypeCorrect, PTL DEF Spec

\* No session is active after its end time: every active session has a task
\* that has yet to read its end time, or a timer that wakes up no later.
THEOREM SessionsEndInTime == Spec => []NoOverrun
<1>1. TimerInv => NoOverrun
  BY DEF TimerInv, NoOverrun
<1>2. QED
  BY <1>1, TimersCover, PTL

-----------------------------------------------------------------------------
\* The part of the state that tells what an account is used for.
usage == <<session, activeOf, locked, trouble>>

\* Every step leaves the accounts alone, makes a session of a request under
\* approval, closes one, or fails to approve.
LEMMA UsageSteps ==
    ASSUME [Next]_vars
    PROVE  \/ UNCHANGED usage
           \/ \E r \in Requests : Approve(r) \/ ApproveNoPassword(r)
           \/ \E r \in Requests, final \in SessionStatus \ {"active"} : Close(r, final)
<1>1. ASSUME NEW r \in Requests, Submit(r) \/ Reject(r) \/ Review(r) \/ TimerStarts(r)
      PROVE  UNCHANGED usage
  BY <1>1 DEF Submit, Reject, Review, TimerStarts, sessionVars, accountVars, usage
<1>2. ASSUME NEW r \in Requests, ApproveNotUnlocked(r) PROVE UNCHANGED usage
  BY <1>2 DEF ApproveNotUnlocked, sessionVars, accountVars, usage
<1>3. ASSUME NEW r \in Requests, NEW more \in Extensions, Extend(r, more)
      PROVE  UNCHANGED usage
  BY <1>3 DEF Extend, accountVars, usage
<1>4. ASSUME NEW r \in Requests, End(r) \/ Revoke(r)
      PROVE  \E final \in SessionStatus \ {"active"} : Close(r, final)
  BY <1>4 DEF End, Revoke, SessionStatus
<1>5. ASSUME NEW r \in Requests, TimerFires(r)
      PROVE  \/ UNCHANGED usage
             \/ \E final \in SessionStatus \ {"active"} : Close(r, final)
  BY <1>5 DEF TimerFires, accountVars, usage, SessionStatus
<1>6. ASSUME Tick PROVE UNCHANGED usage
  BY <1>6 DEF Tick, accountVars, usage
<1>7. CASE UNCHANGED vars
  BY <1>7 DEF vars, sessionVars, accountVars, usage
<1>8. QED
  BY <1>1, <1>2, <1>3, <1>4, <1>5, <1>6, <1>7 DEF Next

\* What closing a session does to the account it used.
LEMMA CloseAccount ==
    ASSUME TypeOK, NEW r \in Requests, NEW final, Close(r, final)
    PROVE  /\ trouble \subseteq trouble'
           /\ AccountOf[r] \notin trouble' =>
                activeOf'[AccountOf[r]] = NoSession /\ (HasConnector => locked'[AccountOf[r]])
           /\ \A f \in Accounts : f # AccountOf[r] =>
                activeOf'[f] = activeOf[f] /\ locked'[f] = locked[f]
<1>1. AccountOf[r] \in Accounts
  BY FirefighterAssumption
<1>2. CASE /\ locked' = [locked EXCEPT ![AccountOf[r]] = @ \/ HasConnector]
           /\ activeOf' = Released(AccountOf[r])
           /\ UNCHANGED trouble
  BY <1>1, <1>2 DEF Released, TypeOK
<1>3. CASE /\ activeOf' \in {activeOf, Released(AccountOf[r])}
           /\ trouble' = trouble \cup {AccountOf[r]}
           /\ UNCHANGED locked
  BY <1>1, <1>3 DEF Released, TypeOK
<1>4. QED
  BY <1>2, <1>3 DEF Close

\* The table of active sessions names active sessions of its accounts only,
\* as long as the connector's calls do not break down.
THEOREM EntriesAreActive == Spec => []NoStaleEntry
<1>1. Init => NoStaleEntry
  BY DEF Init, NoStaleEntry
<1>2. TypeOK /\ NoStaleEntry /\ [Next]_vars => NoStaleEntry'
  <2> SUFFICES ASSUME TypeOK, NoStaleEntry, [Next]_vars,
                      NEW f \in Accounts, f \notin trouble', activeOf'[f] # NoSession
               PROVE  AccountOf[activeOf'[f]] = f /\ session'[activeOf'[f]] = "active"
    BY DEF NoStaleEntry
  <2>1. CASE UNCHANGED usage
    BY <2>1 DEF usage, NoStaleEntry
  <2>2. ASSUME NEW r \in Requests, Approve(r)
        PROVE  AccountOf[activeOf'[f]] = f /\ session'[activeOf'[f]] = "active"
    <3>1. /\ session' = [session EXCEPT ![r] = "active"]
          /\ activeOf' = [activeOf EXCEPT ![AccountOf[r]] = r]
          /\ trouble' = trouble
      BY <2>2 DEF Approve, StartSession
    <3>2. CASE f = AccountOf[r]
      BY <3>1, <3>2 DEF TypeOK
    <3>3. CASE f # AccountOf[r]
      <4>1. activeOf'[f] = activeOf[f] /\ activeOf[f] \in Requests
        BY <3>1, <3>3 DEF TypeOK
      <4>2. AccountOf[activeOf[f]] = f /\ session[activeOf[f]] = "active"
        BY <3>1, <4>1 DEF NoStaleEntry
      <4>3. QED
        BY <3>1, <3>3, <4>1, <4>2 DEF TypeOK
    <3>4. QED
      BY <3>2, <3>3
  <2>3. ASSUME NEW r \in Requests, ApproveNoPassword(r)
        PROVE  AccountOf[activeOf'[f]] = f /\ session'[activeOf'[f]] = "active"
    BY <2>3 DEF ApproveNoPassword, sessionVars, NoStaleEntry
  <2>4. ASSUME NEW r \in Requests, NEW final \in SessionStatus \ {"active"}, Close(r, final)
        PROVE  AccountOf[activeOf'[f]] = f /\ session'[activeOf'[f]] = "active"
    <3>1. f # AccountOf[r] /\ f \notin trouble /\ activeOf'[f] = activeOf[f]
      BY <2>4, CloseAccount
    <3>2. AccountOf[activeOf[f]] = f /\ session[activeOf[f]] = "active"
      BY <3>1 DEF NoStaleEntry
    <3>3. activeOf[f] \in Requests
      BY <3>1 DEF TypeOK
    <3>4. session'[activeOf[f]] = session[activeOf[f]]
      BY <2>4, <3>1, <3>2, <3>3, CloseSession
    <3>5. QED
      BY <3>1, <3>2, <3>4
  <2>5. QED
    BY <2>1, <2>2, <2>3, <2>4, UsageSteps
<1>3. QED
  BY <1>1, <1>2, TypeCorrect, PTL DEF Spec

\* After use an account is locked, whatever order its sessions end in and
\* however approvals fail, as long as no lock or password call breaks down.
THEOREM AccountsAreLockedAfterUse == Spec => []UnusedAccountsAreLocked
<1>1. Init => UnusedAccountsAreLocked
  BY DEF Init, UnusedAccountsAreLocked
<1>2. TypeOK /\ UnusedAccountsAreLocked /\ [Next]_vars => UnusedAccountsAreLocked'
  <2> SUFFICES ASSUME TypeOK, UnusedAccountsAreLocked, [Next]_vars,
                      NEW f \in Accounts, f \notin trouble', HasConnector, ~ locked'[f],
                      NEW q \in Requests, AccountOf[q] = f, session'[q] # "none"
               PROVE  \E r \in Requests : AccountOf[r] = f /\ session'[r] = "active"
    BY DEF UnusedAccountsAreLocked
  <2>1. CASE UNCHANGED usage
    BY <2>1 DEF usage, UnusedAccountsAreLocked
  <2>2. ASSUME NEW r \in Requests, Approve(r)
        PROVE  \E s \in Requests : AccountOf[s] = f /\ session'[s] = "active"
    <3>1. /\ session' = [session EXCEPT ![r] = "active"]
          /\ locked' = [locked EXCEPT ![AccountOf[r]] = @ /\ ~ HasConnector]
          /\ trouble' = trouble
      BY <2>2 DEF Approve, StartSession
    <3>2. CASE f = AccountOf[r]
      BY <3>1, <3>2 DEF TypeOK
    <3>3. CASE f # AccountOf[r]
      <4>1. ~ locked[f] /\ session[q] # "none"
        BY <3>1, <3>3 DEF TypeOK
      <4>2. PICK s \in Requests : AccountOf[s] = f /\ session[s] = "active"
        BY <3>1, <4>1 DEF UnusedAccountsAreLocked
      <4>3. QED
        BY <3>1, <3>3, <4>2 DEF TypeOK
    <3>4. QED
      BY <3>2, <3>3
  <2>3. ASSUME NEW r \in Requests, ApproveNoPassword(r)
        PROVE  \E s \in Requests : AccountOf[s] = f /\ session'[s] = "active"
    <3>1. session' = session /\ trouble \subseteq trouble' /\ AccountOf[r] \in Accounts
      BY <2>3, FirefighterAssumption DEF ApproveNoPassword, sessionVars
    <3>2. f # AccountOf[r] /\ locked'[f] = locked[f]
      BY <2>3, <3>1 DEF ApproveNoPassword, RolledBack, TypeOK
    <3>3. QED
      BY <3>1, <3>2 DEF UnusedAccountsAreLocked
  <2>4. ASSUME NEW r \in Requests, NEW final \in SessionStatus \ {"active"}, Close(r, final)
        PROVE  \E s \in Requests : AccountOf[s] = f /\ session'[s] = "active"
    <3>1. f # AccountOf[r] /\ f \notin trouble /\ ~ locked[f]
      BY <2>4, CloseAccount
    <3>2. session[q] # "none"
      BY <2>4, <3>1, CloseSession
    <3>3. PICK s \in Requests : AccountOf[s] = f /\ session[s] = "active"
      BY <3>1, <3>2 DEF UnusedAccountsAreLocked
    <3>4. QED
      BY <2>4, <3>1, <3>3, CloseSession
  <2>5. QED
    BY <2>1, <2>2, <2>3, <2>4, UsageSteps
<1>3. QED
  BY <1>1, <1>2, TypeCorrect, PTL DEF Spec

-----------------------------------------------------------------------------
\* The decisions and sessions of one request: nothing is made before the
\* approval, one session at most by it, and a review comes after the session.
Decided(r) ==
    /\ made[r] <= 1
    /\ request[r] # "approved" => made[r] = 0
    /\ made[r] = 0 => session[r] = "none"
    /\ session[r] = "none" => made[r] = 0
    /\ reviewed[r] => session[r] \in {"completed", "expired", "revoked"}

\* Nothing Decided speaks of changes for request q.
SameDecision(q) ==
    /\ made'[q] = made[q] /\ request'[q] = request[q]
    /\ session'[q] = session[q] /\ reviewed'[q] = reviewed[q]

\* Closing a session, for whatever reason, keeps what Decided says of it.
LEMMA CloseDecided ==
    ASSUME TypeOK, NEW q \in Requests, Decided(q), NEW r \in Requests,
           NEW final \in {"completed", "expired", "revoked"}, Close(r, final),
           session[r] # "none", UNCHANGED <<request, made, reviewed>>
    PROVE  Decided(q)'
<1>1. CASE q = r
  BY <1>1, CloseSession DEF Decided
<1>2. CASE q # r
  BY <1>2, CloseSession DEF Decided
<1>3. QED
  BY <1>1, <1>2

\* Every step keeps what Decided says of a request.
LEMMA DecidedNext ==
    ASSUME TypeOK, NEW q \in Requests, Decided(q), [Next]_vars
    PROVE  Decided(q)'
<1>1. ASSUME SameDecision(q) PROVE Decided(q)'
  BY <1>1 DEF SameDecision, Decided
<1>2. ASSUME NEW r \in Requests, Submit(r) \/ Reject(r) PROVE Decided(q)'
  <2>1. UNCHANGED sessionVars
    BY <1>2 DEF Submit, Reject
  <2>2. request[r] # "approved"
    BY <1>2 DEF Submit, Reject, Undecided
  <2>3. made' = made /\ session' = session /\ reviewed' = reviewed
    BY <2>1 DEF sessionVars
  <2>4. request[q] = "approved" => request'[q] = "approved"
    BY <1>2, <2>2 DEF Submit, Reject, TypeOK
  <2>5. QED
    BY <2>3, <2>4 DEF Decided
<1>3. ASSUME NEW r \in Requests, Approve(r) PROVE Decided(q)'
  <2>1. request[r] = "pending_approval"
    BY <1>3 DEF Approve, Undecided
  <2>2. /\ request' = [request EXCEPT ![r] = "approved"]
        /\ made' = [made EXCEPT ![r] = @ + 1]
        /\ session' = [session EXCEPT ![r] = "active"]
        /\ reviewed' = reviewed
    BY <1>3 DEF Approve, StartSession
  <2>3. CASE q = r
    <3>1. made[q] = 0 /\ session[q] = "none" /\ ~ reviewed[q]
      BY <2>1, <2>3 DEF Decided, TypeOK
    <3>2. made'[q] = 1 /\ session'[q] = "active" /\ request'[q] = "approved"
      BY <2>2, <2>3, <3>1 DEF TypeOK
    <3>3. QED
      BY <2>2, <3>1, <3>2 DEF Decided
  <2>4. CASE q # r
    BY <1>1, <2>2, <2>4 DEF SameDecision, TypeOK
  <2>5. QED
    BY <2>3, <2>4
<1>4. ASSUME NEW r \in Requests, ApproveNotUnlocked(r) \/ ApproveNoPassword(r)
      PROVE  Decided(q)'
  <2>1. made' = made /\ session' = session /\ reviewed' = reviewed
    BY <1>4 DEF ApproveNotUnlocked, ApproveNoPassword, sessionVars
  <2>2. request[r] = "pending_approval" /\ request' = [request EXCEPT ![r] = "approved"]
    BY <1>4 DEF ApproveNotUnlocked, ApproveNoPassword, Undecided
  <2>3. request'[q] # "approved" => request[q] # "approved"
    BY <2>2 DEF TypeOK
  <2>4. QED
    BY <2>1, <2>3 DEF Decided
<1>5. ASSUME NEW r \in Requests, End(r) \/ Revoke(r) PROVE Decided(q)'
  <2>1. PICK final \in {"completed", "expired", "revoked"} : Close(r, final)
    BY <1>5 DEF End, Revoke
  <2>2. session[r] # "none" /\ UNCHANGED <<request, made, reviewed>>
    BY <1>5 DEF End, Revoke
  <2>3. QED
    BY <2>1, <2>2, CloseDecided
<1>6. ASSUME NEW r \in Requests, Review(r) PROVE Decided(q)'
  BY <1>6 DEF Review, Reviewable, Decided, TypeOK
<1>7. ASSUME NEW r \in Requests, TimerFires(r) PROVE Decided(q)'
  <2>1. CASE Terminates(r)
    BY <1>7, <2>1, CloseDecided DEF TimerFires, Terminates
  <2>2. CASE ~ Terminates(r)
    BY <1>1, <1>7, <2>2 DEF TimerFires, SameDecision
  <2>3. QED
    BY <2>1, <2>2
<1>8. ASSUME NEW r \in Requests, TimerStarts(r) PROVE Decided(q)'
  BY <1>1, <1>8 DEF TimerStarts, SameDecision
<1>9. ASSUME NEW r \in Requests, NEW more \in Extensions, Extend(r, more)
      PROVE  Decided(q)'
  BY <1>1, <1>9 DEF Extend, SameDecision
<1>10. ASSUME Tick PROVE Decided(q)'
  BY <1>1, <1>10 DEF Tick, SameDecision
<1>11. CASE UNCHANGED vars
  BY <1>1, <1>11 DEF vars, sessionVars, SameDecision
<1>12. QED
  BY <1>2, <1>3, <1>4, <1>5, <1>6, <1>7, <1>8, <1>9, <1>10, <1>11 DEF Next

\* The decision invariant of every request in every reachable state.
THEOREM DecisionInvariant == Spec => [](\A r \in Requests : Decided(r))
<1>1. Init => \A r \in Requests : Decided(r)
  <2> SUFFICES ASSUME Init, NEW r \in Requests PROVE Decided(r)
    OBVIOUS
  <2>1. request[r] = "none" /\ session[r] = "none" /\ made[r] = 0
    BY DEF Init
  <2>2. ~ reviewed[r]
    BY DEF Init
  <2>3. QED
    BY <2>1, <2>2 DEF Decided
<1>2. TypeOK /\ (\A r \in Requests : Decided(r)) /\ [Next]_vars
        => (\A r \in Requests : Decided(r))'
  BY DecidedNext
<1>3. QED
  BY <1>1, <1>2, TypeCorrect, PTL DEF Spec

\* One approval makes at most one session, and only an approval makes one.
THEOREM ApprovalsMakeOneSession == Spec => []OneSessionPerApproval
<1>1. TypeOK /\ (\A r \in Requests : Decided(r)) => OneSessionPerApproval
  <2> SUFFICES ASSUME TypeOK, NEW r \in Requests, Decided(r)
               PROVE  /\ made[r] <= 1
                      /\ session[r] # "none" => made[r] = 1 /\ request[r] = "approved"
    BY DEF OneSessionPerApproval
  <2>1. made[r] \in Nat
    BY DEF TypeOK
  <2>2. QED
    BY <2>1 DEF Decided
<1>2. QED
  BY <1>1, DecisionInvariant, TypeCorrect, PTL

\* A reviewed session is over and stays over.
THEOREM ReviewsAreFinal == Spec => []ReviewedSessionsAreOver
<1>1. (\A r \in Requests : Decided(r)) => ReviewedSessionsAreOver
  BY DEF Decided, ReviewedSessionsAreOver
<1>2. QED
  BY <1>1, DecisionInvariant, PTL

-----------------------------------------------------------------------------
\* The manager implements EmergencyLease.  A step concerns the phase, budget
\* and extensions of one request, or is the clock's.

Phase == [r \in Requests |-> PhaseOf(r)]
Budget == [r \in Requests |-> BudgetOf(r)]

\* Nothing the lease of request q depends on changes.
SameLease(q) ==
    /\ request'[q] = request[q] /\ session'[q] = session[q]
    /\ reviewed'[q] = reviewed[q] /\ left'[q] = left[q]

LEMMA LeaseStays ==
    ASSUME NEW q \in Requests, SameLease(q)
    PROVE  PhaseOf(q)' = PhaseOf(q) /\ BudgetOf(q)' = BudgetOf(q)
BY DEF SameLease, PhaseOf, BudgetOf

LEMMA OneLeaseChanges ==
    ASSUME NEW r \in Requests, \A q \in Requests \ {r} : SameLease(q)
    PROVE  /\ Phase' = [Phase EXCEPT ![r] = PhaseOf(r)']
           /\ Budget' = [Budget EXCEPT ![r] = BudgetOf(r)']
<1>1. \A q \in Requests \ {r} : PhaseOf(q)' = PhaseOf(q) /\ BudgetOf(q)' = BudgetOf(q)
  BY LeaseStays
<1>2. QED
  BY <1>1 DEF Phase, Budget

QuietLease == UNCHANGED <<Phase, Budget, extensions>>

LEMMA QuietLeaseIsStutter ==
    ASSUME QuietLease
    PROVE  UNCHANGED Lease!leaseVars
BY DEF QuietLease, Phase, Budget, Lease!leaseVars

LEMMA AllLeasesStay ==
    ASSUME \A q \in Requests : SameLease(q), extensions' = extensions
    PROVE  QuietLease
<1>1. \A q \in Requests : PhaseOf(q)' = PhaseOf(q) /\ BudgetOf(q)' = BudgetOf(q)
  BY LeaseStays
<1>2. QED
  BY <1>1 DEF QuietLease, Phase, Budget

\* A step of one request that leaves its extensions alone: Move with a budget.
LEMMA LeaseMoves ==
    ASSUME NEW r \in Requests, \A q \in Requests \ {r} : SameLease(q),
           extensions' = extensions, NEW from, NEW to,
           PhaseOf(r) = from, PhaseOf(r)' = to
    PROVE  /\ Lease!Move(r, from, to)
           /\ Budget' = [Budget EXCEPT ![r] = BudgetOf(r)']
           /\ BudgetOf(r)' = BudgetOf(r) => Budget' = Budget
<1>1. /\ Phase' = [Phase EXCEPT ![r] = to] /\ Phase[r] = from
      /\ Budget' = [Budget EXCEPT ![r] = BudgetOf(r)'] /\ Budget[r] = BudgetOf(r)
  BY OneLeaseChanges DEF Phase, Budget
<1>2. BudgetOf(r)' = BudgetOf(r) => Budget' = Budget
  BY <1>1 DEF Budget
<1>3. QED
  BY <1>1, <1>2 DEF Lease!Move, Phase, Budget

\* Requests: asked for, refused, or refused because the account is not ready.
LEMMA RequestMoves ==
    ASSUME TypeOK, NEW r \in Requests, Decided(r)
    PROVE  /\ Submit(r) => Lease!Ask(r)
           /\ Reject(r) \/ ApproveNotUnlocked(r) \/ ApproveNoPassword(r) => Lease!Refuse(r)
<1>1. ASSUME request[r] \in {"none", "pending_approval"}
      PROVE  session[r] = "none" /\ reviewed[r] = FALSE
  <2>1. made[r] = 0
    BY <1>1 DEF Decided
  <2>2. session[r] = "none"
    BY <2>1 DEF Decided
  <2>3. reviewed[r] \in BOOLEAN
    BY DEF TypeOK
  <2>4. QED
    BY <2>2, <2>3 DEF Decided
<1>2. ASSUME NEW new \in {"pending_approval", "approved", "rejected"},
             request[r] \in {"none", "pending_approval"},
             request' = [request EXCEPT ![r] = new], UNCHANGED sessionVars
      PROVE  /\ \A q \in Requests \ {r} : SameLease(q)
             /\ UNCHANGED <<session, reviewed, left, extensions>>
             /\ request'[r] = new /\ BudgetOf(r)' = BudgetOf(r)
  <2>1. UNCHANGED <<session, reviewed, left, extensions>>
    BY <1>2 DEF sessionVars
  <2>2. request'[r] = new /\ \A q \in Requests \ {r} : request'[q] = request[q]
    BY <1>2 DEF TypeOK
  <2>3. QED
    BY <2>1, <2>2 DEF SameLease, BudgetOf
<1>3. ASSUME Submit(r)
      PROVE  Lease!Ask(r)
  <2>1. /\ request[r] = "none" /\ request' = [request EXCEPT ![r] = "pending_approval"]
        /\ UNCHANGED sessionVars
    BY <1>3 DEF Submit
  <2>2. /\ \A q \in Requests \ {r} : SameLease(q)
        /\ UNCHANGED <<session, reviewed, left, extensions>>
        /\ request'[r] = "pending_approval" /\ BudgetOf(r)' = BudgetOf(r)
    BY <1>2, <2>1
  <2>3. PhaseOf(r) = "none" /\ PhaseOf(r)' = "asked"
    BY <1>1, <2>1, <2>2 DEF PhaseOf
  <2>4. QED
    BY <2>2, <2>3, LeaseMoves DEF Lease!Ask, Budget
<1>4. ASSUME Reject(r) \/ ApproveNotUnlocked(r) \/ ApproveNoPassword(r)
      PROVE  Lease!Refuse(r)
  <2>1. /\ request[r] = "pending_approval"
        /\ \/ request' = [request EXCEPT ![r] = "approved"]
           \/ request' = [request EXCEPT ![r] = "rejected"]
        /\ UNCHANGED sessionVars
    BY <1>4 DEF Reject, ApproveNotUnlocked, ApproveNoPassword, Undecided
  <2>2. PICK new \in {"approved", "rejected"} : request' = [request EXCEPT ![r] = new]
    BY <2>1
  <2>3. /\ \A q \in Requests \ {r} : SameLease(q)
        /\ UNCHANGED <<session, reviewed, left, extensions>>
        /\ request'[r] = new /\ BudgetOf(r)' = BudgetOf(r)
    BY <1>2, <2>1, <2>2
  <2>4. PhaseOf(r) = "asked" /\ PhaseOf(r)' = "refused"
    BY <1>1, <2>1, <2>2, <2>3 DEF PhaseOf
  <2>5. QED
    BY <2>3, <2>4, LeaseMoves DEF Lease!Refuse, Budget
<1>5. QED
  BY <1>3, <1>4

\* An approval opens the lease with its whole duration.
LEMMA ApproveOpens ==
    ASSUME TypeOK, NEW r \in Requests, Decided(r), Approve(r)
    PROVE  Lease!Open(r)
<1>1. /\ request[r] = "pending_approval" /\ request' = [request EXCEPT ![r] = "approved"]
      /\ session' = [session EXCEPT ![r] = "active"]
      /\ left' = [left EXCEPT ![r] = Duration[r]]
      /\ UNCHANGED <<extensions, reviewed>>
  BY DEF Approve, StartSession, Undecided
<1>2. session[r] = "none" /\ reviewed[r] = FALSE
  <2>1. made[r] = 0 /\ session[r] = "none"
    BY <1>1 DEF Decided
  <2>2. reviewed[r] \in BOOLEAN
    BY DEF TypeOK
  <2>3. QED
    BY <2>1, <2>2 DEF Decided
<1>3. /\ \A q \in Requests \ {r} : SameLease(q)
      /\ session'[r] = "active" /\ left'[r] = Duration[r] /\ reviewed'[r] = FALSE
  BY <1>1, <1>2 DEF TypeOK, SameLease
<1>4. PhaseOf(r) = "asked" /\ PhaseOf(r)' = "open" /\ BudgetOf(r)' = Duration[r]
  BY <1>1, <1>2, <1>3 DEF PhaseOf, BudgetOf
<1>5. Lease!Move(r, "asked", "open") /\ Budget' = [Budget EXCEPT ![r] = Duration[r]]
  BY <1>1, <1>3, <1>4, LeaseMoves
<1>6. QED
  BY <1>1, <1>5 DEF Lease!Open, Budget

\* What ends a session closes the lease, or finds it closed.
LEMMA CloseCloses ==
    ASSUME TypeOK, NEW r \in Requests, Decided(r), session[r] # "none",
           NEW final \in {"completed", "expired", "revoked"}, Close(r, final),
           UNCHANGED <<request, left, extensions, reviewed>>
    PROVE  Lease!Close(r) \/ QuietLease
<1>1. session' = [session EXCEPT ![r] = final]
  BY DEF Close
<1>2. (\A q \in Requests \ {r} : SameLease(q)) /\ session'[r] = final
  BY <1>1 DEF TypeOK, SameLease
<1>3. reviewed[r] \in BOOLEAN /\ reviewed'[r] = reviewed[r] /\ BudgetOf(r)' = 0
  BY <1>2 DEF TypeOK, BudgetOf
<1>4. CASE session[r] = "active"
  <2>1. reviewed[r] = FALSE
    BY <1>3, <1>4 DEF Decided
  <2>2. PhaseOf(r) = "open" /\ PhaseOf(r)' = "closed"
    BY <1>2, <1>3, <1>4, <2>1 DEF PhaseOf
  <2>3. Lease!Move(r, "open", "closed") /\ Budget' = [Budget EXCEPT ![r] = 0]
    BY <1>2, <1>3, <2>2, LeaseMoves
  <2>4. QED
    BY <2>3 DEF Lease!Close, Budget
<1>5. CASE session[r] # "active"
  <2>1. BudgetOf(r)' = BudgetOf(r)
    BY <1>3, <1>5 DEF BudgetOf
  <2>2. PhaseOf(r)' = PhaseOf(r)
    BY <1>2, <1>3, <1>5 DEF PhaseOf
  <2>3. /\ Phase' = [Phase EXCEPT ![r] = PhaseOf(r)] /\ Budget' = [Budget EXCEPT ![r] = BudgetOf(r)]
    BY <1>2, <2>1, <2>2, OneLeaseChanges
  <2>4. QED
    BY <2>3 DEF QuietLease, Phase, Budget
<1>6. QED
  BY <1>4, <1>5

\* The review of a lease that is closed; a second review changes nothing.
LEMMA ReviewReviews ==
    ASSUME TypeOK, NEW r \in Requests, Review(r)
    PROVE  Lease!Review(r) \/ QuietLease
<1>1. /\ session[r] \in {"completed", "expired"} /\ reviewed' = [reviewed EXCEPT ![r] = TRUE]
      /\ UNCHANGED <<request, session, left, extensions>>
  BY DEF Review, Reviewable
<1>2. (\A q \in Requests \ {r} : SameLease(q)) /\ reviewed'[r] = TRUE /\ reviewed[r] \in BOOLEAN
  BY <1>1 DEF TypeOK, SameLease
<1>3. BudgetOf(r)' = BudgetOf(r)
  BY <1>1 DEF BudgetOf
<1>4. CASE reviewed[r] = FALSE
  <2>1. PhaseOf(r) = "closed" /\ PhaseOf(r)' = "reviewed"
    BY <1>1, <1>2, <1>4 DEF PhaseOf
  <2>2. QED
    BY <1>1, <1>2, <1>3, <2>1, LeaseMoves DEF Lease!Review, Budget
<1>5. CASE reviewed[r] = TRUE
  <2>1. \A q \in Requests : SameLease(q)
    BY <1>1, <1>2, <1>5 DEF SameLease
  <2>2. QED
    BY <1>1, <2>1, AllLeasesStay
<1>6. QED
  BY <1>2, <1>4, <1>5

\* An extension adds to the budget of an open lease that has some left.
LEMMA ExtendExtends ==
    ASSUME TypeOK, NEW r \in Requests, Decided(r), NEW more \in Extensions, Extend(r, more)
    PROVE  Lease!Extend(r, more)
<1>1. /\ session[r] = "active" /\ left[r] > 0 /\ extensions[r] < MaxExtensions
      /\ left' = [left EXCEPT ![r] = @ + more]
      /\ extensions' = [extensions EXCEPT ![r] = @ + 1]
      /\ UNCHANGED <<request, session, reviewed>>
  BY DEF Extend, IsActive, CanExtend
<1>2. reviewed[r] = FALSE
  <2>1. reviewed[r] \in BOOLEAN
    BY DEF TypeOK
  <2>2. QED
    BY <1>1, <2>1 DEF Decided
<1>3. (\A q \in Requests \ {r} : SameLease(q)) /\ left'[r] = left[r] + more
  BY <1>1 DEF TypeOK, SameLease
<1>4. /\ PhaseOf(r) = "open" /\ PhaseOf(r)' = PhaseOf(r)
      /\ BudgetOf(r) = left[r] /\ BudgetOf(r)' = left[r] + more
  BY <1>1, <1>2, <1>3 DEF PhaseOf, BudgetOf
<1>5. /\ Phase' = [Phase EXCEPT ![r] = PhaseOf(r)]
      /\ Budget' = [Budget EXCEPT ![r] = left[r] + more]
  BY <1>3, <1>4, OneLeaseChanges
<1>6. Phase' = Phase /\ Phase[r] = "open" /\ Budget[r] = left[r]
  BY <1>4, <1>5 DEF Phase, Budget
<1>7. QED
  BY <1>1, <1>5, <1>6 DEF Lease!Extend, Phase, Budget

\* The clock: no open lease is used up, because its timer would be due.
LEMMA TickTicks ==
    ASSUME TypeOK, TimerInv, \A r \in Requests : Decided(r), Tick
    PROVE  Lease!Tick
<1>1. /\ \A r \in Requests : starting[r] = 0 /\ 0 \notin timers[r]
      /\ left' = [r \in Requests |->
                    IF session[r] = "active" \/ left[r] > 0 THEN left[r] - 1 ELSE left[r]]
      /\ UNCHANGED <<request, session, reviewed, extensions>>
  BY DEF Tick
<1>2. ASSUME NEW r \in Requests, session[r] = "active"
      PROVE  left[r] > 0
  <2>1. PICK t \in timers[r] : t <= left[r]
    BY <1>1, <1>2 DEF TimerInv
  <2>2. t \in Nat /\ t # 0 /\ left[r] \in Int
    BY <1>1, <2>1 DEF TypeOK
  <2>3. QED
    BY <2>1, <2>2
<1>3. \A r \in Requests : PhaseOf(r)' = PhaseOf(r)
  BY <1>1 DEF PhaseOf
<1>4. \A r \in Requests : (PhaseOf(r) = "open" <=> session[r] = "active")
  <2> SUFFICES ASSUME NEW r \in Requests
               PROVE  (PhaseOf(r) = "open" <=> session[r] = "active")
    OBVIOUS
  <2>1. CASE reviewed[r]
    BY <2>1 DEF Decided, PhaseOf
  <2>2. CASE ~ reviewed[r]
    BY <2>2 DEF PhaseOf
  <2>3. QED
    BY <2>1, <2>2
<1>5. \A r \in Requests :
        BudgetOf(r)' = IF PhaseOf(r) = "open" THEN BudgetOf(r) - 1 ELSE BudgetOf(r)
  BY <1>1, <1>4 DEF BudgetOf
<1>6. \A r \in Requests : PhaseOf(r) = "open" => BudgetOf(r) > 0
  BY <1>2, <1>4 DEF BudgetOf
<1>7. QED
  BY <1>1, <1>3, <1>5, <1>6 DEF Lease!Tick, Phase, Budget

LeaseInv == TypeOK /\ TimerInv /\ \A r \in Requests : Decided(r)

LEMMA LeaseInit == Init => Lease!Init
<1> SUFFICES ASSUME Init PROVE Lease!Init
  OBVIOUS
<1>1. ASSUME NEW r \in Requests
      PROVE  PhaseOf(r) = "none" /\ BudgetOf(r) = 0
  <2>1. request[r] = "none" /\ session[r] = "none" /\ reviewed[r] = FALSE
    BY DEF Init
  <2>2. QED
    BY <2>1 DEF PhaseOf, BudgetOf
<1>2. extensions = [r \in Requests |-> 0]
  BY DEF Init
<1>3. QED
  BY <1>1, <1>2 DEF Lease!Init, Phase, Budget

LEMMA LeaseNext == LeaseInv /\ [Next]_vars => [Lease!Next]_(Lease!leaseVars)
<1> SUFFICES ASSUME LeaseInv, [Next]_vars
             PROVE  Lease!Next \/ UNCHANGED Lease!leaseVars
  OBVIOUS
<1>1. ASSUME QuietLease
      PROVE  UNCHANGED Lease!leaseVars
  BY <1>1, QuietLeaseIsStutter
<1>2. ASSUME NEW r \in Requests,
             Submit(r) \/ Reject(r) \/ ApproveNotUnlocked(r) \/ ApproveNoPassword(r)
      PROVE  Lease!Next
  BY <1>2, RequestMoves DEF LeaseInv, Lease!Next
<1>3. ASSUME NEW r \in Requests, Approve(r)
      PROVE  Lease!Next
  BY <1>3, ApproveOpens DEF LeaseInv, Lease!Next
<1>4. ASSUME NEW r \in Requests, End(r) \/ Revoke(r)
      PROVE  Lease!Next \/ QuietLease
  <2>1. /\ Close(r, "completed") \/ Close(r, "revoked")
        /\ session[r] # "none"
        /\ UNCHANGED <<request, left, extensions, reviewed>>
    BY <1>4 DEF End, Revoke
  <2>2. QED
    BY <2>1, CloseCloses DEF LeaseInv, Lease!Next
<1>5. ASSUME NEW r \in Requests, Review(r)
      PROVE  Lease!Next \/ QuietLease
  BY <1>5, ReviewReviews DEF LeaseInv, Lease!Next
<1>6. ASSUME NEW r \in Requests, TimerStarts(r)
      PROVE  QuietLease
  BY <1>6, AllLeasesStay DEF TimerStarts, SameLease
<1>7. ASSUME NEW r \in Requests, TimerFires(r)
      PROVE  Lease!Next \/ QuietLease
  <2>1. UNCHANGED <<request, left, extensions, reviewed>>
    BY <1>7 DEF TimerFires
  <2>2. CASE session[r] = "active"
    <3>1. Close(r, "expired") /\ session[r] # "none"
      BY <1>7, <2>2 DEF TimerFires, Terminates
    <3>2. QED
      BY <2>1, <3>1, CloseCloses DEF LeaseInv, Lease!Next
  <2>3. CASE session[r] # "active"
    <3>1. UNCHANGED session
      BY <1>7, <2>3 DEF TimerFires, Terminates
    <3>2. QED
      BY <2>1, <3>1, AllLeasesStay DEF SameLease
  <2>4. QED
    BY <2>2, <2>3
<1>8. ASSUME NEW r \in Requests, NEW more \in Extensions, Extend(r, more)
      PROVE  Lease!Next
  BY <1>8, ExtendExtends DEF LeaseInv, Lease!Next
<1>9. ASSUME Tick
      PROVE  Lease!Next
  BY <1>9, TickTicks DEF LeaseInv, Lease!Next
<1>10. CASE UNCHANGED vars
  BY <1>1, <1>10, AllLeasesStay DEF vars, sessionVars, SameLease
<1>11. CASE Next
  BY <1>1, <1>2, <1>3, <1>4, <1>5, <1>6, <1>7, <1>8, <1>9, <1>11 DEF Next
<1>12. QED
  BY <1>10, <1>11

\* For any requests, accounts, durations, extensions and limits, emergency
\* access implements the lease: one decision and at most one lease per request,
\* no time passes for a lease that is used up, and what is closed stays closed,
\* whatever timers, failed approvals and revocations do (manager.py:719-1030,
\* 1619-1643).
THEOREM ManagerImplementsLease == Spec => ImplementsLease
<1>1. Spec => []LeaseInv
  BY TypeCorrect, TimersCover, DecisionInvariant, PTL DEF LeaseInv
<1>2. QED
  BY LeaseInit, LeaseNext, <1>1, PTL DEF Spec, ImplementsLease, Lease!Spec
=============================================================================
