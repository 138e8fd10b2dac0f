----------------------------- MODULE Firefighter -----------------------------
(***************************************************************************)
(* Emergency access of core/firefighter/manager.py: requests, the sessions  *)
(* made of them, the timers that end sessions, and the locks of the         *)
(* firefighter accounts in SAP.                                             *)
(*                                                                         *)
(* Every handler's awaits come after its last assignment, so a handler is   *)
(* one action.  A timer is a task: created by one action, it reads the      *)
(* session's end time when it first runs, sleeps, and looks again.  Times   *)
(* are counted from now: `left` and `timers` go down as the clock ticks.    *)
(* The connector is external: unlocking, setting a password and locking may *)
(* each fail.                                                               *)
(***************************************************************************)
EXTENDS Integers

CONSTANTS
    Requests,      \* request ids; a session is named by its request
    Accounts,      \* firefighter ids
    AccountOf,     \* [Requests -> Accounts]: firefighter_id
    NoSession,     \* no entry in active_sessions_by_ff
    Duration,      \* [Requests -> Nat]: requested_duration
    Extensions,    \* the extension_minutes the endpoint lets through
    MaxExtensions, \* FirefighterSession.max_extensions
    HasConnector   \* the manager was given a sap_connector

ASSUME FirefighterAssumption ==
    /\ AccountOf \in [Requests -> Accounts]
    /\ NoSession \notin Requests
    /\ Duration \in [Requests -> Nat \ {0}]
    /\ Extensions \subseteq Nat \ {0}
    /\ MaxExtensions \in Nat
    /\ HasConnector \in BOOLEAN

VARIABLES
    request,    \* FirefighterRequest.status; "none" before submit_request
    session,    \* FirefighterSession.status; "none" before _create_session
    made,       \* how many sessions were made of a request
    left,       \* end_time - now, down to 0 when the session is over
    extensions, \* extension_count
    starting,   \* auto-terminate tasks that have not run yet
    timers,     \* sleeping auto-terminate tasks: the time to their wake-up
    reviewed,   \* reviewed_by is set
    activeOf,   \* active_sessions_by_ff
    locked,     \* the account is locked in SAP
    trouble     \* accounts left by a failing lock or password call (history)

sessionVars == <<session, made, left, extensions, starting, timers, reviewed>>
accountVars == <<activeOf, locked, trouble>>
vars == <<request, sessionVars, accountVars>>

-----------------------------------------------------------------------------
RequestStatus == {"none", "pending_approval", "approved", "rejected"}
SessionStatus == {"none", "active", "completed", "expired", "revoked"}

Init ==
    /\ request = [r \in Requests |-> "none"]
    /\ session = [r \in Requests |-> "none"]
    /\ made = [r \in Requests |-> 0]
    /\ left = [r \in Requests |-> 0]
    /\ extensions = [r \in Requests |-> 0]
    /\ starting = [r \in Requests |-> 0]
    /\ timers = [r \in Requests |-> {}]
    /\ reviewed = [r \in Requests |-> FALSE]
    /\ activeOf = [f \in Accounts |-> NoSession]
    /\ locked \in [Accounts -> BOOLEAN]
    /\ trouble = {}

-----------------------------------------------------------------------------
(* Requests *)

\* check_firefighter_availability: the connector calls an account available
\* when it is not locked
Available(f) == HasConnector => ~ locked[f]

\* submit_request
Submit(r) ==
    /\ request[r] = "none"
    /\ Available(AccountOf[r])
    /\ activeOf[AccountOf[r]] = NoSession
    /\ request' = [request EXCEPT ![r] = "pending_approval"]
    /\ UNCHANGED <<sessionVars, accountVars>>

\* Mutant of Undecided: an approval that failed half-way may be repeated.
NotRejected(r) == request[r] \in {"pending_approval", "approved"}

\* The status check of approve_request and reject_request
Undecided(r) == request[r] = "pending_approval"

\* reject_request
Reject(r) ==
    /\ Undecided(r)
    /\ request' = [request EXCEPT ![r] = "rejected"]
    /\ UNCHANGED <<sessionVars, accountVars>>

\* The session exists, its account is registered, its timer is created
StartSession(r) ==
    /\ session' = [session EXCEPT ![r] = "active"]
    /\ made' = [made EXCEPT ![r] = @ + 1]
    /\ left' = [left EXCEPT ![r] = Duration[r]]
    /\ starting' = [starting EXCEPT ![r] = @ + 1]
    /\ activeOf' = [activeOf EXCEPT ![AccountOf[r]] = r]
    /\ UNCHANGED <<extensions, timers, reviewed>>

\* approve_request when _create_session succeeds
Approve(r) ==
    /\ Undecided(r)
    /\ request' = [request EXCEPT ![r] = "approved"]
    /\ locked' = [locked EXCEPT ![AccountOf[r]] = @ /\ ~ HasConnector]
    /\ StartSession(r)
    /\ UNCHANGED trouble

\* approve_request when the account cannot be unlocked
ApproveNotUnlocked(r) ==
    /\ HasConnector
    /\ Undecided(r)
    /\ request' = [request EXCEPT ![r] = "approved"]
    /\ UNCHANGED <<sessionVars, accountVars>>

\* Mutant of RolledBack: the account stays as the failed approval left it.
NotRolledBack(f) == [locked EXCEPT ![f] = FALSE]

\* "Roll back - lock the account"
RolledBack(f) == [locked EXCEPT ![f] = TRUE]

\* approve_request when the account was unlocked but got no password: the call
\* reports a failure and the account is locked again, or that call or the one
\* to lock raises
ApproveNoPassword(r) ==
    LET f == AccountOf[r]
    IN  /\ HasConnector
        /\ Undecided(r)
        /\ request' = [request EXCEPT ![r] = "approved"]
        /\ \/ locked' = RolledBack(f) /\ UNCHANGED trouble
           \/ locked' = [locked EXCEPT ![f] = FALSE] /\ trouble' = trouble \cup {f}
        /\ UNCHANGED <<sessionVars, activeOf>>

-----------------------------------------------------------------------------
(* The end of a session *)

\* Mutant of Released: the entry is left behind.
Unreleased(f) == activeOf

\* "del self.active_sessions_by_ff[firefighter_id]", whichever session it names
Released(f) == [activeOf EXCEPT ![f] = NoSession]

\* end_session, revoke_session and the timer: the status, then the lock, then
\* the table of active sessions.  A lock call that reports an error is not
\* noticed; one that raises leaves the table as it is.
Close(r, final) ==
    LET f == AccountOf[r]
    IN  /\ session' = [session EXCEPT ![r] = final]
        /\ \/ /\ locked' = [locked EXCEPT ![f] = @ \/ HasConnector]
              /\ activeOf' = Released(f)
              /\ UNCHANGED trouble
           \/ /\ HasConnector
              /\ activeOf' \in {activeOf, Released(f)}
              /\ trouble' = trouble \cup {f}
              /\ UNCHANGED locked

\* end_session
End(r) ==
    /\ session[r] = "active"
    /\ Close(r, "completed")
    /\ UNCHANGED <<request, made, left, extensions, starting, timers, reviewed>>

\* revoke_session: any session, ended ones included
Revoke(r) ==
    /\ session[r] # "none"
    /\ Close(r, "revoked")
    /\ UNCHANGED <<request, made, left, extensions, starting, timers, reviewed>>

\* "Session must be completed before review"
Reviewable(r) == session[r] \in {"completed", "expired"}

\* submit_review
Review(r) ==
    /\ Reviewable(r)
    /\ reviewed' = [reviewed EXCEPT ![r] = TRUE]
    /\ UNCHANGED <<request, session, made, left, extensions, starting, timers,
                   accountVars>>

-----------------------------------------------------------------------------
(* Extension, timers and the clock *)

IsActive(r) == session[r] = "active" /\ left[r] > 0

\* Mutant of CanExtend: off by one.
CanExtendOnceMore(r) == extensions[r] <= MaxExtensions

CanExtend(r) == extensions[r] < MaxExtensions

\* extend_session: a later end and one more auto-terminate task
Extend(r, more) ==
    /\ IsActive(r)
    /\ CanExtend(r)
    /\ left' = [left EXCEPT ![r] = @ + more]
    /\ extensions' = [extensions EXCEPT ![r] = @ + 1]
    /\ starting' = [starting EXCEPT ![r] = @ + 1]
    /\ UNCHANGED <<request, session, made, timers, reviewed, accountVars>>

\* _schedule_auto_terminate first runs: it goes to sleep until the end time, or
\* ends at once when the end time is not ahead
TimerStarts(r) ==
    /\ starting[r] > 0
    /\ starting' = [starting EXCEPT ![r] = @ - 1]
    /\ timers' = [timers EXCEPT ![r] = IF left[r] > 0 THEN @ \cup {left[r]} ELSE @]
    /\ UNCHANGED <<request, session, made, left, extensions, reviewed, accountVars>>

\* Mutant of Terminates: an extended session is left to its other timer.
TerminatesUnextended(r) == session[r] = "active" /\ extensions[r] = 0

\* "Check if still active": the status, not the end time
Terminates(r) == session[r] = "active"

\* A timer wakes up
TimerFires(r) ==
    /\ 0 \in timers[r]
    /\ timers' = [timers EXCEPT ![r] = @ \ {0}]
    /\ IF Terminates(r) THEN Close(r, "expired")
       ELSE UNCHANGED <<session, accountVars>>
    /\ UNCHANGED <<request, made, left, extensions, starting, reviewed>>

\* A unit of time passes.  The event loop runs the tasks that are due first.
Tick ==
    /\ \A r \in Requests : starting[r] = 0 /\ 0 \notin timers[r]
    /\ left' = [r \in Requests |->
                    IF session[r] = "active" \/ left[r] > 0 THEN left[r] - 1 ELSE left[r]]
    /\ timers' = [r \in Requests |-> {t - 1 : t \in timers[r]}]
    /\ UNCHANGED <<request, session, made, extensions, starting, reviewed, accountVars>>

-----------------------------------------------------------------------------
Next ==
    \/ \E r \in Requests :
        \/ Submit(r) \/ Reject(r)
        \/ Approve(r) \/ ApproveNotUnlocked(r) \/ ApproveNoPassword(r)
        \/ End(r) \/ Revoke(r) \/ Review(r)
        \/ TimerStarts(r) \/ TimerFires(r)
        \/ \E more \in Extensions : Extend(r, more)
    \/ Tick

Spec == Init /\ [][Next]_vars

-----------------------------------------------------------------------------
(* Properties *)

\* Type invariant; no session is extended more often than its limit allows.
TypeOK ==
    /\ request \in [Requests -> RequestStatus]
    /\ session \in [Requests -> SessionStatus]
    /\ made \in [Requests -> Nat]
    /\ left \in [Requests -> Int]
    /\ extensions \in [Requests -> 0..MaxExtensions]
    /\ starting \in [Requests -> Nat]
    /\ timers \in [Requests -> SUBSET Nat]
    /\ reviewed \in [Requests -> BOOLEAN]
    /\ activeOf \in [Accounts -> Requests \cup {NoSession}]
    /\ locked \in [Accounts -> BOOLEAN]
    /\ trouble \subseteq Accounts

\* No session is active after its end time, however it was extended and
\* whichever of its timers were started before or after the extension.
NoOverrun == \A r \in Requests : session[r] = "active" => left[r] >= 0

\* An account for which no lock or password call broke down is not left
\* unlocked after use: once the manager gave it to a session, it is locked
\* whenever no session of it is active, also after an approval that failed
\* half-way.
UnusedAccountsAreLocked ==
    \A f \in Accounts \ trouble :
        (HasConnector /\ ~ locked[f]
            /\ \E r \in Requests : AccountOf[r] = f /\ session[r] # "none")
        => \E r \in Requests : AccountOf[r] = f /\ session[r] = "active"

\* The table of active sessions blocks an account only for a session of that
\* account that is active, though ending any session of the account clears it
\* and sessions overwrite one another in it.
NoStaleEntry ==
    \A f \in Accounts \ trouble : activeOf[f] # NoSession =>
        AccountOf[activeOf[f]] = f /\ session[activeOf[f]] = "active"

\* One approval makes at most one session, and no other decision makes one,
\* also when approving fails half-way and is tried again.
OneSessionPerApproval ==
    \A r \in Requests :
        /\ made[r] <= 1
        /\ session[r] # "none" => made[r] = 1 /\ request[r] = "approved"

\* A review is a review of the whole session: nothing reviewed is active, now
\* or later.
ReviewedSessionsAreOver ==
    \A r \in Requests : reviewed[r] => session[r] \in {"completed", "expired", "revoked"}

\* How a request looks to an auditor
PhaseOf(r) ==
    CASE reviewed[r] -> "reviewed"
      [] ~ reviewed[r] /\ session[r] = "active" -> "open"
      [] ~ reviewed[r] /\ session[r] \notin {"none", "active"} -> "closed"
      [] ~ reviewed[r] /\ session[r] = "none" ->
            IF request[r] = "none" THEN "none"
            ELSE IF request[r] = "pending_approval" THEN "asked" ELSE "refused"

BudgetOf(r) == IF session[r] = "active" THEN left[r] ELSE 0

Lease == INSTANCE EmergencyLease WITH
    phase <- [r \in Requests |-> PhaseOf(r)],
    budget <- [r \in Requests |-> BudgetOf(r)],
    extended <- extensions

\* The promise of EmergencyLease.tla: whatever the timers, failed approvals and
\* revocations do, a request is decided once and leads to at most one lease,
\* which does not run longer than its duration with its extensions, and which
\* nothing reopens.
ImplementsLease == Lease!Spec

\* The reason why no session overruns: a task that has not read the end time
\* yet, or a timer that wakes up at the end time or before.
TimerInv ==
    \A r \in Requests : session[r] = "active" =>
        /\ left[r] >= 0
        /\ \/ starting[r] > 0 /\ left[r] > 0
           \/ \E t \in timers[r] : t <= left[r]

-----------------------------------------------------------------------------
(* A statement of the repository that the code does not keep *)

\* "Reschedule auto-termination" (manager.py): a session expires at its end
\* time as extended, not before.
ExpiresAtItsEnd ==
    [][\A r \in Requests :
        session[r] = "active" /\ session'[r] = "expired" => left[r] = 0]_vars
=============================================================================
