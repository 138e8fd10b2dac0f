---------------------------- MODULE ConnectionPool ----------------------------
(***************************************************************************)
(* SAPRFCConnectionManager: connectors/sap/extractors/connection.py, the   *)
(* pool of RFC connections that the extractors' threads share.             *)
(*                                                                         *)
(* Threads interleave at every operation of the queue and at every         *)
(* acquisition of the lock, and they ping a connection between two of      *)
(* those.  A connection is created while the lock is held.  SAP may cut a  *)
(* connection at any time and refuse a new one; a program that uses a      *)
(* connection always leaves the `with` block, with an exception or without.*)
(***************************************************************************)
EXTENDS Integers, Sequences, FiniteSets

CONSTANTS
    Threads,    \* threads of the extractors
    Conns,      \* connection objects; one that is closed stands for a new one
    NoConn,     \* a thread without a connection
    PoolSize,   \* config.pool_size
    MaxCloses   \* bound: calls of close_all

ASSUME ThreadsAssumption == IsFiniteSet(Threads)
ASSUME ConnsAssumption == IsFiniteSet(Conns) /\ NoConn \notin Conns
ASSUME PoolSizeAssumption == PoolSize \in Nat \ {0}

VARIABLES
    link,       \* what a connection is: closed, alive, or cut by SAP
    pool,       \* _pool, a FIFO queue
    pc,         \* where a thread is in _acquire, _release or close_all
    held,       \* the connection a thread has in its hands
    created,    \* _created_count
    active,     \* _active_count
    closes      \* calls of close_all that ended

vars == <<link, pool, pc, held, created, active, closes>>

-----------------------------------------------------------------------------

Acquiring == {"validate", "count", "create", "wait"}
Releasing == {"check", "put", "uncount"}
Places == {"idle", "using", "drain", "reset"} \cup Acquiring \cup Releasing

TypeOK ==
    /\ link \in [Conns -> {"closed", "alive", "dead"}]
    /\ pool \in Seq(Conns)
    /\ pc \in [Threads -> Places]
    /\ held \in [Threads -> Conns \cup {NoConn}]
    /\ created \in Int
    /\ active \in Int
    /\ closes \in Nat

Init ==
    /\ link = [c \in Conns |-> "closed"]
    /\ pool = <<>>
    /\ pc = [t \in Threads |-> "idle"]
    /\ held = [t \in Threads |-> NoConn]
    /\ created = 0
    /\ active = 0
    /\ closes = 0

-----------------------------------------------------------------------------

Goto(t, place) == pc' = [pc EXCEPT ![t] = place]
Hold(t, c) == held' = [held EXCEPT ![t] = c]
Drop(t) == Hold(t, NoConn)
Close(c) == link' = [link EXCEPT ![c] = "closed"]

\* What get leaves of the queue.
AfterGet == Tail(pool)

Take(t, place) ==
    /\ pool # <<>>
    /\ pool' = AfterGet
    /\ Hold(t, Head(pool))
    /\ Goto(t, place)

(* _acquire: get_nowait, and the ping of what it found.                    *)
Acquire(t) ==
    /\ pc[t] = "idle"
    /\ \/ Take(t, "validate")
       \/ pool = <<>> /\ Goto(t, "create") /\ UNCHANGED <<pool, held>>
    /\ UNCHANGED <<link, created, active, closes>>

Validate(t) ==
    /\ pc[t] = "validate"
    /\ \/ link[held[t]] = "alive" /\ Goto(t, "count") /\ UNCHANGED <<link, held>>
       \/ link[held[t]] = "dead" /\ Goto(t, "create") /\ Close(held[t]) /\ Drop(t)
    /\ UNCHANGED <<pool, created, active, closes>>

Count(t) ==
    /\ pc[t] = "count"
    /\ active' = active + 1
    /\ Goto(t, "using")
    /\ UNCHANGED <<link, pool, held, created, closes>>

\* Mutant of MayCreate: off by one.
MayCreateOneMore == created <= PoolSize
MayCreate == created < PoolSize

(* Both counters are raised before the connection is asked for, and stay   *)
(* raised when it is refused.                                              *)
Create(t) ==
    /\ pc[t] = "create"
    /\ MayCreate
    /\ created' = created + 1
    /\ active' = active + 1
    /\ \/ \E c \in Conns :
            /\ link[c] = "closed"
            /\ link' = [link EXCEPT ![c] = "alive"]
            /\ Hold(t, c)
            /\ Goto(t, "using")
       \/ Goto(t, "idle") /\ UNCHANGED <<link, held>>
    /\ UNCHANGED <<pool, closes>>

FindNoRoom(t) ==
    /\ pc[t] = "create"
    /\ ~ MayCreate
    /\ Goto(t, "wait")
    /\ UNCHANGED <<link, pool, held, created, active, closes>>

(* get with a timeout: nothing pings the connection it returns.            *)
GetLate(t) ==
    /\ pc[t] = "wait"
    /\ Take(t, "count")
    /\ UNCHANGED <<link, created, active, closes>>

\* Mutant of TimeOut: get without a timeout.
NoTimeOut(t) == FALSE
TimeOut(t) ==
    /\ pc[t] = "wait"
    /\ pool = <<>>
    /\ Goto(t, "idle")
    /\ UNCHANGED <<link, pool, held, created, active, closes>>

-----------------------------------------------------------------------------

(* _release: the counter, the ping, and the connection's way back.         *)
Release(t) ==
    /\ pc[t] = "using"
    /\ active' = active - 1
    /\ Goto(t, "check")
    /\ UNCHANGED <<link, pool, held, created, closes>>

\* Mutant of Check: what was just closed goes back to the queue as well.
CheckNotReturning(t) ==
    /\ pc[t] = "check"
    /\ \/ link[held[t]] = "alive" /\ Goto(t, "put") /\ UNCHANGED <<link, held>>
       \/ link[held[t]] = "dead" /\ Goto(t, "put") /\ Close(held[t]) /\ Drop(t)
    /\ UNCHANGED <<pool, created, active, closes>>

Check(t) ==
    /\ pc[t] = "check"
    /\ \/ link[held[t]] = "alive" /\ Goto(t, "put") /\ UNCHANGED <<link, held>>
       \/ link[held[t]] = "dead" /\ Goto(t, "uncount") /\ Close(held[t]) /\ Drop(t)
    /\ UNCHANGED <<pool, created, active, closes>>

\* Mutant of Put: what a full queue refuses is dropped without a close.
PutOrForget(t) ==
    /\ pc[t] = "put"
    /\ pool' = IF Len(pool) < PoolSize THEN Append(pool, held[t]) ELSE pool
    /\ Drop(t)
    /\ Goto(t, "idle")
    /\ UNCHANGED <<link, created, active, closes>>

(* put_nowait: a full queue refuses, which takes a close_all to happen.    *)
Put(t) ==
    /\ pc[t] = "put"
    /\ \/ Len(pool) < PoolSize /\ pool' = Append(pool, held[t]) /\ UNCHANGED link
       \/ Len(pool) >= PoolSize /\ Close(held[t]) /\ UNCHANGED pool
    /\ Drop(t)
    /\ Goto(t, "idle")
    /\ UNCHANGED <<created, active, closes>>

Uncount(t) ==
    /\ pc[t] = "uncount"
    /\ created' = created - 1
    /\ Goto(t, "idle")
    /\ UNCHANGED <<link, pool, held, active, closes>>

-----------------------------------------------------------------------------

(* close_all: it empties the queue, then it forgets what is in use.        *)
StartClosing(t) ==
    /\ pc[t] = "idle"
    /\ closes < MaxCloses
    /\ Goto(t, "drain")
    /\ UNCHANGED <<link, pool, held, created, active, closes>>

Drain(t) ==
    /\ pc[t] = "drain"
    /\ \/ pool # <<>> /\ pool' = AfterGet /\ Close(Head(pool)) /\ UNCHANGED pc
       \/ pool = <<>> /\ Goto(t, "reset") /\ UNCHANGED <<link, pool>>
    /\ UNCHANGED <<held, created, active, closes>>

Reset(t) ==
    /\ pc[t] = "reset"
    /\ created' = 0
    /\ active' = 0
    /\ closes' = closes + 1
    /\ Goto(t, "idle")
    /\ UNCHANGED <<link, pool, held>>

(* SAP, or the network, cuts a connection; nobody is told.                 *)
Cut(c) ==
    /\ link[c] = "alive"
    /\ link' = [link EXCEPT ![c] = "dead"]
    /\ UNCHANGED <<pool, pc, held, created, active, closes>>

-----------------------------------------------------------------------------

(* What a thread does of itself once it called something.                  *)
Continue(t) ==
    \/ Validate(t) \/ Count(t) \/ Create(t) \/ FindNoRoom(t)
    \/ GetLate(t) \/ TimeOut(t)
    \/ Check(t) \/ Put(t) \/ Uncount(t)
    \/ Drain(t) \/ Reset(t)

Next ==
    \/ \E t \in Threads : Acquire(t) \/ Release(t) \/ StartClosing(t) \/ Continue(t)
    \/ \E c \in Conns : Cut(c)

Spec == Init /\ [][Next]_vars

(* The operating system runs every thread that can run; how long a program *)
(* keeps a connection is left open.                                        *)
FairSpec == Spec /\ \A t \in Threads : WF_vars(Continue(t))

-----------------------------------------------------------------------------

Open == {c \in Conns : link[c] # "closed"}
Pooled(c) == \E i \in DOMAIN pool : pool[i] = c
InHand(c) == \E t \in Threads : held[t] = c

(* RFC connections are not thread-safe: no two threads have the same one,  *)
(* and none that a thread has can be taken from the queue; a connection in *)
(* the queue or in use was not closed by anybody, and an open one is in    *)
(* one of the two places, so none is lost (connection.py:86-128, 163-174). *)
ConnectionsHaveOneOwner ==
    /\ \A t, u \in Threads : held[t] = held[u] /\ held[t] # NoConn => t = u
    /\ \A i, j \in DOMAIN pool : pool[i] = pool[j] => i = j
    /\ \A c \in Conns : ~ (Pooled(c) /\ InHand(c))
    /\ \A c \in Conns : link[c] # "closed" <=> Pooled(c) \/ InHand(c)

(* The sessions open in SAP stay within pool_size; each close_all, which   *)
(* forgets the connections in use, lets as many again be opened            *)
(* (connection.py:104, 173).                                               *)
OpenConnectionsAreLimited == Cardinality(Open) <= PoolSize * (closes + 1)

(* The pool as Lending.tla sees it; a connection that is open in no place, *)
(* or closed in one, has no counterpart there.                             *)
Borrowers(c) == {t \in Threads : held[t] = c}

PlaceOf(c) ==
    CASE link[c] = "closed" /\ ~ Pooled(c) /\ Borrowers(c) = {} -> "closed"
      [] link[c] # "closed" /\ Pooled(c) /\ Borrowers(c) = {} -> "pooled"
      [] link[c] # "closed" /\ ~ Pooled(c) /\ Borrowers(c) # {} -> "lent"
      [] OTHER -> "astray"

Loans == INSTANCE Lending WITH
    place <- [c \in Conns |-> PlaceOf(c)],
    borrowers <- [c \in Conns |-> Borrowers(c)],
    resets <- closes

(* Every step of a thread, however it interleaves with pings, cuts and     *)
(* close_all, is a loan, a return, a discard, an eviction, a reset or      *)
(* nothing to a borrower: nobody takes what another has, the queue keeps   *)
(* to its size and only an opening below the limit adds a connection       *)
(* (connection.py:86-128, 163-174).                                        *)
ImplementsLending == Loans!Spec

(* No thread waits for ever, even when every slot is lost: what asks for a *)
(* connection gets one or an exception (connection.py:110).                *)
AcquireReturns ==
    \A t \in Threads : pc[t] \in Acquiring ~> pc[t] \in {"using", "idle"}

=============================================================================
