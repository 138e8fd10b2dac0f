------------------------------- MODULE Lending -------------------------------
(***************************************************************************)
(* What a connection pool promises its borrowers, with no queue, counters, *)
(* pings or locks: a connection is lent to one thread at a time and a      *)
(* thread borrows one at a time, only its borrower gives it back or        *)
(* discards it, the shelf holds PoolSize connections, and a connection is  *)
(* opened only below the limit, which each reset raises by PoolSize.       *)
(***************************************************************************)
EXTENDS Integers, FiniteSets

CONSTANTS Conns, Threads, PoolSize

VARIABLES
    place,      \* [Conns -> {"closed", "pooled", "lent"}]
    borrowers,  \* [Conns -> SUBSET Threads]
    resets      \* how often the pool forgot what it lent

lendingVars == <<place, borrowers, resets>>

Init ==
    /\ place = [c \in Conns |-> "closed"]
    /\ borrowers = [c \in Conns |-> {}]
    /\ resets = 0

At(p) == {c \in Conns : place[c] = p}
EmptyHanded(t) == \A c \in Conns : t \notin borrowers[c]

Move(c, from, to, threads) ==
    /\ place[c] = from
    /\ place' = [place EXCEPT ![c] = to]
    /\ borrowers' = [borrowers EXCEPT ![c] = threads]
    /\ UNCHANGED resets

Lend(t, c) == EmptyHanded(t) /\ Move(c, "pooled", "lent", {t})

Open(t, c) ==
    /\ EmptyHanded(t)
    /\ Cardinality(At("pooled") \cup At("lent")) < PoolSize * (resets + 1)
    /\ Move(c, "closed", "lent", {t})

GiveBack(t, c) ==
    /\ borrowers[c] = {t}
    /\ Cardinality(At("pooled")) < PoolSize
    /\ Move(c, "lent", "pooled", {})

Discard(t, c) == borrowers[c] = {t} /\ Move(c, "lent", "closed", {})

Evict(c) == Move(c, "pooled", "closed", {})

Reset == resets' = resets + 1 /\ UNCHANGED <<place, borrowers>>

Next ==
    \/ \E t \in Threads, c \in Conns :
        Lend(t, c) \/ Open(t, c) \/ GiveBack(t, c) \/ Discard(t, c)
    \/ \E c \in Conns : Evict(c)
    \/ Reset

Spec == Init /\ [][Next]_lendingVars
=============================================================================
