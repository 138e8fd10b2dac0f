------------------------- MODULE ConnectionPoolProofs -------------------------
(***************************************************************************)
(* What ConnectionPool guarantees for any number of threads, connections   *)
(* and slots, and for any number of calls of close_all.  The inductive     *)
(* invariant adds to the owners of connections where in the code a thread  *)
(* has one in its hands, and counts a slot for each open connection and    *)
(* for each closed one that is still to be uncounted.  From it follows     *)
(* that the pool implements Lending.                                       *)
(***************************************************************************)
EXTENDS ConnectionPool, FiniteSetTheorems, TLAPS

Carrying == {"validate", "count", "using", "check", "put"}
Uncounting == {t \in Threads : pc[t] = "uncount"}

HandsAreFull ==
    \A t \in Threads : held[t] # NoConn <=> pc[t] \in Carrying

(* PoolSize * closes is a number of its own for the provers.               *)
Forgiven(n) == PoolSize * n

SlotsAreCounted ==
    /\ created <= PoolSize
    /\ Cardinality(Open) + Cardinality(Uncounting) <= created + Forgiven(closes)

IInv ==
    /\ TypeOK
    /\ HandsAreFull
    /\ ConnectionsHaveOneOwner
    /\ SlotsAreCounted

-----------------------------------------------------------------------------

LEMMA ForgivenGrows ==
    /\ Forgiven(0) = 0
    /\ \A n \in Nat : Forgiven(n) \in Nat /\ Forgiven(n + 1) = Forgiven(n) + PoolSize
BY PoolSizeAssumption DEF Forgiven

LEMMA SetsAreFinite ==
    /\ IsFiniteSet(Open) /\ IsFiniteSet(Uncounting)
    /\ Cardinality(Open) \in Nat /\ Cardinality(Uncounting) \in Nat
<1>1. Open \subseteq Conns /\ Uncounting \subseteq Threads
  BY DEF Open, Uncounting
<1>2. IsFiniteSet(Open) /\ IsFiniteSet(Uncounting)
  BY <1>1, FS_Subset, ConnsAssumption, ThreadsAssumption
<1>3. QED
  BY <1>2, FS_CardinalityType

(* The head of the queue and what remains without it.                      *)
LEMMA TailOfQueue ==
    ASSUME TypeOK, pool # <<>>
    PROVE  /\ Head(pool) \in Conns /\ Head(pool) # NoConn
           /\ 1 \in DOMAIN pool /\ Head(pool) = pool[1]
           /\ Tail(pool) \in Seq(Conns)
           /\ \A i \in DOMAIN Tail(pool) : i + 1 \in DOMAIN pool /\ Tail(pool)[i] = pool[i + 1]
           /\ \A i \in DOMAIN pool : i # 1 => i - 1 \in DOMAIN Tail(pool)
           /\ \A i \in DOMAIN pool : i \in Nat
<1>1. pool \in Seq(Conns)
  BY DEF TypeOK
<1>2. Len(pool) \in Nat /\ DOMAIN pool = 1..Len(pool) /\ Len(pool) > 0
  BY <1>1
<1>3. Head(pool) = pool[1] /\ Head(pool) \in Conns /\ Tail(pool) \in Seq(Conns)
  BY <1>1, <1>2
<1>4. Len(Tail(pool)) = Len(pool) - 1 /\ DOMAIN Tail(pool) = 1..(Len(pool) - 1)
  BY <1>1, <1>2, <1>3
<1>5. \A i \in DOMAIN Tail(pool) : Tail(pool)[i] = pool[i + 1]
  BY <1>1, <1>2, <1>4
<1>6. QED
  BY <1>2, <1>3, <1>4, <1>5, ConnsAssumption

(* A connection is in the queue exactly when it is its head or remains.    *)
LEMMA HeadLeaves ==
    ASSUME TypeOK, ConnectionsHaveOneOwner, pool # <<>>, pool' = Tail(pool)
    PROVE  /\ \A c \in Conns : Pooled(c)' <=> Pooled(c) /\ c # Head(pool)
           /\ Pooled(Head(pool)) /\ ~ InHand(Head(pool))
           /\ \A i, j \in DOMAIN pool' : pool'[i] = pool'[j] => i = j
<1>1. \A i, j \in DOMAIN pool : pool[i] = pool[j] => i = j
  BY DEF ConnectionsHaveOneOwner
<1>2. Pooled(Head(pool)) /\ ~ InHand(Head(pool))
  BY TailOfQueue DEF ConnectionsHaveOneOwner, Pooled
<1>3. \A i, j \in DOMAIN pool' : pool'[i] = pool'[j] => i = j
  BY <1>1, TailOfQueue
<1>4. ASSUME NEW c \in Conns, Pooled(c)'
      PROVE  Pooled(c) /\ c # Head(pool)
  <2>1. PICK i \in DOMAIN pool' : pool'[i] = c
    BY <1>4 DEF Pooled
  <2>2. i + 1 \in DOMAIN pool /\ pool[i + 1] = c /\ i \in Nat /\ i >= 1
    BY <2>1, TailOfQueue DEF TypeOK
  <2>3. QED
    BY <2>2, <1>1, TailOfQueue DEF Pooled
<1>5. ASSUME NEW c \in Conns, Pooled(c), c # Head(pool)
      PROVE  Pooled(c)'
  <2>1. PICK i \in DOMAIN pool : pool[i] = c
    BY <1>5 DEF Pooled
  <2>2. i # 1 /\ i - 1 \in DOMAIN Tail(pool) /\ i \in Nat
    BY <2>1, <1>5, TailOfQueue
  <2>3. Tail(pool)[i - 1] = c
    BY <2>1, <2>2, TailOfQueue
  <2>4. QED
    BY <2>2, <2>3 DEF Pooled
<1>6. QED
  BY <1>2, <1>3, <1>4, <1>5

(* What is in somebody's hands after thread t took c, or dropped what it   *)
(* had.                                                                    *)
LEMMA HandTakes ==
    ASSUME TypeOK, ConnectionsHaveOneOwner, NEW t \in Threads, held[t] = NoConn,
           NEW c \in Conns, ~ InHand(c), Hold(t, c)
    PROVE  /\ \A d \in Conns : InHand(d)' <=> InHand(d) \/ d = c
           /\ \A u, v \in Threads : held'[u] = held'[v] /\ held'[u] # NoConn => u = v
           /\ held' \in [Threads -> Conns \cup {NoConn}]
<1>1. held' = [held EXCEPT ![t] = c] /\ held \in [Threads -> Conns \cup {NoConn}]
  BY DEF Hold, TypeOK
<1>2. \A u \in Threads : held[u] # c
  BY DEF InHand
<1>3. \A u, v \in Threads : held[u] = held[v] /\ held[u] # NoConn => u = v
  BY DEF ConnectionsHaveOneOwner
<1>4. \A d \in Conns : InHand(d)' <=> InHand(d) \/ d = c
  BY <1>1, ConnsAssumption DEF InHand
<1>5. QED
  BY <1>1, <1>2, <1>3, <1>4

LEMMA HandDrops ==
    ASSUME TypeOK, ConnectionsHaveOneOwner, NEW t \in Threads, held[t] # NoConn, Drop(t)
    PROVE  /\ \A d \in Conns : InHand(d)' <=> InHand(d) /\ d # held[t]
           /\ \A u, v \in Threads : held'[u] = held'[v] /\ held'[u] # NoConn => u = v
           /\ held' \in [Threads -> Conns \cup {NoConn}]
           /\ held[t] \in Conns /\ InHand(held[t])
<1>1. held' = [held EXCEPT ![t] = NoConn] /\ held \in [Threads -> Conns \cup {NoConn}]
  BY DEF Hold, Drop, TypeOK
<1>2. \A u, v \in Threads : held[u] = held[v] /\ held[u] # NoConn => u = v
  BY DEF ConnectionsHaveOneOwner
<1>3. \A d \in Conns : InHand(d)' <=> InHand(d) /\ d # held[t]
  BY <1>1, <1>2, ConnsAssumption DEF InHand
<1>4. QED
  BY <1>1, <1>2, <1>3 DEF InHand

-----------------------------------------------------------------------------

(* Every step keeps every variable typed.                                  *)
LEMMA TypeNext ==
    ASSUME TypeOK, HandsAreFull, [Next]_vars
    PROVE  TypeOK'
<1> USE DEF TypeOK, Goto, Hold, Drop, Close, Places, Acquiring, Releasing
<1>1. ASSUME NEW t \in Threads, NEW place \in Places, Take(t, place), link' = link,
             created' = created, active' = active, closes' = closes
      PROVE  TypeOK'
  BY <1>1, TailOfQueue DEF Take, AfterGet
<1>2. ASSUME NEW t \in Threads, Acquire(t)
      PROVE  TypeOK'
  <2>1. ASSUME Take(t, "validate")
        PROVE  TypeOK'
    BY <1>2, <2>1, <1>1 DEF Acquire
  <2>2. QED
    BY <1>2, <2>1 DEF Acquire
<1>3. ASSUME NEW t \in Threads, Validate(t) \/ Check(t)
      PROVE  TypeOK'
  <2>1. held[t] \in Conns
    BY <1>3 DEF HandsAreFull, Carrying, Validate, Check
  <2>2. link' \in [Conns -> {"closed", "alive", "dead"}]
    BY <1>3, <2>1 DEF Validate, Check
  <2>3. QED
    BY <1>3, <2>2 DEF Validate, Check
<1>4. ASSUME NEW t \in Threads, Create(t)
      PROVE  TypeOK'
  BY <1>4 DEF Create
<1>5. ASSUME NEW t \in Threads, GetLate(t)
      PROVE  TypeOK'
  BY <1>5, <1>1 DEF GetLate
<1>6. ASSUME NEW t \in Threads,
             \/ Count(t) \/ FindNoRoom(t) \/ TimeOut(t) \/ Release(t)
             \/ Uncount(t) \/ StartClosing(t) \/ Reset(t)
      PROVE  TypeOK'
  BY <1>6 DEF Count, FindNoRoom, TimeOut, Release, Uncount, StartClosing, Reset
<1>7. ASSUME NEW t \in Threads, Put(t)
      PROVE  TypeOK'
  <2>1. held[t] \in Conns
    BY <1>7 DEF HandsAreFull, Carrying, Put
  <2>2. pool' \in Seq(Conns)
    BY <1>7, <2>1 DEF Put
  <2>3. QED
    BY <1>7, <2>1, <2>2 DEF Put
<1>8. ASSUME NEW t \in Threads, Drain(t)
      PROVE  TypeOK'
  BY <1>8, TailOfQueue DEF Drain, AfterGet
<1>9. ASSUME NEW c \in Conns, Cut(c)
      PROVE  TypeOK'
  BY <1>9 DEF Cut
<1>10. ASSUME UNCHANGED vars
       PROVE  TypeOK'
  BY <1>10 DEF vars
<1>11. QED
  BY <1>2, <1>3, <1>4, <1>5, <1>6, <1>7, <1>8, <1>9, <1>10 DEF Next, Continue

(* A thread has a connection in its hands exactly where the code does.     *)
LEMMA HandsNext ==
    ASSUME TypeOK, HandsAreFull, [Next]_vars
    PROVE  HandsAreFull'
<1> USE DEF HandsAreFull, Carrying, Goto, Hold, Drop
<1>1. held \in [Threads -> Conns \cup {NoConn}] /\ pc \in [Threads -> Places]
  BY DEF TypeOK
<1>2. ASSUME NEW t \in Threads, NEW place \in {"validate", "count"}, Take(t, place)
      PROVE  HandsAreFull'
  BY <1>1, <1>2, TailOfQueue DEF Take
<1>3. ASSUME NEW t \in Threads, Acquire(t)
      PROVE  HandsAreFull'
  BY <1>1, <1>2, <1>3 DEF Acquire
<1>4. ASSUME NEW t \in Threads, GetLate(t)
      PROVE  HandsAreFull'
  BY <1>2, <1>4 DEF GetLate
<1>5. ASSUME NEW t \in Threads, Create(t)
      PROVE  HandsAreFull'
  BY <1>1, <1>5, ConnsAssumption DEF Create
<1>6. ASSUME NEW t \in Threads, Validate(t) \/ Check(t) \/ Put(t)
      PROVE  HandsAreFull'
  BY <1>1, <1>6 DEF Validate, Check, Put
<1>7. ASSUME NEW t \in Threads,
             \/ Count(t) \/ FindNoRoom(t) \/ TimeOut(t) \/ Release(t)
             \/ Uncount(t) \/ StartClosing(t) \/ Drain(t) \/ Reset(t)
      PROVE  HandsAreFull'
  BY <1>1, <1>7 DEF Count, FindNoRoom, TimeOut, Release, Uncount, StartClosing, Drain, Reset
<1>8. ASSUME (\E c \in Conns : Cut(c)) \/ UNCHANGED vars
      PROVE  HandsAreFull'
  BY <1>8 DEF Cut, vars
<1>9. QED
  BY <1>3, <1>4, <1>5, <1>6, <1>7, <1>8 DEF Next, Continue

(* A step that leaves the queue and all hands alone keeps the owners if it *)
(* leaves open what is open.                                               *)
LEMMA OwnersStay ==
    ASSUME ConnectionsHaveOneOwner, pool' = pool, held' = held,
           \A c \in Conns : link'[c] # "closed" <=> link[c] # "closed"
    PROVE  ConnectionsHaveOneOwner'
BY DEF ConnectionsHaveOneOwner, Pooled, InHand

LEMMA TakeKeepsOwners ==
    ASSUME TypeOK, ConnectionsHaveOneOwner, link' = link,
           NEW t \in Threads, held[t] = NoConn, NEW place, Take(t, place)
    PROVE  ConnectionsHaveOneOwner'
<1> DEFINE h == Head(pool)
<1>1. pool # <<>> /\ pool' = Tail(pool) /\ Hold(t, h)
  BY DEF Take, AfterGet
<1>2. h \in Conns /\ ~ InHand(h) /\ Pooled(h)
  BY <1>1, TailOfQueue, HeadLeaves
<1>3. /\ \A c \in Conns : Pooled(c)' <=> Pooled(c) /\ c # h
      /\ \A i, j \in DOMAIN pool' : pool'[i] = pool'[j] => i = j
  BY <1>1, HeadLeaves
<1> HIDE DEF h
<1>4. /\ \A d \in Conns : InHand(d)' <=> InHand(d) \/ d = h
      /\ \A u, v \in Threads : held'[u] = held'[v] /\ held'[u] # NoConn => u = v
  BY <1>1, <1>2, HandTakes
<1>5. \A c \in Conns : ~ (Pooled(c)' /\ InHand(c)')
  BY <1>2, <1>3, <1>4 DEF ConnectionsHaveOneOwner
<1>6. \A c \in Conns : link'[c] # "closed" <=> Pooled(c)' \/ InHand(c)'
  BY <1>2, <1>3, <1>4 DEF ConnectionsHaveOneOwner
<1>7. QED
  BY <1>3, <1>4, <1>5, <1>6 DEF ConnectionsHaveOneOwner

(* A thread closes what it has.                                            *)
LEMMA CloseKeepsOwners ==
    ASSUME TypeOK, ConnectionsHaveOneOwner, pool' = pool,
           NEW t \in Threads, held[t] # NoConn, Close(held[t]), Drop(t)
    PROVE  ConnectionsHaveOneOwner'
<1>1. /\ \A d \in Conns : InHand(d)' <=> InHand(d) /\ d # held[t]
      /\ \A u, v \in Threads : held'[u] = held'[v] /\ held'[u] # NoConn => u = v
      /\ held[t] \in Conns /\ InHand(held[t])
  BY HandDrops
<1>2. \A c \in Conns : Pooled(c)' <=> Pooled(c)
  BY DEF Pooled
<1>3. \A c \in Conns : link'[c] = IF c = held[t] THEN "closed" ELSE link[c]
  BY DEF Close, TypeOK
<1>4. \A c \in Conns : ~ (Pooled(c)' /\ InHand(c)')
  BY <1>1, <1>2 DEF ConnectionsHaveOneOwner
<1>5. \A c \in Conns : link'[c] # "closed" <=> Pooled(c)' \/ InHand(c)'
  BY <1>1, <1>2, <1>3 DEF ConnectionsHaveOneOwner
<1>6. QED
  BY <1>1, <1>4, <1>5 DEF ConnectionsHaveOneOwner

LEMMA CreateKeepsOwners ==
    ASSUME TypeOK, ConnectionsHaveOneOwner, pool' = pool,
           NEW t \in Threads, held[t] = NoConn, NEW c \in Conns, link[c] = "closed",
           link' = [link EXCEPT ![c] = "alive"], Hold(t, c)
    PROVE  ConnectionsHaveOneOwner'
<1>1. ~ InHand(c) /\ ~ Pooled(c)
  BY DEF ConnectionsHaveOneOwner
<1>2. /\ \A d \in Conns : InHand(d)' <=> InHand(d) \/ d = c
      /\ \A u, v \in Threads : held'[u] = held'[v] /\ held'[u] # NoConn => u = v
  BY <1>1, HandTakes
<1>3. \A d \in Conns : Pooled(d)' <=> Pooled(d)
  BY DEF Pooled
<1>4. \A d \in Conns : link'[d] = IF d = c THEN "alive" ELSE link[d]
  BY DEF TypeOK
<1>5. \A d \in Conns : ~ (Pooled(d)' /\ InHand(d)')
  BY <1>1, <1>2, <1>3 DEF ConnectionsHaveOneOwner
<1>6. \A d \in Conns : link'[d] # "closed" <=> Pooled(d)' \/ InHand(d)'
  BY <1>1, <1>2, <1>3, <1>4 DEF ConnectionsHaveOneOwner
<1>7. QED
  BY <1>2, <1>5, <1>6 DEF ConnectionsHaveOneOwner

LEMMA ReturnKeepsOwners ==
    ASSUME TypeOK, ConnectionsHaveOneOwner, link' = link,
           NEW t \in Threads, held[t] # NoConn, pool' = Append(pool, held[t]), Drop(t)
    PROVE  ConnectionsHaveOneOwner'
<1> DEFINE h == held[t]
<1>1. /\ \A d \in Conns : InHand(d)' <=> InHand(d) /\ d # h
      /\ \A u, v \in Threads : held'[u] = held'[v] /\ held'[u] # NoConn => u = v
      /\ h \in Conns /\ InHand(h)
  BY HandDrops
<1>2. pool \in Seq(Conns) /\ pool' = Append(pool, h)
  BY DEF TypeOK
<1>3. ~ Pooled(h)
  BY <1>1 DEF ConnectionsHaveOneOwner
<1> HIDE DEF h
<1>4. /\ Len(pool) \in Nat /\ DOMAIN pool = 1..Len(pool) /\ DOMAIN pool' = 1..(Len(pool) + 1)
      /\ \A i \in DOMAIN pool : pool'[i] = pool[i]
      /\ pool'[Len(pool) + 1] = h
  BY <1>1, <1>2
<1>5. \A i, j \in DOMAIN pool' : pool'[i] = pool'[j] => i = j
  <2>1. \A i, j \in DOMAIN pool : pool[i] = pool[j] => i = j
    BY DEF ConnectionsHaveOneOwner
  <2>2. \A i \in DOMAIN pool : pool[i] # h
    BY <1>3 DEF Pooled
  <2>3. \A i \in DOMAIN pool' : i \in DOMAIN pool \/ i = Len(pool) + 1
    BY <1>4
  <2>4. QED
    BY <2>1, <2>2, <2>3, <1>4
<1>6. \A d \in Conns : Pooled(d)' <=> Pooled(d) \/ d = h
  BY <1>4 DEF Pooled
<1>7. \A d \in Conns : ~ (Pooled(d)' /\ InHand(d)')
  BY <1>1, <1>3, <1>6 DEF ConnectionsHaveOneOwner
<1>8. \A d \in Conns : link'[d] # "closed" <=> Pooled(d)' \/ InHand(d)'
  BY <1>1, <1>6 DEF ConnectionsHaveOneOwner
<1>9. QED
  BY <1>1, <1>5, <1>7, <1>8 DEF ConnectionsHaveOneOwner

LEMMA DrainKeepsOwners ==
    ASSUME TypeOK, ConnectionsHaveOneOwner, held' = held,
           pool # <<>>, pool' = Tail(pool), Close(Head(pool))
    PROVE  ConnectionsHaveOneOwner'
<1> DEFINE h == Head(pool)
<1>1. h \in Conns /\ Pooled(h) /\ ~ InHand(h)
  BY TailOfQueue, HeadLeaves
<1>2. /\ \A c \in Conns : Pooled(c)' <=> Pooled(c) /\ c # h
      /\ \A i, j \in DOMAIN pool' : pool'[i] = pool'[j] => i = j
  BY HeadLeaves
<1>3. \A c \in Conns : link'[c] = IF c = h THEN "closed" ELSE link[c]
  BY DEF Close, TypeOK
<1>4. \A c \in Conns : InHand(c)' <=> InHand(c)
  BY DEF InHand
<1> HIDE DEF h
<1>5. \A c \in Conns : ~ (Pooled(c)' /\ InHand(c)')
  BY <1>2, <1>4 DEF ConnectionsHaveOneOwner
<1>6. \A c \in Conns : link'[c] # "closed" <=> Pooled(c)' \/ InHand(c)'
  BY <1>1, <1>2, <1>3, <1>4 DEF ConnectionsHaveOneOwner
<1>7. \A t, u \in Threads : held'[t] = held'[u] /\ held'[t] # NoConn => t = u
  BY DEF ConnectionsHaveOneOwner
<1>8. QED
  BY <1>2, <1>5, <1>6, <1>7 DEF ConnectionsHaveOneOwner

(* Every step keeps each connection with one owner.                        *)
LEMMA OwnersNext ==
    ASSUME TypeOK, HandsAreFull, ConnectionsHaveOneOwner, [Next]_vars
    PROVE  ConnectionsHaveOneOwner'
<1>1. \A t \in Threads : held[t] # NoConn <=> pc[t] \in Carrying
  BY DEF HandsAreFull
<1>2. ASSUME NEW t \in Threads, Acquire(t) \/ GetLate(t)
      PROVE  ConnectionsHaveOneOwner'
  <2>1. held[t] = NoConn /\ link' = link
    BY <1>1, <1>2 DEF Acquire, GetLate, Carrying
  <2>2. ASSUME Take(t, "validate") \/ Take(t, "count")
        PROVE  ConnectionsHaveOneOwner'
    BY <2>1, <2>2, TakeKeepsOwners
  <2>3. QED
    BY <1>2, <2>1, <2>2, OwnersStay DEF Acquire, GetLate
<1>3. ASSUME NEW t \in Threads, Validate(t) \/ Check(t)
      PROVE  ConnectionsHaveOneOwner'
  <2>1. held[t] # NoConn /\ pool' = pool
    BY <1>1, <1>3 DEF Validate, Check, Carrying
  <2>2. QED
    BY <1>3, <2>1, OwnersStay, CloseKeepsOwners DEF Validate, Check
<1>4. ASSUME NEW t \in Threads, Create(t)
      PROVE  ConnectionsHaveOneOwner'
  <2>1. held[t] = NoConn /\ pool' = pool
    BY <1>1, <1>4 DEF Create, Carrying
  <2>2. ASSUME NEW c \in Conns, link[c] = "closed", link' = [link EXCEPT ![c] = "alive"], Hold(t, c)
        PROVE  ConnectionsHaveOneOwner'
    BY <2>1, <2>2, CreateKeepsOwners
  <2>3. QED
    BY <1>4, <2>1, <2>2, OwnersStay DEF Create
<1>5. ASSUME NEW t \in Threads, Put(t)
      PROVE  ConnectionsHaveOneOwner'
  <2>1. held[t] # NoConn /\ Drop(t)
    BY <1>1, <1>5 DEF Put, Carrying
  <2>2. QED
    BY <1>5, <2>1, ReturnKeepsOwners, CloseKeepsOwners DEF Put
<1>6. ASSUME NEW t \in Threads, Drain(t)
      PROVE  ConnectionsHaveOneOwner'
  BY <1>6, OwnersStay, DrainKeepsOwners DEF Drain, AfterGet
<1>7. ASSUME NEW t \in Threads,
             \/ Count(t) \/ FindNoRoom(t) \/ TimeOut(t) \/ Release(t)
             \/ Uncount(t) \/ StartClosing(t) \/ Reset(t)
      PROVE  ConnectionsHaveOneOwner'
  BY <1>7, OwnersStay DEF Count, FindNoRoom, TimeOut, Release, Uncount, StartClosing, Reset
<1>8. ASSUME NEW c \in Conns, Cut(c)
      PROVE  ConnectionsHaveOneOwner'
  BY <1>8, OwnersStay DEF Cut, TypeOK
<1>9. ASSUME UNCHANGED vars
      PROVE  ConnectionsHaveOneOwner'
  BY <1>9, OwnersStay DEF vars
<1>10. QED
  BY <1>2, <1>3, <1>4, <1>5, <1>6, <1>7, <1>8, <1>9 DEF Next, Continue

-----------------------------------------------------------------------------

(* What a step may do to the two sets that are counted.                    *)
LEMMA OpenStays ==
    ASSUME \A c \in Conns : link'[c] # "closed" <=> link[c] # "closed"
    PROVE  Cardinality(Open') = Cardinality(Open)
<1>1. Open' = Open
  BY DEF Open
<1>2. QED
  BY <1>1

LEMMA OpenGrows ==
    ASSUME TypeOK, NEW c \in Conns, link[c] = "closed", link' = [link EXCEPT ![c] = "alive"]
    PROVE  Cardinality(Open') = Cardinality(Open) + 1
<1>1. Open' = Open \cup {c} /\ c \notin Open
  BY DEF Open, TypeOK
<1>2. QED
  BY <1>1, SetsAreFinite, FS_AddElement

LEMMA OpenShrinks ==
    ASSUME TypeOK, NEW c \in Conns, link[c] # "closed", Close(c)
    PROVE  Cardinality(Open') = Cardinality(Open) - 1
<1>1. Open' = Open \ {c} /\ c \in Open
  BY DEF Open, TypeOK, Close
<1>2. QED
  BY <1>1, SetsAreFinite, FS_RemoveElement

LEMMA UncountingStays ==
    ASSUME TypeOK, NEW t \in Threads, pc[t] # "uncount", NEW place, place # "uncount",
           Goto(t, place) \/ pc' = pc
    PROVE  Cardinality(Uncounting') = Cardinality(Uncounting)
<1>1. Uncounting' = Uncounting
  BY DEF Uncounting, TypeOK, Goto
<1>2. QED
  BY <1>1

LEMMA UncountingGrows ==
    ASSUME TypeOK, NEW t \in Threads, pc[t] # "uncount", Goto(t, "uncount")
    PROVE  Cardinality(Uncounting') = Cardinality(Uncounting) + 1
<1>1. Uncounting' = Uncounting \cup {t} /\ t \notin Uncounting
  BY DEF Uncounting, TypeOK, Goto
<1>2. QED
  BY <1>1, SetsAreFinite, FS_AddElement

LEMMA UncountingShrinks ==
    ASSUME TypeOK, NEW t \in Threads, pc[t] = "uncount", Goto(t, "idle")
    PROVE  Cardinality(Uncounting') = Cardinality(Uncounting) - 1
<1>1. Uncounting' = Uncounting \ {t} /\ t \in Uncounting
  BY DEF Uncounting, TypeOK, Goto
<1>2. QED
  BY <1>1, SetsAreFinite, FS_RemoveElement

(* Every step keeps a slot counted for each connection.                    *)
LEMMA SlotsNext ==
    ASSUME IInv, [Next]_vars
    PROVE  SlotsAreCounted'
<1> DEFINE o == Cardinality(Open)
           u == Cardinality(Uncounting)
           f == Forgiven(closes)
<1>1. /\ o \in Nat /\ u \in Nat /\ f \in Nat /\ created \in Int /\ PoolSize \in Nat
      /\ created <= PoolSize /\ o + u <= created + f
  BY SetsAreFinite, ForgivenGrows, PoolSizeAssumption DEF IInv, TypeOK, SlotsAreCounted
<1>2. TypeOK /\ ConnectionsHaveOneOwner /\ \A t \in Threads : held[t] # NoConn <=> pc[t] \in Carrying
  BY DEF IInv, HandsAreFull
<1>3. SlotsAreCounted' <=> created' <= PoolSize /\ o' + u' <= created' + f'
  BY DEF SlotsAreCounted
<1>4. \A t \in Threads : held[t] # NoConn => held[t] \in Conns /\ link[held[t]] # "closed"
  BY <1>2 DEF TypeOK, ConnectionsHaveOneOwner, InHand
<1> HIDE DEF o, u, f
<1>5. ASSUME closes' = closes
      PROVE  f' = f
  BY <1>5 DEF f
<1>6. ASSUME link' = link
      PROVE  o' = o
  BY <1>6, OpenStays DEF o
<1>7. ASSUME pc' = pc
      PROVE  u' = u
  BY <1>7 DEF u, Uncounting
<1>8. ASSUME NEW t \in Threads, pc[t] # "uncount", NEW place, place # "uncount", Goto(t, place)
      PROVE  u' = u
  BY <1>2, <1>8, UncountingStays DEF u
<1>9. ASSUME NEW t \in Threads, held[t] # NoConn, Close(held[t])
      PROVE  o' = o - 1
  BY <1>2, <1>4, <1>9, OpenShrinks DEF o
<1>10. ASSUME NEW t \in Threads, Acquire(t) \/ GetLate(t)
       PROVE  SlotsAreCounted'
  <2>1. o' = o /\ f' = f /\ created' = created
    BY <1>5, <1>6, <1>10 DEF Acquire, GetLate
  <2>2. u' = u
    BY <1>8, <1>10 DEF Acquire, GetLate, Take
  <2>3. QED
    BY <1>1, <1>3, <2>1, <2>2
<1>11. ASSUME NEW t \in Threads, Validate(t)
       PROVE  SlotsAreCounted'
  <2>1. f' = f /\ created' = created /\ u' = u
    BY <1>5, <1>8, <1>11 DEF Validate
  <2>2. o' = o \/ o' = o - 1
    BY <1>2, <1>6, <1>9, <1>11 DEF Validate, Carrying
  <2>3. QED
    BY <1>1, <1>3, <2>1, <2>2
<1>12. ASSUME NEW t \in Threads, Check(t)
       PROVE  SlotsAreCounted'
  <2>1. f' = f /\ created' = created /\ held[t] # NoConn
    BY <1>2, <1>5, <1>12 DEF Check, Carrying
  <2>2. ASSUME link' = link, Goto(t, "put")
        PROVE  o' = o /\ u' = u
    BY <1>6, <1>8, <1>12, <2>2 DEF Check
  <2>3. ASSUME Close(held[t]), Goto(t, "uncount")
        PROVE  o' = o - 1 /\ u' = u + 1
    BY <1>2, <1>9, <1>12, <2>1, <2>3, UncountingGrows DEF Check, u
  <2>4. QED
    BY <1>1, <1>3, <1>12, <2>1, <2>2, <2>3 DEF Check
<1>13. ASSUME NEW t \in Threads, Create(t)
       PROVE  SlotsAreCounted'
  <2>1. f' = f /\ created' = created + 1 /\ created < PoolSize /\ u' = u
    BY <1>5, <1>8, <1>13 DEF Create, MayCreate
  <2>2. o' = o \/ o' = o + 1
    BY <1>2, <1>6, <1>13, OpenGrows DEF Create, o
  <2>3. QED
    BY <1>1, <1>3, <2>1, <2>2
<1>14. ASSUME NEW t \in Threads, Put(t)
       PROVE  SlotsAreCounted'
  <2>1. f' = f /\ created' = created /\ u' = u /\ held[t] # NoConn
    BY <1>2, <1>5, <1>8, <1>14 DEF Put, Carrying
  <2>2. o' = o \/ o' = o - 1
    BY <1>6, <1>9, <1>14, <2>1 DEF Put
  <2>3. QED
    BY <1>1, <1>3, <2>1, <2>2
<1>15. ASSUME NEW t \in Threads, Uncount(t)
       PROVE  SlotsAreCounted'
  <2>1. f' = f /\ created' = created - 1 /\ o' = o
    BY <1>5, <1>6, <1>15 DEF Uncount
  <2>2. u' = u - 1
    BY <1>2, <1>15, UncountingShrinks DEF Uncount, u
  <2>3. QED
    BY <1>1, <1>3, <2>1, <2>2
<1>16. ASSUME NEW t \in Threads, Drain(t)
       PROVE  SlotsAreCounted'
  <2>1. f' = f /\ created' = created /\ u' = u
    BY <1>5, <1>7, <1>8, <1>16 DEF Drain
  <2>2. ASSUME pool # <<>>, pool' = Tail(pool), Close(Head(pool))
        PROVE  o' = o - 1
    <3>1. Head(pool) \in Conns /\ link[Head(pool)] # "closed"
      BY <1>2, <2>2, TailOfQueue, HeadLeaves DEF ConnectionsHaveOneOwner
    <3>2. QED
      BY <1>2, <2>2, <3>1, OpenShrinks DEF o
  <2>3. QED
    BY <1>1, <1>3, <1>6, <1>16, <2>1, <2>2 DEF Drain, AfterGet
<1>17. ASSUME NEW t \in Threads, Reset(t)
       PROVE  SlotsAreCounted'
  <2>1. created' = 0 /\ o' = o /\ u' = u
    BY <1>6, <1>8, <1>17 DEF Reset
  <2>2. f' = f + PoolSize
    BY <1>2, <1>17, ForgivenGrows DEF Reset, f, TypeOK
  <2>3. QED
    BY <1>1, <1>3, <2>1, <2>2
<1>18. ASSUME NEW t \in Threads,
              \/ Count(t) \/ FindNoRoom(t) \/ TimeOut(t) \/ Release(t) \/ StartClosing(t)
       PROVE  SlotsAreCounted'
  <2>1. f' = f /\ created' = created /\ o' = o
    BY <1>5, <1>6, <1>18 DEF Count, FindNoRoom, TimeOut, Release, StartClosing
  <2>2. u' = u
    BY <1>8, <1>18 DEF Count, FindNoRoom, TimeOut, Release, StartClosing
  <2>3. QED
    BY <1>1, <1>3, <2>1, <2>2
<1>19. ASSUME NEW c \in Conns, Cut(c)
       PROVE  SlotsAreCounted'
  <2>1. f' = f /\ created' = created /\ u' = u
    BY <1>5, <1>7, <1>19 DEF Cut
  <2>2. o' = o
    BY <1>2, <1>19, OpenStays DEF Cut, TypeOK, o
  <2>3. QED
    BY <1>1, <1>3, <2>1, <2>2
<1>20. ASSUME UNCHANGED vars
       PROVE  SlotsAreCounted'
  BY <1>1, <1>3, <1>5, <1>6, <1>7, <1>20 DEF vars
<1>21. QED
  BY <1>10, <1>11, <1>12, <1>13, <1>14, <1>15, <1>16, <1>17, <1>18, <1>19, <1>20
     DEF Next, Continue

-----------------------------------------------------------------------------

(* The initial state satisfies the inductive invariant.                    *)
LEMMA InitInv == Init => IInv
<1> SUFFICES ASSUME Init PROVE IInv
  OBVIOUS
<1>1. TypeOK /\ HandsAreFull
  BY DEF Init, TypeOK, HandsAreFull, Carrying, Places
<1>2. ConnectionsHaveOneOwner
  BY ConnsAssumption DEF Init, ConnectionsHaveOneOwner, Pooled, InHand
<1>3. Open = {} /\ Uncounting = {}
  BY DEF Init, Open, Uncounting
<1>4. SlotsAreCounted
  BY <1>3, FS_EmptySet, ForgivenGrows, PoolSizeAssumption DEF SlotsAreCounted, Init
<1>5. QED
  BY <1>1, <1>2, <1>4 DEF IInv

(* The inductive invariant holds in every reachable state.                 *)
LEMMA Invariance == Spec => []IInv
<1>1. ASSUME IInv, [Next]_vars
      PROVE  IInv'
  BY <1>1, TypeNext, HandsNext, OwnersNext, SlotsNext DEF IInv
<1>2. QED
  BY InitInv, <1>1, PTL DEF Spec

(* The variables keep their types, for any number of threads and slots.    *)
THEOREM TypeCorrect == Spec => []TypeOK
BY Invariance, PTL DEF IInv

(* No two threads ever share a connection, none in use is in the queue,    *)
(* none of either is closed, and no open connection is lost.               *)
THEOREM OneOwner == Spec => []ConnectionsHaveOneOwner
BY Invariance, PTL DEF IInv

(* What is open never exceeds a pool for each close_all and one more,      *)
(* however often SAP cuts and refuses connections.                         *)
THEOREM OpenLimited == Spec => []OpenConnectionsAreLimited
<1>1. ASSUME IInv
      PROVE  OpenConnectionsAreLimited
  <2>1. closes \in Nat /\ created \in Int /\ PoolSize \in Nat
    BY <1>1, PoolSizeAssumption DEF IInv, TypeOK
  <2>2. created <= PoolSize /\ Cardinality(Open) + Cardinality(Uncounting) <= created + Forgiven(closes)
    BY <1>1 DEF IInv, SlotsAreCounted
  <2>3. Forgiven(closes) \in Nat /\ Forgiven(closes + 1) = Forgiven(closes) + PoolSize
    BY <2>1, ForgivenGrows
  <2>4. Cardinality(Open) <= Forgiven(closes + 1)
    BY <2>1, <2>2, <2>3, SetsAreFinite
  <2>5. QED
    BY <2>4 DEF OpenConnectionsAreLimited, Forgiven
<1>2. QED
  BY Invariance, <1>1, PTL

-----------------------------------------------------------------------------

(* The refinement.  In every reachable state a connection is closed, on    *)
(* the shelf or lent, and none is astray.                                  *)
LoanPlaces == [c \in Conns |-> PlaceOf(c)]
LoanBorrowers == [c \in Conns |-> Borrowers(c)]

NoneAstray ==
    \A c \in Conns :
        /\ PlaceOf(c) = IF link[c] = "closed" THEN "closed"
                        ELSE IF Pooled(c) THEN "pooled" ELSE "lent"
        /\ InHand(c) <=> Borrowers(c) # {}

LEMMA OneOwnerOnePlace == ConnectionsHaveOneOwner => NoneAstray
<1> SUFFICES ASSUME ConnectionsHaveOneOwner, NEW c \in Conns
             PROVE  /\ PlaceOf(c) = IF link[c] = "closed" THEN "closed"
                                    ELSE IF Pooled(c) THEN "pooled" ELSE "lent"
                    /\ InHand(c) <=> Borrowers(c) # {}
  BY DEF NoneAstray
<1>1. InHand(c) <=> Borrowers(c) # {}
  BY DEF InHand, Borrowers
<1>2. /\ ~ (Pooled(c) /\ InHand(c))
      /\ link[c] # "closed" <=> Pooled(c) \/ InHand(c)
  BY DEF ConnectionsHaveOneOwner
<1>3. QED
  BY <1>1, <1>2 DEF PlaceOf

SameLoan(c) == PlaceOf(c)' = PlaceOf(c) /\ Borrowers(c)' = Borrowers(c)

LEMMA LoanStays ==
    ASSUME NEW c \in Conns, link'[c] = "closed" <=> link[c] = "closed",
           Pooled(c)' <=> Pooled(c), Borrowers(c)' = Borrowers(c)
    PROVE  SameLoan(c)
BY DEF SameLoan, PlaceOf

LEMMA AllLoansStay ==
    ASSUME \A c \in Conns : link'[c] = "closed" <=> link[c] = "closed",
           UNCHANGED <<pool, held, closes>>
    PROVE  UNCHANGED Loans!lendingVars
<1>1. \A c \in Conns : (Pooled(c)' <=> Pooled(c)) /\ Borrowers(c)' = Borrowers(c)
  BY DEF Pooled, Borrowers
<1>2. \A c \in Conns : SameLoan(c)
  BY <1>1, LoanStays
<1>3. QED
  BY <1>2 DEF SameLoan, Loans!lendingVars

LEMMA OneLoanMoves ==
    ASSUME NEW c \in Conns, \A d \in Conns \ {c} : SameLoan(d), closes' = closes,
           NEW from, NEW to, NEW threads,
           PlaceOf(c) = from, PlaceOf(c)' = to, Borrowers(c)' = threads
    PROVE  Loans!Move(c, from, to, threads)
<1>1. LoanPlaces' = [LoanPlaces EXCEPT ![c] = to]
  BY DEF SameLoan, LoanPlaces
<1>2. LoanBorrowers' = [LoanBorrowers EXCEPT ![c] = threads]
  BY DEF SameLoan, LoanBorrowers
<1>3. QED
  BY <1>1, <1>2 DEF Loans!Move, LoanPlaces, LoanBorrowers

(* Whom a connection is lent to, after a thread takes or drops one.        *)
LEMMA TakingBorrows ==
    ASSUME TypeOK, NEW t \in Threads, held[t] = NoConn, NEW c \in Conns, ~ InHand(c), Hold(t, c)
    PROVE  /\ Loans!EmptyHanded(t)
           /\ Borrowers(c)' = {t}
           /\ \A d \in Conns \ {c} : Borrowers(d)' = Borrowers(d)
<1>1. /\ held' = [held EXCEPT ![t] = c] /\ held \in [Threads -> Conns \cup {NoConn}]
      /\ \A u \in Threads : held[u] # c
      /\ NoConn \notin Conns
  BY ConnsAssumption DEF Hold, TypeOK, InHand
<1>2. \A u \in Threads : held'[u] = IF u = t THEN c ELSE held[u]
  BY <1>1
<1>3. Borrowers(c)' = {t}
  BY <1>1, <1>2 DEF Borrowers
<1>4. ASSUME NEW d \in Conns \ {c}
      PROVE  Borrowers(d)' = Borrowers(d)
  BY <1>1, <1>2 DEF Borrowers
<1>5. Loans!EmptyHanded(t)
  BY <1>1 DEF Loans!EmptyHanded, Borrowers
<1>6. QED
  BY <1>3, <1>4, <1>5

LEMMA DroppingReturns ==
    ASSUME TypeOK, ConnectionsHaveOneOwner,
           NEW t \in Threads, NEW c \in Conns, held[t] = c, Drop(t)
    PROVE  /\ Borrowers(c) = {t} /\ Borrowers(c)' = {}
           /\ \A d \in Conns \ {c} : Borrowers(d)' = Borrowers(d)
<1>1. /\ held' = [held EXCEPT ![t] = NoConn] /\ held \in [Threads -> Conns \cup {NoConn}]
      /\ \A u, v \in Threads : held[u] = held[v] /\ held[u] # NoConn => u = v
      /\ NoConn \notin Conns
  BY ConnsAssumption DEF Hold, Drop, TypeOK, ConnectionsHaveOneOwner
<1>2. \A u \in Threads : held'[u] = IF u = t THEN NoConn ELSE held[u]
  BY <1>1
<1>3. Borrowers(c) = {t}
  BY <1>1 DEF Borrowers
<1>4. Borrowers(c)' = {}
  BY <1>1, <1>2 DEF Borrowers
<1>5. ASSUME NEW d \in Conns \ {c}
      PROVE  Borrowers(d)' = Borrowers(d)
  BY <1>1, <1>2 DEF Borrowers
<1>6. QED
  BY <1>3, <1>4, <1>5

(* Lending counts with the same operator as the pool.                      *)
LEMMA SameCount == \A S : Loans!Cardinality(S) = Cardinality(S)
BY DEF Loans!Cardinality, Cardinality

(* What the loans count: the shelf is the queue, and what is not closed is *)
(* the set of open connections.                                            *)
LEMMA ShelfIsQueue ==
    ASSUME TypeOK, NoneAstray
    PROVE  /\ Cardinality(Loans!At("pooled")) \in Nat
           /\ Cardinality(Loans!At("pooled")) <= Len(pool)
<1> DEFINE S == {c \in Conns : Pooled(c)}
<1>1. pool \in Seq(Conns) /\ Len(pool) \in Nat /\ DOMAIN pool = 1..Len(pool)
  BY DEF TypeOK
<1>2. pool \in Surjection(1..Len(pool), S)
  BY <1>1 DEF Surjection, Pooled
<1>3. ExistsSurjection(1..Len(pool), S)
  BY <1>2 DEF ExistsSurjection
<1>4. S \subseteq Conns /\ IsFiniteSet(S)
  BY FS_Subset, ConnsAssumption
<1>5. Cardinality(S) <= Len(pool)
  BY <1>1, <1>3, FS_SurjCardinalityBound
<1>6. Loans!At("pooled") \subseteq S
  BY DEF Loans!At, NoneAstray
<1> HIDE DEF S
<1>7. /\ IsFiniteSet(Loans!At("pooled"))
      /\ Cardinality(Loans!At("pooled")) <= Cardinality(S)
  BY <1>4, <1>6, FS_Subset
<1>8. Cardinality(S) \in Nat /\ Cardinality(Loans!At("pooled")) \in Nat
  BY <1>4, <1>7, FS_CardinalityType
<1>9. QED
  BY <1>1, <1>5, <1>7, <1>8

LEMMA OpenIsAbroad ==
    ASSUME NoneAstray
    PROVE  Loans!At("pooled") \cup Loans!At("lent") = Open
BY DEF Loans!At, NoneAstray, Open

-----------------------------------------------------------------------------

(* One lemma for each step that moves a connection.                        *)
LoanInv == IInv /\ NoneAstray

LEMMA TakeLends ==
    ASSUME LoanInv, NoneAstray', NEW t \in Threads, held[t] = NoConn,
           NEW place, Take(t, place), UNCHANGED <<link, closes>>
    PROVE  \E c \in Conns : Loans!Lend(t, c)
<1>1. TypeOK /\ ConnectionsHaveOneOwner /\ NoneAstray
  BY DEF LoanInv, IInv
<1>2. pool # <<>> /\ pool' = Tail(pool) /\ Hold(t, Head(pool))
  BY DEF Take, AfterGet
<1>3. PICK c \in Conns : c = Head(pool)
  BY <1>1, <1>2, TailOfQueue
<1>4. /\ \A d \in Conns : Pooled(d)' <=> Pooled(d) /\ d # c
      /\ Pooled(c) /\ ~ InHand(c)
  BY <1>1, <1>2, <1>3, HeadLeaves
<1>5. /\ Loans!EmptyHanded(t) /\ Borrowers(c)' = {t}
      /\ \A d \in Conns \ {c} : Borrowers(d)' = Borrowers(d)
  BY <1>1, <1>2, <1>3, <1>4, TakingBorrows
<1>6. \A d \in Conns \ {c} : SameLoan(d)
  BY <1>4, <1>5, LoanStays
<1>7. link[c] # "closed"
  BY <1>1, <1>4 DEF ConnectionsHaveOneOwner
<1>8. PlaceOf(c) = "pooled" /\ PlaceOf(c)' = "lent"
  BY <1>1, <1>4, <1>7 DEF NoneAstray
<1>9. Loans!Move(c, "pooled", "lent", {t})
  BY <1>5, <1>6, <1>8, OneLoanMoves
<1>10. QED
  BY <1>5, <1>9 DEF Loans!Lend

LEMMA CreateOpens ==
    ASSUME LoanInv, NoneAstray', NEW t \in Threads, Create(t), link' # link
    PROVE  \E c \in Conns : Loans!Open(t, c)
<1>1. TypeOK /\ HandsAreFull /\ ConnectionsHaveOneOwner /\ SlotsAreCounted /\ NoneAstray
  BY DEF LoanInv, IInv
<1>2. PICK c \in Conns :
        link[c] = "closed" /\ link' = [link EXCEPT ![c] = "alive"] /\ Hold(t, c)
  BY DEF Create
<1>3. held[t] = NoConn /\ UNCHANGED <<pool, closes>> /\ created < PoolSize
  BY <1>1 DEF Create, HandsAreFull, Carrying, MayCreate
<1>4. ~ InHand(c) /\ ~ Pooled(c)
  BY <1>1, <1>2 DEF ConnectionsHaveOneOwner
<1>5. /\ Loans!EmptyHanded(t) /\ Borrowers(c)' = {t}
      /\ \A d \in Conns \ {c} : Borrowers(d)' = Borrowers(d)
  BY <1>1, <1>2, <1>3, <1>4, TakingBorrows
<1>6. \A d \in Conns : Pooled(d)' <=> Pooled(d)
  BY <1>3 DEF Pooled
<1>7. \A d \in Conns : link'[d] = IF d = c THEN "alive" ELSE link[d]
  BY <1>1, <1>2 DEF TypeOK
<1>8. \A d \in Conns \ {c} : SameLoan(d)
  BY <1>5, <1>6, <1>7, LoanStays
<1>9. PlaceOf(c) = "closed" /\ PlaceOf(c)' = "lent"
  BY <1>1, <1>2, <1>4, <1>6, <1>7 DEF NoneAstray
<1>10. Loans!Move(c, "closed", "lent", {t})
  BY <1>3, <1>5, <1>8, <1>9, OneLoanMoves
<1>11. Cardinality(Open) < Forgiven(closes + 1)
  <2>1. closes \in Nat /\ created \in Int /\ PoolSize \in Nat
    BY <1>1, PoolSizeAssumption DEF TypeOK
  <2>2. Cardinality(Open) + Cardinality(Uncounting) <= created + Forgiven(closes)
    BY <1>1 DEF SlotsAreCounted
  <2>3. Forgiven(closes) \in Nat /\ Forgiven(closes + 1) = Forgiven(closes) + PoolSize
    BY <2>1, ForgivenGrows
  <2>4. QED
    BY <1>3, <2>1, <2>2, <2>3, SetsAreFinite
<1>12. QED
  BY <1>1, <1>5, <1>10, <1>11, OpenIsAbroad, SameCount DEF Loans!Open, Forgiven

LEMMA ReturnGivesBack ==
    ASSUME LoanInv, NoneAstray', NEW t \in Threads, held[t] # NoConn, Drop(t),
           Len(pool) < PoolSize, pool' = Append(pool, held[t]), UNCHANGED <<link, closes>>
    PROVE  \E c \in Conns : Loans!GiveBack(t, c)
<1>1. TypeOK /\ ConnectionsHaveOneOwner /\ NoneAstray
  BY DEF LoanInv, IInv
<1>2. PICK c \in Conns : c = held[t]
  BY <1>1 DEF TypeOK
<1>3. /\ Borrowers(c) = {t} /\ Borrowers(c)' = {}
      /\ \A d \in Conns \ {c} : Borrowers(d)' = Borrowers(d)
  BY <1>1, <1>2, DroppingReturns
<1>4. InHand(c) /\ ~ Pooled(c) /\ link[c] # "closed"
  BY <1>1, <1>2 DEF InHand, ConnectionsHaveOneOwner
<1>5. \A d \in Conns : Pooled(d)' <=> Pooled(d) \/ d = c
  <2>1. pool \in Seq(Conns) /\ pool' = Append(pool, c)
    BY <1>1, <1>2 DEF TypeOK
  <2>2. /\ Len(pool) \in Nat /\ DOMAIN pool = 1..Len(pool) /\ DOMAIN pool' = 1..(Len(pool) + 1)
        /\ \A i \in DOMAIN pool : pool'[i] = pool[i]
        /\ pool'[Len(pool) + 1] = c
    BY <2>1
  <2>3. QED
    BY <2>2 DEF Pooled
<1>6. \A d \in Conns \ {c} : SameLoan(d)
  BY <1>3, <1>5, LoanStays
<1>7. PlaceOf(c) = "lent" /\ PlaceOf(c)' = "pooled"
  BY <1>1, <1>4, <1>5 DEF NoneAstray
<1>8. Loans!Move(c, "lent", "pooled", {})
  BY <1>3, <1>6, <1>7, OneLoanMoves
<1>9. Cardinality(Loans!At("pooled")) < PoolSize
  BY <1>1, ShelfIsQueue, PoolSizeAssumption DEF TypeOK
<1>10. QED
  BY <1>3, <1>8, <1>9, SameCount DEF Loans!GiveBack, LoanBorrowers

LEMMA CloseDiscards ==
    ASSUME LoanInv, NoneAstray', NEW t \in Threads, held[t] # NoConn, Drop(t),
           Close(held[t]), UNCHANGED <<pool, closes>>
    PROVE  \E c \in Conns : Loans!Discard(t, c)
<1>1. TypeOK /\ ConnectionsHaveOneOwner /\ NoneAstray
  BY DEF LoanInv, IInv
<1>2. PICK c \in Conns : c = held[t]
  BY <1>1 DEF TypeOK
<1>3. /\ Borrowers(c) = {t} /\ Borrowers(c)' = {}
      /\ \A d \in Conns \ {c} : Borrowers(d)' = Borrowers(d)
  BY <1>1, <1>2, DroppingReturns
<1>4. InHand(c) /\ ~ Pooled(c) /\ link[c] # "closed"
  BY <1>1, <1>2 DEF InHand, ConnectionsHaveOneOwner
<1>5. \A d \in Conns : Pooled(d)' <=> Pooled(d)
  BY DEF Pooled
<1>6. \A d \in Conns : link'[d] = IF d = c THEN "closed" ELSE link[d]
  BY <1>1, <1>2 DEF Close, TypeOK
<1>7. \A d \in Conns \ {c} : SameLoan(d)
  BY <1>3, <1>5, <1>6, LoanStays
<1>8. PlaceOf(c) = "lent" /\ PlaceOf(c)' = "closed"
  BY <1>1, <1>4, <1>6 DEF NoneAstray
<1>9. Loans!Move(c, "lent", "closed", {})
  BY <1>3, <1>7, <1>8, OneLoanMoves
<1>10. QED
  BY <1>3, <1>9 DEF Loans!Discard, LoanBorrowers

LEMMA DrainEvicts ==
    ASSUME LoanInv, NoneAstray', pool # <<>>, pool' = Tail(pool), Close(Head(pool)),
           UNCHANGED <<held, closes>>
    PROVE  \E c \in Conns : Loans!Evict(c)
<1>1. TypeOK /\ ConnectionsHaveOneOwner /\ NoneAstray
  BY DEF LoanInv, IInv
<1>2. PICK c \in Conns : c = Head(pool)
  BY <1>1, TailOfQueue
<1>3. /\ \A d \in Conns : Pooled(d)' <=> Pooled(d) /\ d # c
      /\ Pooled(c) /\ ~ InHand(c)
  BY <1>1, <1>2, HeadLeaves
<1>4. \A d \in Conns : Borrowers(d)' = Borrowers(d)
  BY DEF Borrowers
<1>5. \A d \in Conns : link'[d] = IF d = c THEN "closed" ELSE link[d]
  BY <1>1, <1>2 DEF Close, TypeOK
<1>6. \A d \in Conns \ {c} : SameLoan(d)
  BY <1>3, <1>4, <1>5, LoanStays
<1>7. Borrowers(c)' = {} /\ link[c] # "closed"
  BY <1>1, <1>3, <1>4 DEF NoneAstray, ConnectionsHaveOneOwner
<1>8. PlaceOf(c) = "pooled" /\ PlaceOf(c)' = "closed"
  BY <1>1, <1>3, <1>5, <1>7 DEF NoneAstray
<1>9. Loans!Move(c, "pooled", "closed", {})
  BY <1>6, <1>7, <1>8, OneLoanMoves
<1>10. QED
  BY <1>9 DEF Loans!Evict

LEMMA LendingInit == Init => Loans!Init
<1> SUFFICES ASSUME Init PROVE Loans!Init
  OBVIOUS
<1>1. ASSUME NEW c \in Conns
      PROVE  PlaceOf(c) = "closed" /\ Borrowers(c) = {}
  <2>1. link[c] = "closed" /\ ~ Pooled(c)
    BY DEF Init, Pooled
  <2>2. Borrowers(c) = {}
    BY ConnsAssumption DEF Init, Borrowers
  <2>3. QED
    BY <2>1, <2>2 DEF PlaceOf
<1>2. closes = 0
  BY DEF Init
<1>3. QED
  BY <1>1, <1>2 DEF Loans!Init

LEMMA LendingNext == LoanInv /\ NoneAstray' /\ [Next]_vars => [Loans!Next]_(Loans!lendingVars)
<1> SUFFICES ASSUME LoanInv, NoneAstray', [Next]_vars
             PROVE  Loans!Next \/ UNCHANGED Loans!lendingVars
  OBVIOUS
<1>1. \A t \in Threads : held[t] # NoConn <=> pc[t] \in Carrying
  BY DEF LoanInv, IInv, HandsAreFull
<1>2. ASSUME NEW t \in Threads, Acquire(t) \/ GetLate(t)
      PROVE  Loans!Next \/ UNCHANGED Loans!lendingVars
  <2>1. held[t] = NoConn /\ UNCHANGED <<link, closes>>
    BY <1>1, <1>2 DEF Acquire, GetLate, Carrying
  <2>2. ASSUME NEW place, Take(t, place)
        PROVE  Loans!Next
    BY <2>1, <2>2, TakeLends DEF Loans!Next
  <2>3. ASSUME UNCHANGED <<pool, held>>
        PROVE  UNCHANGED Loans!lendingVars
    BY <2>1, <2>3, AllLoansStay
  <2>4. QED
    BY <1>2, <2>2, <2>3 DEF Acquire, GetLate
<1>3. ASSUME NEW t \in Threads, Validate(t) \/ Check(t)
      PROVE  Loans!Next \/ UNCHANGED Loans!lendingVars
  <2>1. held[t] # NoConn /\ UNCHANGED <<pool, closes>>
    BY <1>1, <1>3 DEF Validate, Check, Carrying
  <2>2. ASSUME Close(held[t]), Drop(t)
        PROVE  Loans!Next
    BY <2>1, <2>2, CloseDiscards DEF Loans!Next
  <2>3. ASSUME UNCHANGED <<link, held>>
        PROVE  UNCHANGED Loans!lendingVars
    BY <2>1, <2>3, AllLoansStay
  <2>4. QED
    BY <1>3, <2>2, <2>3 DEF Validate, Check
<1>4. ASSUME NEW t \in Threads, Create(t)
      PROVE  Loans!Next \/ UNCHANGED Loans!lendingVars
  <2>1. CASE link' # link
    BY <1>4, <2>1, CreateOpens DEF Loans!Next
  <2>2. CASE link' = link
    <3>1. UNCHANGED <<pool, held, closes>>
      BY <1>4, <2>2 DEF Create, LoanInv, IInv, TypeOK
    <3>2. QED
      BY <2>2, <3>1, AllLoansStay
  <2>3. QED
    BY <2>1, <2>2
<1>5. ASSUME NEW t \in Threads, Put(t)
      PROVE  Loans!Next
  <2>1. held[t] # NoConn /\ Drop(t) /\ UNCHANGED closes
    BY <1>1, <1>5 DEF Put, Carrying
  <2>2. QED
    BY <1>5, <2>1, ReturnGivesBack, CloseDiscards DEF Put, Loans!Next
<1>6. ASSUME NEW t \in Threads, Drain(t)
      PROVE  Loans!Next \/ UNCHANGED Loans!lendingVars
  <2>1. UNCHANGED <<held, closes>>
    BY <1>6 DEF Drain
  <2>2. ASSUME pool # <<>>, pool' = Tail(pool), Close(Head(pool))
        PROVE  Loans!Next
    BY <2>1, <2>2, DrainEvicts DEF Loans!Next
  <2>3. ASSUME UNCHANGED <<link, pool>>
        PROVE  UNCHANGED Loans!lendingVars
    BY <2>1, <2>3, AllLoansStay
  <2>4. QED
    BY <1>6, <2>2, <2>3 DEF Drain, AfterGet
<1>7. ASSUME NEW t \in Threads, Reset(t)
      PROVE  Loans!Next
  <2>1. closes' = closes + 1 /\ UNCHANGED <<link, pool, held>>
    BY <1>7 DEF Reset
  <2>2. \A c \in Conns : SameLoan(c)
    BY <2>1 DEF SameLoan, PlaceOf, Borrowers, Pooled
  <2>3. QED
    BY <2>1, <2>2 DEF Loans!Next, Loans!Reset, SameLoan
<1>8. ASSUME NEW t \in Threads,
             \/ Count(t) \/ FindNoRoom(t) \/ TimeOut(t) \/ Release(t)
             \/ Uncount(t) \/ StartClosing(t)
      PROVE  UNCHANGED Loans!lendingVars
  BY <1>8, AllLoansStay DEF Count, FindNoRoom, TimeOut, Release, Uncount, StartClosing
<1>9. ASSUME NEW c \in Conns, Cut(c)
      PROVE  UNCHANGED Loans!lendingVars
  BY <1>9, AllLoansStay DEF Cut, LoanInv, IInv, TypeOK
<1>10. CASE UNCHANGED vars
  BY <1>10, AllLoansStay DEF vars
<1>11. CASE Next
  BY <1>2, <1>3, <1>4, <1>5, <1>6, <1>7, <1>8, <1>9, <1>11 DEF Next, Continue
<1>12. QED
  BY <1>10, <1>11

(* For any number of threads, connections, slots and calls of close_all,   *)
(* the pool implements Lending: a connection is borrowed by one thread at  *)
(* a time and returned by that one, the queue keeps to its size, and none  *)
(* is opened beyond the limit (connection.py:86-128, 163-174).             *)
THEOREM PoolImplementsLending == Spec => ImplementsLending
<1>1. IInv => NoneAstray
  BY OneOwnerOnePlace DEF IInv
<1>2. Spec => []LoanInv
  BY <1>1, Invariance, PTL DEF LoanInv
<1>3. LoanInv => NoneAstray
  BY DEF LoanInv
<1>4. QED
  BY LendingInit, LendingNext, <1>2, <1>3, PTL DEF Spec, ImplementsLending, Loans!Spec

=============================================================================
