--------------------------- MODULE ConnPoolProofs ---------------------------
(***************************************************************************)
(* Proofs about ConnPool, for any number of threads and connections: the   *)
(* mutexes protect what they are meant to, and the pool is a Pool.         *)
(***************************************************************************)
EXTENDS ConnPool, TLAPS

-----------------------------------------------------------------------------
(* The inductive invariant *)

\* Who is past the mutex of a connection holds it.
HoldersOwn == \A t \in Threads : pc[t] \in Holding => owner[slot[t]] = t

\* Who is at the index of the pool holds the mutex of the pool.
ChoosersOwn ==
    \A t \in Threads : pc[t] \in {"choose", "advance", "wrap"} => poolOwner = t

PoolInv == TypeOK /\ HoldersOwn /\ ChoosersOwn /\ UsersHaveHandles

\* The index stays in range in a step that does not write it and neither
\* begins nor ends with the thread at its check.
LEMMA IndexKept ==
    ASSUME TypeOK, NEW t \in Threads, NEW to \in Steps \ {"wrap"},
           pc[t] # "wrap", pc' = [pc EXCEPT ![t] = to], connIndex' = connIndex
    PROVE  IndexInRange'
<1>1. \A u \in Threads : pc[u] = "wrap" <=> pc'[u] = "wrap"
  BY DEF TypeOK
<1> QED
  BY <1>1 DEF TypeOK, IndexInRange

\* What the index can do without leaving its range.
LEMMA IndexArithmetic ==
    ASSUME NEW i \in 0 .. Size
    PROVE  /\ 0 \in 0 .. Size /\ 0 # Size
           /\ i # Size => i \in Slots /\ i + 1 \in 0 .. Size
           /\ i + 1 # 0
           /\ i >= Size => i = Size
BY PoolAssumption DEF Slots

\* It holds of a pool that nobody has used.
LEMMA InitPoolInv == Init => PoolInv
BY PoolAssumption
   DEF Init, IndexInRange, PoolInv, TypeOK, HoldersOwn, ChoosersOwn, UsersHaveHandles,
       Holding, Steps, Slots, Closed

\* The first half of lockConnection keeps it: asking and trying.
LEMMA TryPoolInv ==
    ASSUME PoolInv, NEW t \in Threads, GetConnection(t) \/ TryLock(t)
    PROVE  PoolInv'
<1>1. CASE GetConnection(t)
  <2>1. IndexInRange'
    BY <1>1, IndexKept DEF GetConnection, Go, Steps, PoolInv
  <2>2. asks' \in [Threads -> 0 .. MaxAsks]
    <3>1. asks[t] + 1 \in 0 .. MaxAsks
      BY <1>1, PoolAssumption DEF GetConnection, PoolInv, TypeOK
    <3> QED
      BY <1>1, <3>1 DEF GetConnection, PoolInv, TypeOK
  <2>3. slot' \in [Threads -> Slots]
    <3>1. 0 \in Slots
      BY PoolAssumption DEF Slots
    <3> QED
      BY <1>1, <3>1 DEF GetConnection, PoolInv, TypeOK
  <2>4. TypeOK'
    BY <1>1, <2>1, <2>2, <2>3 DEF GetConnection, Go, Steps, PoolInv, TypeOK
  <2>5. (HoldersOwn /\ ChoosersOwn /\ UsersHaveHandles)'
    BY <1>1 DEF GetConnection, Go, Holding, PoolInv, TypeOK,
                HoldersOwn, ChoosersOwn, UsersHaveHandles
  <2> QED
    BY <2>4, <2>5 DEF PoolInv
<1>2. CASE TryLock(t)
  <2>1. PICK to \in Steps \ {"wrap"} : pc' = [pc EXCEPT ![t] = to]
    <3>1. pc = [pc EXCEPT ![t] = "try"]
      BY <1>2 DEF TryLock, PoolInv, TypeOK
    <3> QED
      BY <1>2, <3>1 DEF TryLock, Go, Steps
  <2>2. IndexInRange'
    BY <1>2, <2>1, IndexKept DEF TryLock, PoolInv
  <2>3. slot' \in [Threads -> Slots]
    <3>1. slot[t] \in Slots
      BY DEF PoolInv, TypeOK
    <3>2. slot[t] + 1 < Size => slot[t] + 1 \in Slots
      BY <3>1, PoolAssumption DEF Slots
    <3> QED
      BY <1>2, <3>2 DEF TryLock, PoolInv, TypeOK
  <2>4. owner' \in [Slots -> Threads \cup {NoThread}]
    BY <1>2 DEF TryLock, PoolInv, TypeOK
  <2>5. TypeOK'
    BY <1>2, <2>1, <2>2, <2>3, <2>4 DEF TryLock, PoolInv, TypeOK
  <2>6. HoldersOwn'
    <3>1. CASE owner[slot[t]] = NoThread
      BY <1>2, <3>1, PoolAssumption
         DEF TryLock, Go, Holding, PoolInv, TypeOK, HoldersOwn
    <3>2. CASE owner[slot[t]] # NoThread
      BY <1>2, <3>2 DEF TryLock, Go, Holding, PoolInv, TypeOK, HoldersOwn
    <3> QED
      BY <3>1, <3>2
  <2>7. (ChoosersOwn /\ UsersHaveHandles)'
    <3>1. CASE owner[slot[t]] = NoThread
      BY <1>2, <3>1 DEF TryLock, Go, PoolInv, TypeOK, ChoosersOwn, UsersHaveHandles
    <3>2. CASE owner[slot[t]] # NoThread
      BY <1>2, <3>2 DEF TryLock, Go, PoolInv, TypeOK, ChoosersOwn, UsersHaveHandles
    <3> QED
      BY <3>1, <3>2
  <2> QED
    BY <2>5, <2>6, <2>7 DEF PoolInv
<1> QED
  BY <1>1, <1>2

\* The second half keeps it: choosing round robin and waiting. The index is
\* past its end only between two steps under the mutex of the pool.
LEMMA ChoosePoolInv ==
    ASSUME PoolInv, NEW t \in Threads,
           LockPool(t) \/ Choose(t) \/ Advance(t) \/ Wrap(t) \/ WaitForSlot(t)
    PROVE  PoolInv'
<1> USE PoolAssumption
    DEF PoolInv, TypeOK, HoldersOwn, ChoosersOwn, UsersHaveHandles, Holding, Steps, Go
<1>1. CASE LockPool(t)
  BY <1>1, IndexKept DEF LockPool, PoolIsFree
<1>2. CASE Choose(t)
  <2>1. \A u \in Threads : pc[u] # "wrap"
    BY <1>2 DEF Choose
  <2>2. connIndex \in 0 .. Size /\ connIndex # Size
    BY <2>1 DEF IndexInRange
  <2>3. connIndex \in Slots
    BY <2>2, IndexArithmetic
  <2> QED
    BY <1>2, <2>3, IndexKept DEF Choose
<1>3. CASE Advance(t)
  <2>1. \A u \in Threads : pc[u] # "wrap"
    BY <1>3 DEF Advance
  <2>2. pc'[t] = "wrap"
    BY <1>3 DEF Advance
  <2>3. connIndex' \in 0 .. Size
    <3>1. connIndex \in 0 .. Size /\ connIndex # Size
      BY <2>1 DEF IndexInRange
    <3>2. connIndex + 1 \in 0 .. Size
      BY <3>1, IndexArithmetic
    <3> QED
      BY <1>3, <3>2 DEF Advance
  <2>4. connIndex' # 0
    <3>1. connIndex \in 0 .. Size
      BY DEF IndexInRange
    <3>2. connIndex + 1 # 0
      BY <3>1, IndexArithmetic
    <3> QED
      BY <1>3, <3>2 DEF Advance
  <2>5. IndexInRange'
    BY <2>2, <2>3, <2>4 DEF IndexInRange
  <2> QED
    BY <1>3, <2>5 DEF Advance
<1>4. CASE Wrap(t)
  <2>1. connIndex' \in 0 .. Size /\ connIndex' # Size
    <3>1. connIndex \in 0 .. Size
      BY DEF IndexInRange
    <3>2. connIndex' = IF connIndex >= Size THEN 0 ELSE connIndex
      BY <1>4 DEF Wrap
    <3>3. connIndex >= Size => connIndex = Size
      BY <3>1, IndexArithmetic
    <3>4. 0 \in 0 .. Size /\ 0 # Size
      BY <3>1, IndexArithmetic
    <3>5. CASE connIndex = Size /\ connIndex >= Size
      BY <3>2, <3>4, <3>5
    <3>6. CASE connIndex # Size /\ ~ (connIndex >= Size)
      BY <3>1, <3>2, <3>6
    <3>7. connIndex = Size => connIndex >= Size
      BY ONLY PoolAssumption
    <3> QED
      BY <3>3, <3>5, <3>6, <3>7
  <2>2. \A u \in Threads : pc'[u] # "wrap"
    BY <1>4 DEF Wrap
  <2>3. IndexInRange'
    BY <2>1, <2>2 DEF IndexInRange
  <2> QED
    BY <1>4, <2>3 DEF Wrap
<1>5. CASE WaitForSlot(t)
  <2>1. TypeOK'
    BY <1>5, IndexKept DEF WaitForSlot
  <2>2. (HoldersOwn /\ ChoosersOwn /\ UsersHaveHandles)'
    BY <1>5 DEF WaitForSlot
  <2> QED
    BY <2>1, <2>2
<1> QED
  BY <1>1, <1>2, <1>3, <1>4, <1>5

\* What a thread does with the connection it holds keeps it: a handle is
\* opened and closed by the owner of its mutex only.
LEMMA HoldPoolInv ==
    ASSUME PoolInv, NEW t \in Threads,
           Check(t) \/ Connect(t) \/ Release(t) \/ Close(t) \/ Unlock(t)
    PROVE  PoolInv'
<1> USE PoolAssumption
    DEF PoolInv, TypeOK, HoldersOwn, ChoosersOwn, UsersHaveHandles,
        Holding, Steps, Slots, Go, Closed, Alive, Broken
<1>1. CASE Check(t)
  BY <1>1, IndexKept DEF Check
<1>2. CASE Connect(t)
  <2>1. TypeOK'
    BY <1>2, IndexKept DEF Connect
  <2>2. (HoldersOwn /\ ChoosersOwn /\ UsersHaveHandles)'
    BY <1>2 DEF Connect
  <2> QED
    BY <2>1, <2>2
<1>3. CASE Release(t)
  BY <1>3, IndexKept DEF Release, AfterStep
<1>4. CASE Close(t)
  <2>1. TypeOK'
    BY <1>4, IndexKept DEF Close, AfterStep
  <2>2. (HoldersOwn /\ ChoosersOwn /\ UsersHaveHandles)'
    BY <1>4 DEF Close, AfterStep
  <2> QED
    BY <2>1, <2>2
<1>5. CASE Unlock(t)
  <2>1. TypeOK'
    BY <1>5, IndexKept DEF Unlock, AfterStep
  <2>2. (HoldersOwn /\ ChoosersOwn /\ UsersHaveHandles)'
    BY <1>5 DEF Unlock, AfterStep
  <2> QED
    BY <2>1, <2>2
<1> QED
  BY <1>1, <1>2, <1>3, <1>4, <1>5

\* The database keeps it: a session it drops leaves the handle in place.
LEMMA DatabasePoolInv ==
    ASSUME PoolInv,
           \/ \E s \in Slots : SessionDropped(s)
           \/ DatabaseStops
           \/ DatabaseStarts
    PROVE  PoolInv'
<1> USE PoolAssumption
    DEF PoolInv, TypeOK, HoldersOwn, ChoosersOwn, UsersHaveHandles, Drop, IndexInRange,
        threadVars, Closed, Alive, Broken
<1>1. CASE \E s \in Slots : SessionDropped(s)
  BY <1>1 DEF SessionDropped
<1>2. CASE DatabaseStops
  <2>1. \A s \in Slots : handle'[s] = Closed => handle[s] = Closed
    BY <1>2 DEF DatabaseStops
  <2>2. handle' \in [Slots -> {Closed, Alive, Broken}]
    BY <1>2 DEF DatabaseStops
  <2>3. faults' \in 0 .. MaxFaults
    BY <1>2 DEF DatabaseStops
  <2>4. UsersHaveHandles'
    BY <1>2, <2>1 DEF DatabaseStops
  <2> QED
    BY <1>2, <2>2, <2>3, <2>4 DEF DatabaseStops
<1>3. CASE DatabaseStarts
  BY <1>3 DEF DatabaseStarts
<1> QED
  BY <1>1, <1>2, <1>3

\* Every step keeps it.
LEMMA NextPoolInv == PoolInv /\ [Next]_vars => PoolInv'
<1> SUFFICES ASSUME PoolInv, [Next]_vars PROVE PoolInv'
  OBVIOUS
<1>1. CASE \E t \in Threads : GetConnection(t) \/ Step(t)
  BY <1>1, TryPoolInv, ChoosePoolInv, HoldPoolInv DEF Step
<1>2. CASE (\E s \in Slots : SessionDropped(s)) \/ DatabaseStops \/ DatabaseStarts
  BY <1>2, DatabasePoolInv
<1>3. CASE UNCHANGED vars
  BY <1>3 DEF vars, threadVars, PoolInv, TypeOK, HoldersOwn, ChoosersOwn,
              UsersHaveHandles, IndexInRange
<1> QED
  BY <1>1, <1>2, <1>3 DEF Next

-----------------------------------------------------------------------------
(* The pool is a Pool *)

\* A thread that takes a free mutex is given a connection nobody holds.
LEMMA GiveHeld ==
    ASSUME PoolInv, NEW t \in Threads, pc[t] \in Asking,
           owner[slot[t]] = NoThread,
           pc' = [pc EXCEPT ![t] = "check"], slot' = slot
    PROVE  \E c \in Slots : P!Give(t, c)
<1> USE DEF PoolInv, TypeOK, Holding, Asking
<1>1. slot[t] \in Slots /\ \A u \in DOMAIN Held : Held[u] # slot[t]
  BY PoolAssumption DEF HoldersOwn, Held
<1>2. Held' = [u \in DOMAIN Held \cup {t} |-> IF u = t THEN slot[t] ELSE Held[u]]
  BY DEF Held
<1>3. {u \in Threads : pc[u] \in Asking}' = {u \in Threads : pc[u] \in Asking} \ {t}
  OBVIOUS
<1> QED
  BY <1>1, <1>2, <1>3 DEF P!Give

\* A thread that goes on asking, or on holding what it holds, changes nothing.
LEMMA SameHeld ==
    ASSUME PoolInv, NEW t \in Threads, NEW to \in Steps,
           pc' = [pc EXCEPT ![t] = to],
           \/ pc[t] \in Asking /\ to \in Asking
           \/ pc[t] \in Holding /\ to \in Holding,
           \A u \in Threads : pc[u] \in Holding => slot'[u] = slot[u]
    PROVE  UNCHANGED P!vars
<1> USE DEF PoolInv, TypeOK, Holding, Asking, Steps
<1>1. {u \in Threads : pc[u] \in Asking}' = {u \in Threads : pc[u] \in Asking}
  OBVIOUS
<1>2. {u \in Threads : pc[u] \in Holding}' = {u \in Threads : pc[u] \in Holding}
  OBVIOUS
<1>3. Held' = Held
  BY <1>2 DEF Held
<1> QED
  BY <1>1, <1>3 DEF P!vars

\* Every step of a thread is a step of the abstract pool or changes nothing.
LEMMA ThreadPool ==
    ASSUME PoolInv, NEW t \in Threads, GetConnection(t) \/ Step(t)
    PROVE  P!Next \/ UNCHANGED P!vars
<1> USE DEF PoolInv, TypeOK, Steps, Go
<1>1. CASE GetConnection(t)
  <2>1. t \notin {u \in Threads : pc[u] \in Asking} \cup DOMAIN Held
    BY <1>1 DEF GetConnection, Asking, Holding, Held
  <2>2. {u \in Threads : pc[u] \in Asking}' = {u \in Threads : pc[u] \in Asking} \cup {t}
    BY <1>1 DEF GetConnection, Asking
  <2>3. {u \in Threads : pc[u] \in Holding}' = {u \in Threads : pc[u] \in Holding}
    BY <1>1 DEF GetConnection, Holding
  <2>4. Held' = Held
    BY <1>1, <2>3 DEF GetConnection, Held, Holding
  <2> QED
    BY <2>1, <2>2, <2>4 DEF P!Ask, P!Next
<1>2. CASE TryLock(t) /\ owner[slot[t]] = NoThread
  BY <1>2, GiveHeld DEF TryLock, Asking, P!Next
<1>3. CASE TryLock(t) /\ owner[slot[t]] # NoThread
  <2>1. PICK to \in {"try", "lock pool"} : pc' = [pc EXCEPT ![t] = to]
    BY <1>3 DEF TryLock
  <2>2. \A u \in Threads : pc[u] \in Holding => slot'[u] = slot[u]
    BY <1>3 DEF TryLock, Holding
  <2> QED
    BY <1>3, <2>1, <2>2, SameHeld DEF TryLock, Asking
<1>4. CASE LockPool(t) \/ Advance(t) \/ Wrap(t)
  BY <1>4, SameHeld DEF LockPool, Advance, Wrap, Asking
<1>5. CASE Choose(t)
  <2>1. \A u \in Threads : pc[u] \in Holding => slot'[u] = slot[u]
    BY <1>5 DEF Choose, Holding
  <2> QED
    BY <1>5, <2>1, SameHeld DEF Choose, Asking
<1>6. CASE WaitForSlot(t)
  BY <1>6, GiveHeld DEF WaitForSlot, Asking, P!Next
<1>7. CASE Check(t) \/ Connect(t)
  BY <1>7, SameHeld DEF Check, Connect, Holding
<1>8. CASE Release(t) \/ Close(t)
  BY <1>8, PoolAssumption, SameHeld DEF Release, Close, AfterStep, Holding
<1>9. CASE Unlock(t)
  <2>1. t \in DOMAIN Held
    BY <1>9 DEF Unlock, Held, Holding
  <2>2. {u \in Threads : pc[u] \in Holding}' = {u \in Threads : pc[u] \in Holding} \ {t}
    BY <1>9 DEF Unlock, AfterStep, Holding
  <2>3. Held' = [u \in DOMAIN Held \ {t} |-> Held[u]]
    BY <1>9, <2>2 DEF Unlock, Held
  <2>4. {u \in Threads : pc[u] \in Asking}' = {u \in Threads : pc[u] \in Asking}
    BY <1>9 DEF Unlock, AfterStep, Asking
  <2> QED
    BY <2>1, <2>3, <2>4 DEF P!Return, P!Next
<1> QED
  BY <1>1, <1>2, <1>3, <1>4, <1>5, <1>6, <1>7, <1>8, <1>9 DEF Step

\* Every step is a step of the abstract pool or changes nothing in it.
LEMMA NextPool == PoolInv /\ [Next]_vars => [P!Next]_(P!vars)
<1> SUFFICES ASSUME PoolInv, [Next]_vars PROVE P!Next \/ UNCHANGED P!vars
  OBVIOUS
<1>1. CASE \E t \in Threads : GetConnection(t) \/ Step(t)
  BY <1>1, ThreadPool
<1>2. CASE UNCHANGED threadVars
  BY <1>2 DEF threadVars, P!vars, Held
<1> QED
  BY <1>1, <1>2 DEF Next, SessionDropped, DatabaseStops, DatabaseStarts, vars

\* A pool that nobody has used is an abstract pool that nobody has used.
LEMMA InitPool == Init => P!Init
<1> SUFFICES ASSUME Init PROVE P!Init
  OBVIOUS
<1>1. {t \in Threads : pc[t] \in Asking} = {}
  BY DEF Init, Asking
<1>2. {t \in Threads : pc[t] \in Holding} = {}
  BY DEF Init, Holding
<1>3. Held = << >>
  BY <1>2 DEF Held
<1> QED
  BY <1>1, <1>3 DEF P!Init

-----------------------------------------------------------------------------
(* Theorems *)

\* The inductive invariant holds always.
THEOREM PoolInvariance == Spec => []PoolInv
BY InitPoolInv, NextPoolInv, PTL DEF Spec

\* The index of the pool is in range whenever it is used, always.
THEOREM PoolTypeCorrect == Spec => []TypeOK
<1>1. PoolInv => TypeOK
  BY DEF PoolInv
<1> QED
  BY <1>1, PoolInvariance, PTL

\* Nobody closes the connection that another thread was handed, ever.
THEOREM HandlesCorrect == Spec => []UsersHaveHandles
<1>1. PoolInv => UsersHaveHandles
  BY DEF PoolInv
<1> QED
  BY <1>1, PoolInvariance, PTL

\* Mutexes and round robin implement a pool: one user for each connection.
THEOREM PoolCorrect == Spec => RefinesPool
BY InitPool, NextPool, PoolInvariance, PTL DEF Spec, RefinesPool, P!Spec
=============================================================================
