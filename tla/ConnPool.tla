------------------------------ MODULE ConnPool ------------------------------
(***************************************************************************)
(* The pool of database connections (mysqlconn.cpp, connection_pool.cpp).  *)
(* A thread tries the mutex of every connection in turn; when all are      *)
(* taken it waits for one chosen round robin, under the mutex of the pool. *)
(* It then reconnects until the connection answers a ping, and gives it    *)
(* back by unlocking it, closing it first if the pool is told to.          *)
(*                                                                         *)
(* A step is a system call or an access to shared memory, so that threads  *)
(* interleave as they do in the code.                                      *)
(*                                                                         *)
(* Where a definition has a sibling with a longer name before it, the      *)
(* sibling is a deliberate fault that a property below must catch.         *)
(***************************************************************************)
EXTENDS Integers, FiniteSets

CONSTANTS
    Threads,
    Size,           \* connections in the pool
    CloseOnUnlock,  \* _do_closeconn_on_unlock
    NoThread,       \* owner of a free mutex
    MaxFaults,      \* bound: failures of the database
    MaxAsks         \* bound: connections a thread asks for

ASSUME PoolAssumption ==
    /\ Size \in Nat \ {0}
    /\ CloseOnUnlock \in BOOLEAN
    /\ NoThread \notin Threads
    /\ MaxFaults \in Nat
    /\ MaxAsks \in Nat

\* _connList
Slots == 0 .. Size - 1

VARIABLES
    owner,      \* who holds the mutex of each connection
    poolOwner,  \* who holds the mutex of the pool
    connIndex,  \* _connIndex
    handle,     \* each connection as its client sees it: no handle, a handle
                \* that answers, a handle whose session the server dropped
    up,         \* does the database accept connections?
    faults,     \* failures so far
    pc,         \* what each thread does next
    slot,       \* the connection it is at
    asks        \* what it asked for so far

threadVars == <<pc, slot, asks>>
vars == <<owner, poolOwner, connIndex, handle, up, faults, threadVars>>

Closed == "closed"
Alive  == "alive"
Broken == "broken"

Init ==
    /\ owner = [s \in Slots |-> NoThread]
    /\ poolOwner = NoThread
    /\ connIndex = 0
    /\ handle = [s \in Slots |-> Closed]
    /\ up = TRUE
    /\ faults = 0
    /\ pc = [t \in Threads |-> "idle"]
    /\ slot = [t \in Threads |-> 0]
    /\ asks = [t \in Threads |-> 0]

Go(t, to) == pc' = [pc EXCEPT ![t] = to]

-----------------------------------------------------------------------------
(* lockConnection *)

GetConnection(t) ==
    /\ pc[t] = "idle"
    /\ asks[t] < MaxAsks
    /\ Go(t, "try")
    /\ slot' = [slot EXCEPT ![t] = 0]
    /\ asks' = [asks EXCEPT ![t] = @ + 1]
    /\ UNCHANGED <<owner, poolOwner, connIndex, handle, up, faults>>

TryLock(t) ==
    /\ pc[t] = "try"
    /\ IF owner[slot[t]] = NoThread
       THEN /\ owner' = [owner EXCEPT ![slot[t]] = t]
            /\ Go(t, "check")
            /\ UNCHANGED slot
       ELSE /\ UNCHANGED owner
            /\ IF slot[t] + 1 < Size
               THEN slot' = [slot EXCEPT ![t] = @ + 1] /\ UNCHANGED pc
               ELSE Go(t, "lock pool") /\ UNCHANGED slot
    /\ UNCHANGED <<poolOwner, connIndex, handle, up, faults, asks>>

PoolIsFreeIgnored == TRUE

PoolIsFree == poolOwner = NoThread

LockPool(t) ==
    /\ pc[t] = "lock pool"
    /\ PoolIsFree
    /\ poolOwner' = t
    /\ Go(t, "choose")
    /\ UNCHANGED <<owner, connIndex, handle, up, faults, slot, asks>>

Choose(t) ==
    /\ pc[t] = "choose"
    /\ slot' = [slot EXCEPT ![t] = connIndex]
    /\ Go(t, "advance")
    /\ UNCHANGED <<owner, poolOwner, connIndex, handle, up, faults, asks>>

Advance(t) ==
    /\ pc[t] = "advance"
    /\ connIndex' = connIndex + 1
    /\ Go(t, "wrap")
    /\ UNCHANGED <<owner, poolOwner, handle, up, faults, slot, asks>>

\* connIndex starts again from zero, and the mutex of the pool is released.
Wrap(t) ==
    /\ pc[t] = "wrap"
    /\ connIndex' = IF connIndex >= Size THEN 0 ELSE connIndex
    /\ poolOwner' = NoThread
    /\ Go(t, "wait")
    /\ UNCHANGED <<owner, handle, up, faults, slot, asks>>

WaitForSlotWithoutLock(t) ==
    /\ pc[t] = "wait"
    /\ Go(t, "check")
    /\ UNCHANGED <<owner, poolOwner, connIndex, handle, up, faults, slot, asks>>

WaitForSlot(t) ==
    /\ pc[t] = "wait"
    /\ owner[slot[t]] = NoThread
    /\ owner' = [owner EXCEPT ![slot[t]] = t]
    /\ Go(t, "check")
    /\ UNCHANGED <<poolOwner, connIndex, handle, up, faults, slot, asks>>

\* is_connected() and ping(): the connection is handed out if both hold.
Check(t) ==
    /\ pc[t] = "check"
    /\ Go(t, IF handle[slot[t]] = Alive THEN "using" ELSE "connect")
    /\ UNCHANGED <<owner, poolOwner, connIndex, handle, up, faults, slot, asks>>

\* connect() drops the old handle first; it may fail, and is tried again.
Connect(t) ==
    /\ pc[t] = "connect"
    /\ handle' = [handle EXCEPT ![slot[t]] = IF up THEN Alive ELSE Closed]
    /\ Go(t, "check")
    /\ UNCHANGED <<owner, poolOwner, connIndex, up, faults, slot, asks>>

-----------------------------------------------------------------------------
(* release_connection *)

UnlockThenClose(step) ==
    CASE step = "using"  -> "unlock"
      [] step = "unlock" -> "close"
      [] step = "close"  -> "idle"

CloseWithoutUnlock(step) == IF step = "using" /\ CloseOnUnlock THEN "close" ELSE "idle"

\* The connection is closed while its mutex is still held.
AfterStep(step) ==
    CASE step = "using"  -> IF CloseOnUnlock THEN "close" ELSE "unlock"
      [] step = "close"  -> "unlock"
      [] step = "unlock" -> "idle"

Release(t) ==
    /\ pc[t] = "using"
    /\ Go(t, AfterStep("using"))
    /\ UNCHANGED <<owner, poolOwner, connIndex, handle, up, faults, slot, asks>>

Close(t) ==
    /\ pc[t] = "close"
    /\ handle' = [handle EXCEPT ![slot[t]] = Closed]
    /\ Go(t, AfterStep("close"))
    /\ UNCHANGED <<owner, poolOwner, connIndex, up, faults, slot, asks>>

Unlock(t) ==
    /\ pc[t] = "unlock"
    /\ owner' = [owner EXCEPT ![slot[t]] = NoThread]
    /\ Go(t, AfterStep("unlock"))
    /\ UNCHANGED <<poolOwner, connIndex, handle, up, faults, slot, asks>>

-----------------------------------------------------------------------------
(* The database *)

Drop(sessions) == [s \in Slots |-> IF s \in sessions /\ handle[s] = Alive
                                   THEN Broken ELSE handle[s]]

SessionDropped(s) ==
    /\ faults < MaxFaults
    /\ handle[s] = Alive
    /\ handle' = Drop({s})
    /\ faults' = faults + 1
    /\ UNCHANGED <<owner, poolOwner, connIndex, up, threadVars>>

DatabaseStops ==
    /\ faults < MaxFaults
    /\ up
    /\ up' = FALSE
    /\ handle' = Drop(Slots)
    /\ faults' = faults + 1
    /\ UNCHANGED <<owner, poolOwner, connIndex, threadVars>>

DatabaseStarts ==
    /\ ~ up
    /\ up' = TRUE
    /\ UNCHANGED <<owner, poolOwner, connIndex, handle, faults, threadVars>>

-----------------------------------------------------------------------------
Step(t) ==
    \/ TryLock(t) \/ LockPool(t) \/ Choose(t) \/ Advance(t) \/ Wrap(t)
    \/ WaitForSlot(t) \/ Check(t) \/ Connect(t)
    \/ Release(t) \/ Close(t) \/ Unlock(t)

Next ==
    \/ \E t \in Threads : GetConnection(t) \/ Step(t)
    \/ \E s \in Slots : SessionDropped(s)
    \/ DatabaseStops
    \/ DatabaseStarts

Spec == Init /\ [][Next]_vars

\* Threads are scheduled and give back what they use; the database comes back.
FairSpec ==
    /\ Spec
    /\ \A t \in Threads : WF_vars(Step(t))
    /\ WF_vars(DatabaseStarts)

-----------------------------------------------------------------------------
(* Properties *)

Steps == {"idle", "try", "lock pool", "choose", "advance", "wrap", "wait",
          "check", "connect", "using", "close", "unlock"}

\* connIndex is past the end of the list only under the mutex of the pool, and
\* nobody else resets it between a thread's increment and its own check.
IndexInRange ==
    /\ connIndex \in 0 .. Size
    /\ connIndex = Size => \E t \in Threads : pc[t] = "wrap"
    /\ connIndex = 0 => \A t \in Threads : pc[t] # "wrap"

\* Types; no thread ever takes a connection from past the end of the list.
TypeOK ==
    /\ owner \in [Slots -> Threads \cup {NoThread}]
    /\ poolOwner \in Threads \cup {NoThread}
    /\ IndexInRange
    /\ handle \in [Slots -> {Closed, Alive, Broken}]
    /\ up \in BOOLEAN
    /\ faults \in 0 .. MaxFaults
    /\ pc \in [Threads -> Steps]
    /\ slot \in [Threads -> Slots]
    /\ asks \in [Threads -> 0 .. MaxAsks]

\* A thread to which a connection was handed out has a handle to work with
\* until it gives it back: nobody else closes it.
UsersHaveHandles ==
    \A t \in Threads : pc[t] = "using" => handle[slot[t]] # Closed

Holding == {"check", "connect", "using", "close", "unlock"}
Asking  == {"try", "lock pool", "choose", "advance", "wrap", "wait"}

Held == [t \in {u \in Threads : pc[u] \in Holding} |-> slot[t]]

P == INSTANCE Pool WITH
    Connections <- Slots,
    asking <- {t \in Threads : pc[t] \in Asking},
    held <- Held

\* Mutexes, index and reconnection together make a pool: a connection has one
\* user at a time, and only those who asked get one.
RefinesPool == P!Spec

\* No thread waits for ever, though it waits for one connection only and has
\* no place in a queue: as others ask a bounded number of times, all have been
\* served and have given back what they got, again and again.
AskersAreServed == []<>(\A t \in Threads : pc[t] = "idle")

=============================================================================
