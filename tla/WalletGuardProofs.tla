-------------------------- MODULE WalletGuardProofs --------------------------
(***************************************************************************)
(* Proofs about WalletGuard, for any number of nodes, wallets, jobs and    *)
(* failures: what is unlocked is guarded or was left behind, and without   *)
(* failures and without two nodes at one wallet the guard always works.    *)
(***************************************************************************)
EXTENDS WalletGuard, TLAPS

Exceptions ==
    {"none", "unsatisfied_authorization"} \union {CallThrows(a) : a \in Answers}

PCs == Calling \union {"idle", "down"}

-----------------------------------------------------------------------------
(* Types *)

\* What a job looks like.
LEMMA JobTyped ==
    ASSUME NEW j \in Jobs
    PROVE  /\ DOMAIN j.pairs = 1 .. Len(j.pairs) /\ Len(j.pairs) \in Nat
           /\ \A i \in DOMAIN j.pairs : j.pairs[i].wallet \in Wallets
           /\ j.needs \subseteq Wallets
           /\ j.pairs # <<>> => 1 \in DOMAIN j.pairs
<1>1. /\ j.pairs \in Seq([wallet : Wallets, right : BOOLEAN])
      /\ j.needs \in SUBSET Wallets
  BY GuardAssumption
<1>2. DOMAIN j.pairs = 1 .. Len(j.pairs) /\ Len(j.pairs) \in Nat
  BY <1>1
<1>3. \A i \in DOMAIN j.pairs : j.pairs[i] \in [wallet : Wallets, right : BOOLEAN]
  BY <1>1, <1>2, \A T : \A s \in Seq(T) : \A i \in 1 .. Len(s) : s[i] \in T
<1>4. j.pairs # <<>> => Len(j.pairs) # 0
  BY <1>1
<1> QED
  BY <1>1, <1>2, <1>3, <1>4

\* A node's move: it goes to p, at the i-th wallet, with the exception e.
Moves(n, p, i, e) ==
    /\ pc' = [pc EXCEPT ![n] = p]
    /\ at' = [at EXCEPT ![n] = i]
    /\ thrown' = [thrown EXCEPT ![n] = e]
    /\ p \in {"open", "unlock", "lock"} => i \in DOMAIN job[n].pairs

\* A node that ends is idle or down.
LEMMA EndMoves ==
    ASSUME NEW n \in Nodes, NEW e, End(n, e)
    PROVE  \E p \in {"idle", "down"} : pc' = [pc EXCEPT ![n] = p]
BY DEF End

\* The destructor begins with the first wallet, if there is one.
LEMMA LockMoves ==
    ASSUME TypeOK, NEW n \in Nodes, NEW e, Lock(n, e)
    PROVE  \E p \in PCs, i \in Nat : Moves(n, p, i, e)
<1>1. job[n] \in Jobs /\ at = [at EXCEPT ![n] = at[n]] /\ at[n] \in Nat
  BY DEF TypeOK
<1>2. CASE job[n].pairs = <<>>
  <2>1. PICK p \in {"idle", "down"} : pc' = [pc EXCEPT ![n] = p]
    BY <1>2, EndMoves DEF Lock
  <2> QED
    BY <1>1, <1>2, <2>1 DEF Lock, Moves, PCs
<1>3. CASE job[n].pairs # <<>>
  <2>1. Moves(n, "lock", 1, e)
    BY <1>1, <1>3, JobTyped DEF Lock, Moves
  <2> QED
    BY <2>1 DEF PCs, Calling
<1> QED
  BY <1>2, <1>3

\* Returning from a call is a move.
LEMMA ReturnMoves ==
    ASSUME TypeOK, NEW n \in Nodes, Return(n)
    PROVE  \E p \in PCs, i \in Nat, e \in Exceptions : Moves(n, p, i, e)
<1>1. /\ job[n] \in Jobs /\ pc = [pc EXCEPT ![n] = pc[n]]
      /\ at = [at EXCEPT ![n] = at[n]] /\ at[n] \in Nat
      /\ thrown = [thrown EXCEPT ![n] = thrown[n]] /\ thrown[n] \in Exceptions
      /\ pc[n] \in {"open", "unlock", "lock"} => at[n] \in DOMAIN job[n].pairs
  BY DEF TypeOK, Exceptions
<1>2. at[n] < Len(job[n].pairs) => at[n] + 1 \in DOMAIN job[n].pairs
  BY <1>1, JobTyped
<1>3. CASE pc[n] = "open"
  <2>1. Moves(n, "unlock", at[n], thrown[n])
    BY <1>1, <1>3 DEF Return, Moves
  <2> QED
    BY <1>1, <2>1 DEF PCs, Calling
<1>4. CASE pc[n] = "unlock"
  <2>1. Moves(n, AfterUnlock(n), at[n] + 1, thrown[n])
    BY <1>1, <1>2, <1>4 DEF Return, Moves, AfterUnlock
  <2>2. AfterUnlock(n) \in PCs
    BY DEF AfterUnlock, PCs, Calling
  <2> QED
    BY <1>1, <2>1, <2>2
<1>5. CASE pc[n] = "keys"
  <2>1. CASE job[n].needs \subseteq unlocked
    <3>1. Moves(n, "sign", at[n], thrown[n])
      BY <1>1, <1>5, <2>1 DEF Return, Moves
    <3> QED
      BY <1>1, <3>1 DEF PCs, Calling
  <2>2. CASE ~(job[n].needs \subseteq unlocked)
    <3>1. Lock(n, "unsatisfied_authorization")
      BY <1>5, <2>2 DEF Return
    <3> QED
      BY <3>1, LockMoves DEF Exceptions
  <2> QED
    BY <2>1, <2>2
<1>6. CASE pc[n] = "sign"
  <2>1. Lock(n, "none")
    BY <1>6 DEF Return
  <2> QED
    BY <2>1, LockMoves DEF Exceptions
<1>7. CASE pc[n] = "lock"
  <2>1. CASE at[n] < Len(job[n].pairs)
    <3>1. Moves(n, "lock", at[n] + 1, thrown[n])
      BY <1>1, <1>2, <1>7, <2>1 DEF Return, Moves
    <3>2. "lock" \in PCs /\ at[n] + 1 \in Nat /\ thrown[n] \in Exceptions
      BY <1>1 DEF PCs, Calling
    <3> QED
      BY <3>1, <3>2
  <2>2. CASE ~(at[n] < Len(job[n].pairs))
    <3>1. PICK p \in {"idle", "down"} : pc' = [pc EXCEPT ![n] = p]
      BY <1>7, <2>2, EndMoves DEF Return
    <3>2. Moves(n, p, at[n], thrown[n])
      BY <1>1, <1>7, <2>2, <3>1 DEF Return, Moves
    <3> QED
      BY <1>1, <3>1, <3>2 DEF PCs
  <2> QED
    BY <2>1, <2>2
<1> QED
  BY <1>3, <1>4, <1>5, <1>6, <1>7 DEF Return

\* Unwinding from a call is a move, and leaves only what is unlocked behind.
LEMMA ThrowMoves ==
    ASSUME TypeOK, NEW n \in Nodes, NEW x \in Exceptions, Throw(n, x)
    PROVE  /\ \E p \in PCs, i \in Nat, e \in Exceptions : Moves(n, p, i, e)
           /\ abandoned' \subseteq unlocked'
<1>1. /\ at = [at EXCEPT ![n] = at[n]] /\ at[n] \in Nat
      /\ thrown = [thrown EXCEPT ![n] = thrown[n]] /\ thrown[n] \in Exceptions
  BY DEF TypeOK, Exceptions
<1>2. CASE pc[n] \in {"open", "unlock"}
  <2>1. PICK p \in {"idle", "down"} : pc' = [pc EXCEPT ![n] = p]
    BY <1>2, EndMoves DEF Throw
  <2>2. Moves(n, p, at[n], thrown[n])
    BY <1>1, <1>2, <2>1 DEF Throw, Moves
  <2> QED
    BY <1>1, <1>2, <2>1, <2>2 DEF PCs, Throw, Leave
<1>3. CASE pc[n] \in {"keys", "sign"}
  BY <1>3, LockMoves DEF Throw, Leave
<1>4. CASE pc[n] = "lock"
  <2>1. Moves(n, "down", at[n], thrown[n])
    BY <1>1, <1>4 DEF Throw, Moves
  <2> QED
    BY <1>1, <1>4, <2>1 DEF PCs, Throw, Leave
<1> QED
  BY <1>2, <1>3, <1>4 DEF Throw

\* A move keeps the types of the nodes.
LEMMA MoveTyped ==
    ASSUME TypeOK, NEW n \in Nodes, job' = job,
           NEW p \in PCs, NEW i \in Nat, NEW e \in Exceptions, Moves(n, p, i, e),
           (loaded \subseteq Wallets /\ unlocked \subseteq loaded)',
           abandoned' \subseteq unlocked', faults' \in 0 .. MaxFaults, clashed' = clashed
    PROVE  TypeOK'
BY DEF TypeOK, Moves, PCs, Exceptions

\* So do the effects of a call on keosd.
LEMMA KeosdTyped ==
    ASSUME TypeOK, NEW n \in Nodes, Active(n), Executes(n) \/ Refused(n)
    PROVE  (loaded \subseteq Wallets /\ unlocked \subseteq loaded)'
<1>1. pc[n] \in {"open", "unlock", "lock"} => Wallet(n) \in Wallets
  <2>1. job[n] \in Jobs
    BY DEF TypeOK
  <2> QED
    BY <2>1, JobTyped DEF TypeOK, Wallet
<1> QED
  BY <1>1 DEF TypeOK, Executes, Refused

\* A counted failure stays within the bound.
LEMMA FaultTyped == TypeOK /\ Fault => faults' \in 0 .. MaxFaults
BY GuardAssumption DEF TypeOK, Fault

\* Every step keeps the types.
LEMMA NextTyped == TypeOK /\ [Next]_vars => TypeOK'
<1> SUFFICES ASSUME TypeOK, [Next]_vars PROVE TypeOK'
  OBVIOUS
<1>1. ASSUME NEW n \in Nodes, NEW j \in Jobs, Start(n, j) PROVE TypeOK'
  <2>1. faults' \in 0 .. MaxFaults
    BY <1>1, FaultTyped DEF Start, TypeOK
  <2>2. clashed' \in BOOLEAN
    BY <1>1 DEF Start, TypeOK
  <2>3. j.pairs # <<>> => 1 \in DOMAIN j.pairs
    BY JobTyped
  <2> QED
    BY <1>1, <2>1, <2>2, <2>3 DEF Start, TypeOK, keosd, Calling
<1>2. ASSUME NEW n \in Nodes, Granted(n) PROVE TypeOK'
  <2>1. PICK p \in PCs, i \in Nat, e \in Exceptions : Moves(n, p, i, e)
    BY <1>2, ReturnMoves DEF Granted
  <2>2. (loaded \subseteq Wallets /\ unlocked \subseteq loaded)'
    BY <1>2, KeosdTyped DEF Granted
  <2> QED
    BY <1>2, <2>1, <2>2, MoveTyped DEF Granted, TypeOK, Leave
<1>3. ASSUME NEW n \in Nodes, Denied(n) PROVE TypeOK'
  <2>1. CallThrows("error") \in Exceptions
    BY DEF Exceptions, Answers
  <2>2. abandoned' \subseteq unlocked'
    BY <1>3, <2>1, ThrowMoves DEF Denied
  <2>3. PICK p \in PCs, i \in Nat, e \in Exceptions : Moves(n, p, i, e)
    BY <1>3, <2>1, ThrowMoves DEF Denied
  <2>4. (loaded \subseteq Wallets /\ unlocked \subseteq loaded)'
    BY <1>3, KeosdTyped DEF Denied
  <2> QED
    BY <1>3, <2>2, <2>3, <2>4, MoveTyped DEF Denied, TypeOK
<1>4. ASSUME NEW n \in Nodes, NEW a \in Answers, Lost(n, a) PROVE TypeOK'
  <2>1. CallThrows(a) \in Exceptions
    BY DEF Exceptions
  <2>2. abandoned' \subseteq unlocked'
    BY <1>4, <2>1, ThrowMoves DEF Lost
  <2>3. PICK p \in PCs, i \in Nat, e \in Exceptions : Moves(n, p, i, e)
    BY <1>4, <2>1, ThrowMoves DEF Lost
  <2>4. (loaded \subseteq Wallets /\ unlocked \subseteq loaded)'
    BY <1>4, KeosdTyped DEF Lost, keosd, TypeOK
  <2>5. faults' \in 0 .. MaxFaults
    BY <1>4, FaultTyped DEF Lost
  <2> QED
    BY <1>4, <2>2, <2>3, <2>4, <2>5, MoveTyped DEF Lost
<1>5. ASSUME NEW n \in Nodes, CrashNode(n) PROVE TypeOK'
  <2>1. faults' \in 0 .. MaxFaults
    BY <1>5, FaultTyped DEF CrashNode
  <2> QED
    BY <1>5, <2>1 DEF CrashNode, TypeOK, Leave, keosd
<1>6. ASSUME NEW n \in Nodes, RestartNode(n) PROVE TypeOK'
  BY <1>6 DEF RestartNode, TypeOK, keosd
<1>7. CASE FailKeosd
  <2>1. faults' \in 0 .. MaxFaults
    BY <1>7, FaultTyped DEF FailKeosd
  <2> QED
    BY <1>7, <2>1 DEF FailKeosd, TypeOK, Leave
<1>8. CASE UNCHANGED vars
  BY <1>8 DEF vars, keosd, TypeOK
<1> QED
  BY <1>1, <1>2, <1>3, <1>4, <1>5, <1>6, <1>7, <1>8 DEF Next

\* The types hold of a keosd nobody has called.
LEMMA InitTyped == Init => TypeOK
<1> SUFFICES ASSUME Init PROVE TypeOK
  OBVIOUS
<1>1. 0 \in 0 .. MaxFaults
  BY GuardAssumption
<1>2. \A n \in Nodes : pc[n] \notin {"open", "unlock", "lock"}
  BY DEF Init
<1> QED
  BY <1>1, <1>2 DEF Init, TypeOK, Calling

\* The types hold always.
THEOREM GuardTypeCorrect == Spec => []TypeOK
BY InitTyped, NextTyped, PTL DEF Spec

-----------------------------------------------------------------------------
(* What is unlocked is guarded *)

\* It is enough that each wallet unlocked now was unlocked before and is kept
\* by the node n that moved, or is accounted for by n or by what it left.
LEMMA GuardedByMove ==
    ASSUME TypeOK, UnlockedIsGuarded, NEW n \in Nodes, NEW p, NEW i, NEW e,
           Moves(n, p, i, e), job' = job,
           abandoned \intersect unlocked' \subseteq abandoned',
           \A w \in unlocked' :
              \/ w \in Held(n)' \union abandoned'
              \/ w \in unlocked /\ w \notin Held(n)
    PROVE  UnlockedIsGuarded'
<1>1. \A m \in Nodes \ {n} : Held(m)' = Held(m)
  BY DEF Held, Moves, TypeOK
<1> QED
  BY <1>1 DEF UnlockedIsGuarded

\* Locking or ending: the guard holds all its wallets, and none is there when
\* it has none.
LEMMA LockHolds ==
    ASSUME TypeOK, NEW n \in Nodes, NEW e, Lock(n, e), job' = job
    PROVE  Held(n) \subseteq Held(n)'
<1>1. CASE job[n].pairs = <<>>
  BY <1>1 DEF Held
<1>2. CASE job[n].pairs # <<>>
  <2>1. pc'[n] = "lock" /\ at'[n] = 1
    BY <1>2 DEF Lock, TypeOK
  <2>2. \A k \in DOMAIN job[n].pairs : k >= 1
    BY JobTyped DEF TypeOK
  <2> QED
    BY <2>1, <2>2 DEF Held
<1> QED
  BY <1>1, <1>2

\* A call that returns: what the node unlocks it holds, what it lets go of it
\* has locked.
LEMMA GrantedGuarded ==
    ASSUME TypeOK, UnlockedIsGuarded, NEW n \in Nodes, Granted(n)
    PROVE  UnlockedIsGuarded'
<1>1. PICK p \in PCs, i \in Nat, e \in Exceptions : Moves(n, p, i, e)
  BY ReturnMoves DEF Granted
<1>2. job' = job /\ abandoned' = abandoned \intersect unlocked'
  BY DEF Granted, Leave
<1>3. /\ job[n] \in Jobs /\ at[n] \in Nat
      /\ DOMAIN job[n].pairs = 1 .. Len(job[n].pairs) /\ Len(job[n].pairs) \in Nat
  BY JobTyped DEF TypeOK
<1>4. \A w \in unlocked' : w \in Held(n)' \/ (w \in unlocked /\ w \notin Held(n))
  <2>1. CASE pc[n] = "open"
    <3>1. pc'[n] = "unlock" /\ at'[n] = at[n] /\ unlocked' \subseteq unlocked
      BY <2>1 DEF Granted, Return, Executes, TypeOK
    <3> QED
      BY <1>2, <2>1, <3>1 DEF Held
  <2>2. CASE pc[n] = "unlock"
    <3>1. unlocked' = unlocked \union {Wallet(n)} /\ at'[n] = at[n] + 1
      BY <2>2 DEF Granted, Return, Executes, TypeOK
    <3>2. pc'[n] = "open" \/ pc'[n] = "keys"
      BY <2>2 DEF Granted, Return, AfterUnlock, TypeOK
    <3>3. at[n] \in DOMAIN job[n].pairs
      BY <2>2 DEF TypeOK
    <3>4. Held(n) \union {Wallet(n)} \subseteq Held(n)'
      BY <1>2, <1>3, <2>2, <3>1, <3>2, <3>3 DEF Held, Wallet
    <3> QED
      BY <3>1, <3>4
  <2>3. CASE pc[n] \in {"keys", "sign"}
    <3>1. unlocked' = unlocked
      BY <2>3 DEF Granted, Executes
    <3>2. pc'[n] = "sign" \/ \E x : Lock(n, x)
      BY <2>3 DEF Granted, Return, TypeOK
    <3>3. Held(n) \subseteq Held(n)'
      <4>1. CASE pc'[n] = "sign"
        BY <1>2, <2>3, <4>1 DEF Held
      <4> QED
        BY <1>2, <3>2, <4>1, LockHolds
    <3> QED
      BY <3>1, <3>3
  <2>4. CASE pc[n] = "lock"
    <3>1. unlocked' = unlocked \ {Wallet(n)} /\ at[n] \in DOMAIN job[n].pairs
      BY <2>4 DEF Granted, Executes, TypeOK
    <3>2. Held(n) \ {Wallet(n)} \subseteq Held(n)'
      <4>1. CASE at[n] < Len(job[n].pairs)
        <5>1. pc'[n] = "lock" /\ at'[n] = at[n] + 1
          BY <2>4, <4>1 DEF Granted, Return, TypeOK
        <5> QED
          BY <1>2, <1>3, <2>4, <5>1 DEF Held, Wallet
      <4>2. CASE ~(at[n] < Len(job[n].pairs))
        BY <1>3, <2>4, <3>1, <4>2 DEF Held, Wallet
      <4> QED
        BY <4>1, <4>2
    <3> QED
      BY <3>1, <3>2
  <2> QED
    BY <2>1, <2>2, <2>3, <2>4 DEF Granted, Active, Calling
<1> QED
  BY <1>1, <1>2, <1>4, GuardedByMove

\* A call that throws: the node still holds what it held, or has left it.
LEMMA ThrownGuarded ==
    ASSUME TypeOK, UnlockedIsGuarded, NEW n \in Nodes, Active(n), job' = job,
           NEW x \in Exceptions, Throw(n, x),
           unlocked' = unlocked \/ Executes(n)
    PROVE  UnlockedIsGuarded'
<1>1. PICK p \in PCs, i \in Nat, e \in Exceptions : Moves(n, p, i, e)
  BY ThrowMoves
<1>2. CASE pc[n] \in {"open", "unlock"}
  <2>1. abandoned' = (abandoned \union Held(n) \union {Wallet(n)}) \intersect unlocked'
    BY <1>2 DEF Throw, Leave
  <2>2. unlocked' \subseteq unlocked \union {Wallet(n)}
    BY <1>2 DEF Executes
  <2> QED
    BY <1>1, <2>1, <2>2, GuardedByMove
<1>3. CASE pc[n] \in {"keys", "sign"}
  <2>1. abandoned' = abandoned \intersect unlocked' /\ Lock(n, x)
    BY <1>3 DEF Throw, Leave
  <2>2. unlocked' = unlocked
    BY <1>3 DEF Executes
  <2>3. Held(n) \subseteq Held(n)'
    BY <2>1, LockHolds
  <2> QED
    BY <1>1, <2>1, <2>2, <2>3, GuardedByMove
<1>4. CASE pc[n] = "lock"
  <2>1. abandoned' = (abandoned \union Held(n)) \intersect unlocked'
    BY <1>4 DEF Throw, Leave
  <2>2. unlocked' \subseteq unlocked
    BY <1>4 DEF Executes
  <2> QED
    BY <1>1, <2>1, <2>2, GuardedByMove
<1> QED
  BY <1>2, <1>3, <1>4 DEF Active, Calling

\* A node that is not at a call holds nothing.
LEMMA RestHoldsNothing == \A n \in Nodes : ~Active(n) => Held(n) = {}
BY DEF Held, Active, Calling

\* Every step keeps what is unlocked guarded.
LEMMA NextGuarded ==
    TypeOK /\ UnlockedIsGuarded /\ [Next]_vars => UnlockedIsGuarded'
<1> SUFFICES ASSUME TypeOK, UnlockedIsGuarded, [Next]_vars PROVE UnlockedIsGuarded'
  OBVIOUS
<1>1. ASSUME NEW n \in Nodes, NEW j \in Jobs, Start(n, j) PROVE UnlockedIsGuarded'
  <2>1. Held(n) = {}
    BY <1>1, RestHoldsNothing DEF Start, Active, Calling
  <2>2. \A m \in Nodes \ {n} : Held(m)' = Held(m)
    BY <1>1 DEF Start, Held, TypeOK
  <2> QED
    BY <1>1, <2>1, <2>2 DEF Start, UnlockedIsGuarded, keosd
<1>2. ASSUME NEW n \in Nodes, Granted(n) PROVE UnlockedIsGuarded'
  BY <1>2, GrantedGuarded
<1>3. ASSUME NEW n \in Nodes, Denied(n) PROVE UnlockedIsGuarded'
  <2>1. CallThrows("error") \in Exceptions
    BY DEF Exceptions, Answers
  <2> QED
    BY <1>3, <2>1, ThrownGuarded DEF Denied, Refused
<1>4. ASSUME NEW n \in Nodes, NEW a \in Answers, Lost(n, a) PROVE UnlockedIsGuarded'
  <2>1. CallThrows(a) \in Exceptions
    BY DEF Exceptions
  <2> QED
    BY <1>4, <2>1, ThrownGuarded DEF Lost, keosd
<1>5. ASSUME NEW n \in Nodes, CrashNode(n) PROVE UnlockedIsGuarded'
  <2>1. \A m \in Nodes \ {n} : Held(m)' = Held(m)
    BY <1>5 DEF CrashNode, Held, TypeOK
  <2> QED
    BY <1>5, <2>1 DEF CrashNode, Leave, UnlockedIsGuarded, keosd
<1>6. ASSUME NEW n \in Nodes, RestartNode(n) PROVE UnlockedIsGuarded'
  <2>1. Held(n) = {}
    BY <1>6, RestHoldsNothing DEF RestartNode, Active, Calling
  <2>2. \A m \in Nodes \ {n} : Held(m)' = Held(m)
    BY <1>6 DEF RestartNode, Held, TypeOK
  <2> QED
    BY <1>6, <2>1, <2>2 DEF RestartNode, UnlockedIsGuarded, keosd
<1>7. CASE FailKeosd
  BY <1>7 DEF FailKeosd, UnlockedIsGuarded
<1>8. CASE UNCHANGED vars
  BY <1>8 DEF vars, keosd, UnlockedIsGuarded, Held
<1> QED
  BY <1>1, <1>2, <1>3, <1>4, <1>5, <1>6, <1>7, <1>8 DEF Next

\* A wallet is unlocked only in the hands of a guard or left behind, always.
THEOREM GuardCorrect == Spec => []UnlockedIsGuarded
<1>1. Init => UnlockedIsGuarded
  BY DEF Init, UnlockedIsGuarded
<1> QED
  BY <1>1, NextGuarded, GuardTypeCorrect, PTL DEF Spec

-----------------------------------------------------------------------------
(* Without failures the guard works *)

\* What keosd holds for a node that nobody disturbed.
Undisturbed(n) ==
    /\ Sound(job[n]) /\ thrown[n] = "none"
    /\ pc[n] \in {"open", "unlock"} =>
          \A k \in DOMAIN job[n].pairs :
             k < at[n] => \/ job[n].pairs[k].wallet \in unlocked
                          \/ pc[n] = "unlock" /\ job[n].pairs[k].wallet = Wallet(n)
    /\ pc[n] = "unlock" => Wallet(n) \notin unlocked
    /\ pc[n] \in {"keys", "sign"} => Names(job[n]) \subseteq unlocked
    /\ pc[n] = "lock" => Names(job[n]) \subseteq loaded

Quiet == faults = 0 /\ ~clashed

QuietInv ==
    Quiet =>
        /\ abandoned = {}
        /\ \A n \in Nodes : pc[n] # "down" /\ (Active(n) => Undisturbed(n))
        /\ \A m, n \in Nodes : m # n /\ Active(m) /\ Active(n) =>
              Names(job[m]) \intersect Names(job[n]) = {}

\* Nobody refuses an undisturbed node.
LEMMA UndisturbedGranted ==
    ASSUME TypeOK, NEW n \in Nodes, Undisturbed(n)
    PROVE  ~Refuses(n) /\ (pc[n] \in {"keys", "sign"} => job[n].needs \subseteq unlocked)
<1>1. job[n] \in Jobs
  BY DEF TypeOK
<1>2. pc[n] \in {"unlock", "lock"} => at[n] \in DOMAIN job[n].pairs /\ Wallet(n) \in Names(job[n])
  BY DEF TypeOK, Wallet, Names
<1>3. Names(job[n]) # {}
  <2>1. 1 \in DOMAIN job[n].pairs
    BY <1>1, JobTyped DEF Undisturbed, Sound
  <2> QED
    BY <2>1 DEF Names
<1> QED
  BY <1>1, <1>2, <1>3 DEF Undisturbed, Refuses, Sound

\* Quiet was quiet before, and then neither a failure nor a refusal happened.
LEMMA QuietBefore ==
    ASSUME TypeOK, [Next]_vars, Quiet'
    PROVE  Quiet /\ ~Fault
BY DEF TypeOK, Quiet, Next, Start, Granted, Denied, Lost, CrashNode, RestartNode,
       FailKeosd, Fault, vars

\* A call by one node does not touch the wallets of another.
LEMMA OthersUndisturbed ==
    ASSUME TypeOK, NEW n \in Nodes, NEW m \in Nodes \ {n}, Granted(n),
           Undisturbed(m), Active(m), Names(job[m]) \intersect Names(job[n]) = {}
    PROVE  Undisturbed(m)'
<1>1. PICK p \in PCs, i \in Nat, e \in Exceptions : Moves(n, p, i, e)
  BY ReturnMoves DEF Granted
<1>2. pc'[m] = pc[m] /\ at'[m] = at[m] /\ job'[m] = job[m] /\ thrown'[m] = thrown[m]
  BY <1>1 DEF Moves, TypeOK, Granted
<1>3. pc[n] \in {"open", "unlock", "lock"} => Wallet(n) \in Names(job[n])
  BY DEF TypeOK, Wallet, Names
<1>4. \A w \in Names(job[m]) : (w \in unlocked' <=> w \in unlocked) /\ (w \in loaded => w \in loaded')
  BY <1>3 DEF Granted, Executes
<1>5. /\ \A k \in DOMAIN job[m].pairs : job[m].pairs[k].wallet \in Names(job[m])
      /\ pc[m] = "unlock" => Wallet(m) \in Names(job[m])
  BY DEF TypeOK, Wallet, Names
<1>6. Wallet(m)' = Wallet(m) /\ Names(job[m])' = Names(job[m]) /\ Sound(job[m])' = Sound(job[m])
  BY <1>2 DEF Wallet, Names, Sound
<1> QED
  BY <1>2, <1>4, <1>5, <1>6 DEF Undisturbed

\* And its own call leaves it undisturbed.
LEMMA SelfUndisturbed ==
    ASSUME TypeOK, NEW n \in Nodes, Granted(n), Undisturbed(n)
    PROVE  pc'[n] # "down" /\ (Active(n)' => Undisturbed(n)')
<1>1. /\ job[n] \in Jobs /\ at[n] \in Nat /\ job' = job /\ Sound(job[n])
      /\ DOMAIN job[n].pairs = 1 .. Len(job[n].pairs) /\ Len(job[n].pairs) \in Nat
      /\ job[n].pairs # <<>> /\ thrown[n] = "none"
  BY JobTyped DEF TypeOK, Granted, Undisturbed, Sound
<1>2. job[n].needs \subseteq unlocked \/ pc[n] # "keys"
  BY UndisturbedGranted
<1>3. CASE pc[n] = "open"
  <2>1. /\ pc'[n] = "unlock" /\ at'[n] = at[n] /\ thrown'[n] = "none"
        /\ unlocked' = unlocked \ {Wallet(n)}
    BY <1>1, <1>3 DEF Granted, Return, Executes, TypeOK
  <2> QED
    BY <1>1, <1>3, <2>1 DEF Undisturbed, Wallet
<1>4. CASE pc[n] = "unlock"
  <2>1. /\ at'[n] = at[n] + 1 /\ thrown'[n] = "none" /\ pc'[n] = AfterUnlock(n)
        /\ unlocked' = unlocked \union {Wallet(n)}
    BY <1>1, <1>4 DEF Granted, Return, Executes, TypeOK
  <2>2. \A k \in DOMAIN job[n].pairs : k < at[n] + 1 => job[n].pairs[k].wallet \in unlocked'
    BY <1>1, <1>4, <2>1 DEF Undisturbed, Wallet
  <2>3. CASE at[n] < Len(job[n].pairs)
    <3>1. pc'[n] = "open"
      BY <2>1, <2>3 DEF AfterUnlock
    <3> QED
      BY <1>1, <2>1, <2>2, <3>1 DEF Undisturbed
  <2>4. CASE ~(at[n] < Len(job[n].pairs))
    <3>1. pc'[n] = "keys"
      BY <2>1, <2>4 DEF AfterUnlock
    <3>2. Names(job[n]) \subseteq unlocked'
      BY <1>1, <2>2, <2>4 DEF Names
    <3> QED
      BY <1>1, <2>1, <3>1, <3>2 DEF Undisturbed
  <2> QED
    BY <2>3, <2>4
<1>5. CASE pc[n] = "keys"
  <2>1. pc'[n] = "sign" /\ thrown'[n] = "none" /\ unlocked' = unlocked
    BY <1>1, <1>2, <1>5 DEF Granted, Return, Executes, TypeOK
  <2> QED
    BY <1>1, <1>5, <2>1 DEF Undisturbed
<1>6. CASE pc[n] = "sign"
  <2>1. pc'[n] = "lock" /\ thrown'[n] = "none" /\ loaded' = loaded
    BY <1>1, <1>6 DEF Granted, Return, Lock, Executes, TypeOK
  <2>2. Names(job[n]) \subseteq loaded
    BY <1>6 DEF Undisturbed, TypeOK
  <2> QED
    BY <1>1, <2>1, <2>2 DEF Undisturbed
<1>7. CASE pc[n] = "lock"
  <2>1. thrown'[n] = "none" /\ loaded' = loaded
    BY <1>1, <1>7 DEF Granted, Return, Executes, TypeOK
  <2>2. pc'[n] \in {"lock", "idle"}
    BY <1>1, <1>7 DEF Granted, Return, End, Survives, TypeOK
  <2> QED
    BY <1>1, <1>7, <2>1, <2>2 DEF Undisturbed, Active, Calling
<1> QED
  BY <1>3, <1>4, <1>5, <1>6, <1>7 DEF Granted, Active, Calling

\* Every step keeps it.
LEMMA NextQuiet == TypeOK /\ QuietInv /\ [Next]_vars => QuietInv'
<1> SUFFICES ASSUME TypeOK, QuietInv, [Next]_vars, Quiet'
             PROVE  /\ abandoned' = {}
                    /\ \A n \in Nodes : pc'[n] # "down" /\ (Active(n)' => Undisturbed(n)')
                    /\ \A m, n \in Nodes : m # n /\ Active(m)' /\ Active(n)' =>
                          Names(job'[m]) \intersect Names(job'[n]) = {}
  BY DEF QuietInv, Names
<1> DEFINE G == /\ abandoned' = {}
                /\ \A n \in Nodes : pc'[n] # "down" /\ (Active(n)' => Undisturbed(n)')
                /\ \A m, n \in Nodes : m # n /\ Active(m)' /\ Active(n)' =>
                      Names(job'[m]) \intersect Names(job'[n]) = {}
<1>1. Quiet /\ ~Fault
  BY QuietBefore
<1>2. /\ abandoned = {}
      /\ \A n \in Nodes : pc[n] # "down" /\ (Active(n) => Undisturbed(n))
      /\ \A m, n \in Nodes : m # n /\ Active(m) /\ Active(n) =>
            Names(job[m]) \intersect Names(job[n]) = {}
  BY <1>1 DEF QuietInv
<1>3. ASSUME NEW n \in Nodes, NEW j \in Jobs, Start(n, j) PROVE G
  <2>1. Sound(j) /\ j.pairs # <<>>
    BY <1>1, <1>3 DEF Start, Sound
  <2>2. /\ pc'[n] = "open" /\ job'[n] = j /\ at'[n] = 1 /\ thrown'[n] = "none"
        /\ unlocked' = unlocked /\ loaded' = loaded /\ abandoned' = abandoned
    BY <1>3, <2>1 DEF Start, TypeOK, keosd
  <2>3. \A m \in Nodes \ {n} : /\ pc'[m] = pc[m] /\ job'[m] = job[m]
                               /\ at'[m] = at[m] /\ thrown'[m] = thrown[m]
    BY <1>3 DEF Start, TypeOK
  <2>4. \A m \in Nodes \ {n} : Active(m) => Names(job[m]) \intersect Names(j) = {}
    BY <1>3 DEF Start, Quiet
  <2>5. Undisturbed(n)'
    <3>1. \A k \in DOMAIN j.pairs : ~(k < 1)
      BY JobTyped
    <3> QED
      BY <2>1, <2>2, <3>1 DEF Undisturbed
  <2>6. \A m \in Nodes \ {n} : pc'[m] # "down" /\ (Active(m)' => Undisturbed(m)')
    BY <1>2, <2>2, <2>3 DEF Undisturbed, Active, Wallet
  <2>7. ASSUME NEW m \in Nodes, NEW o \in Nodes, m # o, Active(m)', Active(o)'
        PROVE  Names(job'[m]) \intersect Names(job'[o]) = {}
    <3>1. CASE m = n
      BY <2>2, <2>3, <2>4, <2>7, <3>1 DEF Active
    <3>2. CASE o = n
      BY <2>2, <2>3, <2>4, <2>7, <3>2 DEF Active
    <3>3. CASE m # n /\ o # n
      BY <1>2, <2>3, <2>7, <3>3 DEF Active
    <3> QED
      BY <3>1, <3>2, <3>3
  <2>8. pc'[n] # "down"
    BY <2>2
  <2> QED
    BY <1>2, <2>2, <2>5, <2>6, <2>7, <2>8
<1>4. ASSUME NEW n \in Nodes, Granted(n) PROVE G
  <2>1. Active(n) /\ Undisturbed(n)
    BY <1>2, <1>4 DEF Granted
  <2>2. PICK p \in PCs, i \in Nat, e \in Exceptions : Moves(n, p, i, e)
    BY <1>4, ReturnMoves DEF Granted
  <2>3. job' = job /\ \A m \in Nodes \ {n} : pc'[m] = pc[m]
    BY <1>4, <2>2 DEF Moves, TypeOK, Granted
  <2>4. pc'[n] # "down" /\ (Active(n)' => Undisturbed(n)')
    BY <1>4, <2>1, SelfUndisturbed
  <2>5. \A m \in Nodes \ {n} : pc'[m] # "down" /\ (Active(m)' => Undisturbed(m)')
    <3>1. \A m \in Nodes \ {n} : Active(m)' <=> Active(m)
      BY <2>3 DEF Active
    <3> QED
      BY <1>2, <1>4, <2>1, <2>3, <3>1, OthersUndisturbed
  <2>6. \A m \in Nodes : Active(m)' => Active(m)
    BY <2>1, <2>3 DEF Active
  <2>7. abandoned' = {}
    BY <1>2, <1>4 DEF Granted, Leave
  <2> QED
    BY <1>2, <2>3, <2>4, <2>5, <2>6, <2>7
<1>5. ASSUME NEW n \in Nodes, Denied(n) PROVE FALSE
  BY <1>2, <1>5, UndisturbedGranted DEF Denied
<1>6. ASSUME NEW n \in Nodes, RestartNode(n) PROVE FALSE
  BY <1>2, <1>6 DEF RestartNode
<1>7. CASE UNCHANGED vars
  <2>1. \A n \in Nodes : (Active(n)' <=> Active(n)) /\ (Undisturbed(n) => Undisturbed(n)')
    BY <1>7 DEF vars, keosd, Active, Undisturbed, Wallet
  <2> QED
    BY <1>2, <1>7, <2>1 DEF vars, keosd
<1> QED
  <2>1. \A n \in Nodes, a \in Answers : ~Lost(n, a) /\ ~CrashNode(n)
    BY <1>1 DEF Lost, CrashNode
  <2>2. ~FailKeosd
    BY <1>1 DEF FailKeosd
  <2>3. G
    BY <1>1, <1>3, <1>4, <1>5, <1>6, <1>7, <2>1, <2>2 DEF Next, CrashNode
  <2> QED
    BY <2>3

\* When nothing fails and no two nodes name one wallet, every call is granted
\* and nothing is left unlocked, always.
THEOREM QuietCorrect == Spec => []QuietGuardsWork
<1>1. Init => QuietInv
  BY DEF Init, QuietInv, Active, Calling
<1>2. TypeOK /\ QuietInv => QuietGuardsWork
  <2> SUFFICES ASSUME TypeOK, QuietInv, faults = 0 /\ ~clashed, NEW n \in Nodes
               PROVE  /\ abandoned = {} /\ pc[n] # "down"
                      /\ Active(n) => ~Refuses(n) /\ thrown[n] = "none"
                      /\ pc[n] = "sign" => job[n].needs \subseteq unlocked
    BY DEF QuietGuardsWork, QuietInv, Quiet
  <2>1. abandoned = {} /\ pc[n] # "down" /\ (Active(n) => Undisturbed(n))
    BY DEF QuietInv, Quiet
  <2>2. Active(n) => ~Refuses(n) /\ thrown[n] = "none"
    BY <2>1, UndisturbedGranted DEF Undisturbed
  <2>3. pc[n] = "sign" => job[n].needs \subseteq unlocked
    BY <2>1, UndisturbedGranted DEF Active, Calling
  <2> QED
    BY <2>1, <2>2, <2>3
<1> QED
  BY <1>1, <1>2, NextQuiet, GuardTypeCorrect, PTL DEF Spec

=============================================================================
