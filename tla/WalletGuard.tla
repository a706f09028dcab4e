----------------------------- MODULE WalletGuard -----------------------------
(***************************************************************************)
(* The guard around a transaction (wallet_guard, data_exchange_plugin.cpp) *)
(* and the calls it makes to keosd over HTTP (httpc.cpp).  A node opens    *)
(* and unlocks the wallets of a job one by one, asks for the keys, has the *)
(* transaction signed, and locks the wallets again.  One keosd serves      *)
(* several nodes; keosd, the network and the nodes may fail between any    *)
(* two calls.  A call is one step.                                         *)
(*                                                                         *)
(* Where a definition has a sibling with a longer name before it, the      *)
(* sibling is a deliberate fault that a property below must catch.         *)
(***************************************************************************)
EXTENDS Naturals, Sequences

CONSTANTS
    Nodes,      \* nodes whose wallet-url is this keosd
    Wallets,
    Jobs,       \* what a tick or a push_action asks the guard for
    MaxFaults   \* bound: failures, jobs that name the wrong wallets included

ASSUME GuardAssumption ==
    /\ MaxFaults \in Nat
    /\ Jobs \subseteq [kind: {"tick", "push"},
                       pairs: Seq([wallet: Wallets, right: BOOLEAN]),
                       needs: SUBSET Wallets]

VARIABLES
    loaded,     \* keosd: the wallets it has opened
    unlocked,   \* keosd: those of them whose keys it can use
    pc,         \* what each node does next: the call it waits for
    job,        \* what it does it for
    at,         \* the wallet of vec_wltpwd it is at
    thrown,     \* the exception it unwinds with, "none" when there is none
    faults,     \* failures so far
    abandoned,  \* ghost: unlocked wallets some guard left behind
    clashed     \* ghost: have two nodes held one wallet at a time?

keosd == <<loaded, unlocked>>
vars == <<keosd, pc, job, at, thrown, faults, abandoned, clashed>>

Calling == {"open", "unlock", "keys", "sign", "lock"}

-----------------------------------------------------------------------------
(* A call, from the wire up: what becomes of each answer. *)

Answers ==
    {"ok", "error", "unreachable", "unresolved", "broken", "malformed",
     "invalid", "missing"}

\* do_txrx reads the status line, the headers, content-length bytes.
DoTxrx(a) ==
    CASE a = "broken"    -> "system_error"
      [] a = "malformed" -> "invalid_http_response"
      [] a = "invalid"   -> "invalid_http_request"
      [] OTHER           -> "body"

\* resolve_url finds the host, do_connect reaches it.
Connect(a) ==
    CASE a = "unresolved"  -> "fail_to_resolve_host"
      [] a = "unreachable" -> "system_error"
      [] OTHER             -> "connected"

\* do_http_call: the status decides, and keosd's own errors lose their type.
DoHttpCall(a) ==
    CASE Connect(a) # "connected" -> Connect(a)
      [] DoTxrx(a) # "body"       -> DoTxrx(a)
      [] a = "missing"            -> "missing_wallet_api_plugin"
      [] a = "error"              -> "fc::exception"
      [] OTHER                    -> "none"

CallThrows(a) ==
    IF DoHttpCall(a) = "system_error" THEN "connection_exception" ELSE DoHttpCall(a)

\* What the handlers of the tick catch; any other exception ends the node.
CaughtByTick ==
    {"account_query", "unsupported_abi_version", "wallet_locked",
     "wallet_unlocked", "symbol_type"}

Survives(j, e) == e = "none" \/ j.kind = "push" \/ e \in CaughtByTick

-----------------------------------------------------------------------------
(* keosd *)

Wallet(n) == job[n].pairs[at[n]].wallet

Names(j) == {j.pairs[i].wallet : i \in DOMAIN j.pairs}

Sound(j) ==
    /\ j.pairs # <<>>
    /\ \A i \in DOMAIN j.pairs : j.pairs[i].right
    /\ j.needs \subseteq Names(j)

Refuses(n) ==
    CASE pc[n] = "unlock" -> Wallet(n) \in unlocked \/ ~job[n].pairs[at[n]].right
      [] pc[n] = "keys"   -> unlocked = {}
      [] pc[n] = "sign"   -> ~(job[n].needs \subseteq unlocked)
      [] pc[n] = "lock"   -> Wallet(n) \notin loaded
      [] OTHER            -> FALSE

\* Opening a wallet locks it, and unlocking opens one that is not loaded.
Executes(n) ==
    /\ loaded' = IF pc[n] \in {"open", "unlock"} THEN loaded \union {Wallet(n)} ELSE loaded
    /\ unlocked' =
         CASE pc[n] \in {"open", "lock"} -> unlocked \ {Wallet(n)}
           [] pc[n] = "unlock"           -> unlocked \union {Wallet(n)}
           [] OTHER                      -> unlocked

\* A refused unlock still loads the wallet.
Refused(n) ==
    /\ loaded' = IF pc[n] = "unlock" THEN loaded \union {Wallet(n)} ELSE loaded
    /\ UNCHANGED unlocked

-----------------------------------------------------------------------------
(* The guard *)

\* The wallets a guard may have unlocked and not locked yet.
Held(n) ==
    {job[n].pairs[i].wallet : i \in {k \in DOMAIN job[n].pairs :
        \/ pc[n] \in {"open", "unlock"} /\ k < at[n]
        \/ pc[n] \in {"keys", "sign"}
        \/ pc[n] = "lock" /\ k >= at[n]}}

Active(n) == pc[n] \in Calling

\* The guard of n goes away with the wallets W as they are.
Leave(W) == abandoned' = (abandoned \union W) \intersect unlocked'

End(n, e) == pc' = [pc EXCEPT ![n] = IF Survives(job[n], e) THEN "idle" ELSE "down"]

\* From the second wallet on: what a destructor that starts too late locks.
LockFromSecond(n, e) ==
    /\ thrown' = [thrown EXCEPT ![n] = e]
    /\ IF Len(job[n].pairs) < 2 THEN End(n, e) /\ UNCHANGED at
       ELSE pc' = [pc EXCEPT ![n] = "lock"] /\ at' = [at EXCEPT ![n] = 2]

\* The guard leaves its scope, by return or by an exception e.
Lock(n, e) ==
    /\ thrown' = [thrown EXCEPT ![n] = e]
    /\ IF job[n].pairs = <<>> THEN End(n, e) /\ UNCHANGED at
       ELSE pc' = [pc EXCEPT ![n] = "lock"] /\ at' = [at EXCEPT ![n] = 1]

AfterUnlockTooFar(n) == IF at[n] <= Len(job[n].pairs) THEN "open" ELSE "keys"

AfterUnlockNoOpen(n) == IF at[n] < Len(job[n].pairs) THEN "unlock" ELSE "keys"

AfterUnlock(n) == IF at[n] < Len(job[n].pairs) THEN "open" ELSE "keys"

\* The call returned: the node goes on to its next one.
Return(n) ==
    \/ /\ pc[n] = "open"
       /\ pc' = [pc EXCEPT ![n] = "unlock"]
       /\ UNCHANGED <<at, thrown>>
    \/ /\ pc[n] = "unlock"
       /\ pc' = [pc EXCEPT ![n] = AfterUnlock(n)]
       /\ at' = [at EXCEPT ![n] = @ + 1]
       /\ UNCHANGED thrown
    \/ /\ pc[n] = "keys"
       /\ IF job[n].needs \subseteq unlocked
          THEN pc' = [pc EXCEPT ![n] = "sign"] /\ UNCHANGED <<at, thrown>>
          ELSE Lock(n, "unsatisfied_authorization")
    \/ /\ pc[n] = "sign"
       /\ Lock(n, "none")
    \/ /\ pc[n] = "lock"
       /\ IF at[n] < Len(job[n].pairs)
          THEN at' = [at EXCEPT ![n] = @ + 1] /\ UNCHANGED pc
          ELSE End(n, thrown[n]) /\ UNCHANGED at
       /\ UNCHANGED thrown

ThrowAndRetry(n, e) == UNCHANGED <<pc, at, thrown, abandoned>>

\* The call threw: no destructor runs for a guard that was not constructed,
\* and a destructor that throws terminates the process.
Throw(n, e) ==
    \/ /\ pc[n] \in {"open", "unlock"}
       /\ End(n, e)
       /\ Leave(Held(n) \union {Wallet(n)})
       /\ UNCHANGED <<at, thrown>>
    \/ /\ pc[n] \in {"keys", "sign"}
       /\ Lock(n, e)
       /\ Leave({})
    \/ /\ pc[n] = "lock"
       /\ pc' = [pc EXCEPT ![n] = "down"]
       /\ Leave(Held(n))
       /\ UNCHANGED <<at, thrown>>

-----------------------------------------------------------------------------
(* The steps *)

Fault ==
    /\ faults < MaxFaults
    /\ faults' = faults + 1

\* A tick or a push_action has built its actions and constructs the guard.
Start(n, j) ==
    /\ pc[n] = "idle"
    /\ job' = [job EXCEPT ![n] = j]
    /\ pc' = [pc EXCEPT ![n] = IF j.pairs = <<>> THEN "keys" ELSE "open"]
    /\ at' = [at EXCEPT ![n] = 1]
    /\ thrown' = [thrown EXCEPT ![n] = "none"]
    /\ IF Sound(j) THEN UNCHANGED faults ELSE Fault
    /\ clashed' = (clashed \/ \E m \in Nodes \ {n} :
                      Active(m) /\ Names(job[m]) \intersect Names(j) # {})
    /\ UNCHANGED <<keosd, abandoned>>

Granted(n) ==
    /\ Active(n) /\ ~Refuses(n)
    /\ Executes(n)
    /\ Return(n)
    /\ Leave({})
    /\ UNCHANGED <<job, faults, clashed>>

Denied(n) ==
    /\ Active(n) /\ Refuses(n)
    /\ Refused(n)
    /\ Throw(n, CallThrows("error"))
    /\ UNCHANGED <<job, faults, clashed>>

\* The request, or the answer to what was done, is lost on the way.
Lost(n, a) ==
    /\ Active(n) /\ Fault
    /\ \/ UNCHANGED keosd
       \/ a \in {"broken", "malformed"} /\ ~Refuses(n) /\ Executes(n)
    /\ Throw(n, CallThrows(a))
    /\ UNCHANGED <<job, clashed>>

CrashNode(n) ==
    /\ pc[n] # "down" /\ Fault
    /\ pc' = [pc EXCEPT ![n] = "down"]
    /\ UNCHANGED <<keosd, job, at, thrown, clashed>>
    /\ Leave(Held(n))

RestartNode(n) ==
    /\ pc[n] = "down"
    /\ pc' = [pc EXCEPT ![n] = "idle"]
    /\ UNCHANGED <<keosd, job, at, thrown, faults, abandoned, clashed>>

\* keosd restarts, or locks its wallets for being left alone too long.
FailKeosd ==
    /\ Fault
    /\ loaded' \in {{}, loaded}
    /\ unlocked' = {}
    /\ Leave({})
    /\ UNCHANGED <<pc, job, at, thrown, clashed>>

Call(n) == Granted(n) \/ Denied(n)

Init ==
    /\ loaded = {} /\ unlocked = {}
    /\ pc = [n \in Nodes |-> "idle"]
    /\ job \in [Nodes -> Jobs]
    /\ at = [n \in Nodes |-> 1]
    /\ thrown = [n \in Nodes |-> "none"]
    /\ faults = 0
    /\ abandoned = {}
    /\ clashed = FALSE

Next ==
    \/ \E n \in Nodes :
          \/ \E j \in Jobs : Start(n, j)
          \/ Granted(n)
          \/ Denied(n)
          \/ \E a \in Answers \ {"ok"} : Lost(n, a)
          \/ CrashNode(n)
          \/ RestartNode(n)
    \/ FailKeosd

Spec == Init /\ [][Next]_vars

\* keosd answers every call: the read has no timeout, so nothing else ends it.
FairSpec == Spec /\ \A n \in Nodes : WF_vars(Call(n))

-----------------------------------------------------------------------------
(* Properties *)

\* The type of the state; a node at a wallet is at one of its list.
TypeOK ==
    /\ loaded \subseteq Wallets
    /\ unlocked \subseteq loaded
    /\ pc \in [Nodes -> Calling \union {"idle", "down"}]
    /\ job \in [Nodes -> Jobs]
    /\ at \in [Nodes -> Nat]
    /\ \A n \in Nodes : pc[n] \in {"open", "unlock", "lock"} => at[n] \in DOMAIN job[n].pairs
    /\ thrown \in [Nodes -> {"none", "unsatisfied_authorization"} \union
                            {CallThrows(a) : a \in Answers}]
    /\ faults \in 0 .. MaxFaults
    /\ abandoned \subseteq unlocked
    /\ clashed \in BOOLEAN

\* A wallet whose keys keosd would use is in the hands of a live guard, or is
\* one that a constructor that threw, a destructor that threw or a killed
\* node left behind: a guard that returns or unwinds has locked all of its own.
UnlockedIsGuarded ==
    \A w \in unlocked : w \in abandoned \/ \E n \in Nodes : w \in Held(n)

\* Unless something fails or two nodes name one wallet at the same time, no
\* wallet is ever left unlocked, no call is refused, no node ends, and each
\* transaction is signed with every key it needs: nothing a job leaves in
\* keosd disturbs the next one.
QuietGuardsWork ==
    faults = 0 /\ ~clashed =>
        /\ abandoned = {}
        /\ \A n \in Nodes :
              /\ pc[n] # "down"
              /\ Active(n) => ~Refuses(n) /\ thrown[n] = "none"
              /\ pc[n] = "sign" => job[n].needs \subseteq unlocked

\* When keosd answers, every guard ends: no call is made again for ever and
\* no node waits for a wallet that another one holds.
JobsEnd == \A n \in Nodes : Active(n) ~> ~Active(n)

=============================================================================
