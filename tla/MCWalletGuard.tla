---------------------------- MODULE MCWalletGuard ----------------------------
(***************************************************************************)
(* Two nodes at one keosd: jobs that share a wallet and jobs that do not,  *)
(* a wallet named twice, a wrong password, a wallet too few, and none.     *)
(***************************************************************************)
EXTENDS WalletGuard

CONSTANTS n1, n2, w1, w2, w3

Right(w) == [wallet |-> w, right |-> TRUE]
Wrong(w) == [wallet |-> w, right |-> FALSE]

Tick(ps, ws) == [kind |-> "tick", pairs |-> ps, needs |-> ws]
Push(ps, ws) == [kind |-> "push", pairs |-> ps, needs |-> ws]

MCNodes == {n1, n2}
MCWallets == {w1, w2, w3}

MCJobs ==
    {Tick(<<Right(w1), Right(w2), Right(w1)>>, {w1, w2}),
     Tick(<<Right(w1)>>, {w1, w2}),
     Tick(<<>>, {w1}),
     Push(<<Right(w3)>>, {w3}),
     Push(<<Right(w2), Wrong(w3)>>, {w2})}
=============================================================================
