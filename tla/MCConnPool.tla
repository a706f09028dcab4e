----------------------------- MODULE MCConnPool -----------------------------
(***************************************************************************)
(* Four threads share two connections that are closed on return.           *)
(***************************************************************************)
EXTENDS ConnPool

CONSTANTS t1, t2, t3, t4

MCThreads == {t1, t2, t3, t4}
=============================================================================
