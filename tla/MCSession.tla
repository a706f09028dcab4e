------------------------------ MODULE MCSession ------------------------------
(***************************************************************************)
(* One statement and more: writes, rows nobody reads, failures first and   *)
(* last, with the transaction and without, their results fetched           *)
(* (multiline) or not.                                                     *)
(***************************************************************************)
EXTENDS Session

MCQueries ==
    [stmts: {<<"write">>, <<"select">>, <<"write", "write", "write">>,
             <<"write", "fail", "write">>, <<"write", "select", "write">>,
             <<"write", "deadlock">>, <<"fail", "write">>},
     multiline: BOOLEAN]
=============================================================================
