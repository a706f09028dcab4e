------------------------------- MODULE Session -------------------------------
(***************************************************************************)
(* The transaction around a statement (MysqlConnection::execute): one      *)
(* connection of the pool, the users it is handed to one after another,    *)
(* and the server's session behind it.  A step is a command to the server. *)
(* The session may be lost between any two of them, and with the answer to *)
(* any of them; execute ignores the results of all but the statement.      *)
(*                                                                         *)
(* Where a definition has a sibling with a longer name before it, the      *)
(* sibling is a deliberate fault that a property below must catch.         *)
(***************************************************************************)
EXTENDS Naturals, Sequences

CONSTANTS
    Queries,    \* what is executed: statements, and the flag multiline
    MaxCalls,   \* bound: calls of execute
    MaxFaults   \* bound: losses of the session and errors of the server

\* What becomes of a statement: it writes, gives rows, fails alone, or fails
\* and takes the transaction with it.
Kinds == {"write", "select", "fail", "deadlock"}

Failures == {"fail", "deadlock"}

ASSUME SessionAssumption ==
    /\ Queries \subseteq [stmts: Seq(Kinds) \ {<<>>}, multiline: BOOLEAN]
    /\ MaxCalls \in Nat /\ MaxFaults \in Nat

VARIABLES
    pc,         \* what the connection's user does next
    client,     \* the client's side of the connection
    results,    \* the statements whose results the client has not read
    opened,     \* has somebody a MysqlData of this connection?
    autocommit, intx, pending,  \* the server's session: its mode, and the
                                \* writes of its open transaction
    committed,  \* the writes the database keeps, <<call, statement>>
    asked,      \* the queries executed so far
    returned,   \* what exec made of each: TRUE or FALSE
    ignored,    \* history: the commands that failed on a live session,
                \* <<call, command>>
    faults

link == <<client, results, opened>>
session == <<autocommit, intx, pending>>
told == <<asked, returned>>
vars == <<pc, link, session, committed, told, ignored, faults>>

\* The client refuses a command unless it is ready: "rows" can be freed by
\* who opened them, "more" results be fetched, "unread" rows have no owner,
\* a "dead" connection has lost its session, a "closed" one has none.
Clients == {"ready", "rows", "more", "unread", "dead", "closed"}

Live == client \notin {"dead", "closed"}

Commands == {"autocommit off", "begin", "commit", "autocommit on"}

Executing == Commands \union {"query", "drain"}

call == Len(asked)
query == asked[call]

-----------------------------------------------------------------------------
(* The server *)

\* The writes a query makes when its first n statements are reached: the
\* first that fails ends it.
Writes(c, q, n) ==
    {<<c, i>> : i \in {k \in DOMAIN q.stmts :
        /\ k <= n /\ q.stmts[k] = "write"
        /\ \A j \in 1 .. k : q.stmts[j] \notin Failures}}

AllWrites(c) == Writes(c, asked[c], Len(asked[c].stmts))

\* Does its first failure end the transaction?
Deadlocks(q) ==
    \E k \in DOMAIN q.stmts :
        q.stmts[k] = "deadlock" /\ \A j \in 1 .. k - 1 : q.stmts[j] # "fail"

RolledBack == intx' = FALSE /\ pending' = {}

\* Switched on, but not when it is on already, it ends the transaction.
SetAutocommit(on) ==
    /\ autocommit' = on
    /\ IF on /\ ~autocommit
       THEN committed' = committed \union pending /\ RolledBack
       ELSE UNCHANGED <<committed, intx, pending>>

\* BEGIN ends the transaction before it.
Begin ==
    /\ intx' = TRUE
    /\ committed' = committed \union pending
    /\ pending' = {}
    /\ UNCHANGED autocommit

\* Sent by RollbackTransaction only.
Rollback ==
    /\ RolledBack
    /\ UNCHANGED <<committed, autocommit>>

Commit ==
    /\ intx' = FALSE
    /\ committed' = committed \union pending
    /\ pending' = {}
    /\ UNCHANGED autocommit

\* In no transaction, and with autocommit on, a write is kept at once.
Run(q, W) ==
    /\ IF intx \/ ~autocommit
       THEN /\ IF Deadlocks(q) THEN RolledBack
               ELSE pending' = pending \union W /\ UNCHANGED intx
            /\ UNCHANGED committed
       ELSE committed' = committed \union W /\ UNCHANGED <<intx, pending>>
    /\ UNCHANGED autocommit

\* The session ends; its transaction is rolled back.
Gone ==
    /\ client' = "dead" /\ results' = <<>> /\ pending' = {}
    /\ UNCHANGED <<opened, autocommit, intx>>

Fault == faults < MaxFaults /\ faults' = faults + 1

-----------------------------------------------------------------------------
(* execute *)

Go(to) == pc' = to

Ignored == ignored' = ignored \union {<<call, pc>>}

\* The client sends nothing.
Refused ==
    /\ client # "ready"
    /\ IF Live THEN Ignored ELSE UNCHANGED ignored
    /\ UNCHANGED <<client, results, session, committed, faults>>

\* The server answers with an error, which may end the transaction.
Denied ==
    /\ client = "ready"
    /\ Fault /\ Ignored
    /\ RolledBack \/ UNCHANGED <<intx, pending>>
    /\ UNCHANGED <<client, results, autocommit, committed>>

\* A command whose result the code ignores: refused, denied, done, or lost
\* with the session, before or, if it commits, after it was done.
Send(Command, commits, to) ==
    /\ Go(to)
    /\ UNCHANGED <<told, opened>>
    /\ \/ Refused
       \/ Denied
       \/ client = "ready" /\ Command /\ UNCHANGED <<client, results, ignored, faults>>
       \/ /\ client = "ready" /\ Fault /\ Gone
          /\ \/ UNCHANGED committed
             \/ commits /\ committed' = committed \union pending
          /\ UNCHANGED ignored

InNoTransaction == FALSE

\* transactionOnExecute
InTransaction == TRUE

FirstStepOneLine(q) ==
    IF InTransaction /\ ~q.multiline THEN "autocommit off" ELSE "query"

FirstStep(q) == IF InTransaction THEN "autocommit off" ELSE "query"

Execute(q) ==
    /\ pc = "using"
    /\ call < MaxCalls
    /\ asked' = Append(asked, q)
    /\ returned' = Append(returned, FALSE)
    /\ Go(FirstStep(q))
    /\ UNCHANGED <<link, session, committed, ignored, faults>>

AutocommitOff == pc = "autocommit off" /\ Send(SetAutocommit(FALSE), FALSE, "begin")

BeginTransaction == pc = "begin" /\ Send(Begin, TRUE, "query")

AfterExecStays == "using"

\* transactionCommit follows whatever exec returned.
AfterExec == IF InTransaction THEN "commit" ELSE "using"

\* The client reads the first of these results; rows are then what it says.
Read(rs, rows) ==
    /\ results' = IF Head(rs) \in Failures THEN <<>> ELSE Tail(rs)
    /\ client' = CASE Head(rs) = "select" -> rows
                   [] Head(rs) = "write" /\ Tail(rs) # <<>> -> "more"
                   [] OTHER -> "ready"

\* exec: TRUE if the first statement of the query succeeded.
Exec ==
    LET succeeds == query.stmts[1] \notin Failures
    IN  /\ pc = "query"
        /\ UNCHANGED <<asked, opened, ignored>>
        /\ \/ /\ client # "ready"
              /\ Go(AfterExec)
              /\ UNCHANGED <<client, results, session, committed, returned, faults>>
           \/ /\ client = "ready"
              /\ Read(query.stmts, "unread")
              /\ Run(query, AllWrites(call))
              /\ returned' = [returned EXCEPT ![call] = succeeds]
              /\ Go(IF query.multiline /\ succeeds THEN "drain" ELSE AfterExec)
              /\ UNCHANGED faults
           \/ /\ client = "ready"
              /\ Fault /\ Gone
              /\ \E n \in 1 .. Len(query.stmts) :
                    IF intx \/ ~autocommit THEN UNCHANGED committed
                    ELSE committed' = committed \union Writes(call, query, n)
              /\ Go(AfterExec)
              /\ UNCHANGED returned

\* mysql_next_result, until there is none, it fails, or rows are in the way.
Drain ==
    /\ pc = "drain"
    /\ IF client = "more"
       THEN Read(results, "unread") /\ UNCHANGED pc
       ELSE Go(AfterExec) /\ UNCHANGED <<client, results>>
    /\ UNCHANGED <<opened, session, committed, told, ignored, faults>>

RollbackTransaction == pc = "commit" /\ Send(Rollback, FALSE, "autocommit on")

CommitTransaction == pc = "commit" /\ Send(Commit, TRUE, "autocommit on")

AutocommitStaysOff ==
    /\ pc = "autocommit on" /\ Go("using")
    /\ UNCHANGED <<link, session, committed, told, ignored, faults>>

AutocommitOn == pc = "autocommit on" /\ Send(SetAutocommit(TRUE), ~autocommit, "using")

-----------------------------------------------------------------------------
(* The other uses of the connection *)

\* is_connected and ping, which needs a client that is ready.
Usable == client = "ready"

\* lockConnection: hand it out, after connecting again if need be, which
\* closes the old session first; no MysqlData of that may be used any more.
Take ==
    /\ pc = "idle"
    /\ Go("using")
    /\ IF Usable THEN UNCHANGED <<link, session>>
       ELSE /\ client' = "ready" /\ results' = <<>> /\ opened' = FALSE
            /\ autocommit' = TRUE /\ RolledBack
    /\ UNCHANGED <<committed, told, ignored, faults>>

\* open, of one SELECT or two: the rows are left to be fetched by the caller.
OpenRows ==
    /\ pc = "using" /\ client = "ready"
    /\ client' = "rows" /\ opened' = TRUE
    /\ results' \in {<<>>, <<"select">>}
    /\ UNCHANGED <<pc, session, committed, told, ignored, faults>>

RowsFreedReady == "ready"

RowsFreed == IF results = <<>> THEN "ready" ELSE "more"

\* The caller frees them (next, ~MysqlData, more, which then goes on).
FreeRows ==
    /\ pc = "using" /\ client = "rows"
    /\ client' = RowsFreed
    /\ UNCHANGED <<pc, results, opened, session, committed, told, ignored, faults>>

\* MysqlData::more fetches whatever result the connection has next: those of
\* an execute as well, long after the object's own rows were read.
More ==
    /\ pc = "using" /\ opened
    /\ client = "more"
    /\ Read(results, "rows")
    /\ UNCHANGED <<pc, opened, session, committed, told, ignored, faults>>

\* unlock, which closes the connection if it is told to.
Release ==
    /\ pc = "using"
    /\ Go("idle")
    /\ \/ UNCHANGED <<link, session>>
       \/ /\ client' = "closed" /\ results' = <<>> /\ opened' = FALSE
          /\ pending' = {} /\ UNCHANGED <<autocommit, intx>>
    /\ UNCHANGED <<committed, told, ignored, faults>>

\* The server restarts, or drops the session.
LoseSession ==
    /\ Live
    /\ Fault /\ Gone
    /\ UNCHANGED <<pc, committed, told, ignored>>

Init ==
    /\ pc = "idle" /\ client = "closed" /\ results = <<>> /\ opened = FALSE
    /\ autocommit = TRUE /\ intx = FALSE /\ pending = {} /\ committed = {}
    /\ asked = <<>> /\ returned = <<>> /\ ignored = {} /\ faults = 0

Next ==
    \/ Take \/ OpenRows \/ FreeRows \/ More \/ Release \/ LoseSession
    \/ \E q \in Queries : Execute(q)
    \/ AutocommitOff \/ BeginTransaction \/ Exec \/ Drain
    \/ CommitTransaction \/ AutocommitOn

Spec == Init /\ [][Next]_vars

-----------------------------------------------------------------------------
(* Properties *)

\* Types; results wait to be read just when the client does not say it is
\* ready, and rows that can be freed have an owner.
TypeOK ==
    /\ pc \in {"idle", "using"} \union Executing
    /\ client \in Clients
    /\ results \in Seq(Kinds) /\ opened \in BOOLEAN
    /\ autocommit \in BOOLEAN /\ intx \in BOOLEAN
    /\ asked \in Seq(Queries) /\ returned \in Seq(BOOLEAN) /\ Len(returned) = Len(asked)
    /\ pending \subseteq (1 .. Len(asked)) \X Nat
    /\ committed \subseteq (1 .. Len(asked)) \X Nat
    /\ ignored \subseteq (1 .. Len(asked)) \X Commands
    /\ faults \in 0 .. MaxFaults
    /\ pc \in Executing => call > 0
    /\ client = "more" => results # <<>>
    /\ client \in {"ready", "dead", "closed"} => results = <<>>
    /\ client = "rows" => opened

\* A query runs outside of any transaction only if both commands that should
\* have opened one failed.
Unprotected(c) == {<<c, "autocommit off">>, <<c, "begin">>} \subseteq ignored

\* When execute returns FALSE nothing of the query is in the database, then
\* and later, though COMMIT is sent and the answer to the query may be lost:
\* unless the query was unprotected.
FailedLeavesNothing ==
    \A w \in committed : returned[w[1]] \/ Unprotected(w[1])

\* Who is handed the connection gets a session in its first mode and outside
\* of any transaction, with no write of an earlier user in it: unless the
\* commands that should have left it so failed in the execute before.
CleanForNextUser ==
    pc = "using" /\ client \in {"ready", "rows"} =>
        /\ autocommit \/ <<call, "autocommit on">> \in ignored
        /\ (~intx /\ pending = {}) \/ <<call, "commit">> \in ignored

\* Of the statements of a query up to the first that fails, all are kept or
\* none: unless the query was unprotected.
KeptTogether ==
    \A c \in DOMAIN asked :
        LET kept == {w \in committed : w[1] = c}
        IN kept = {} \/ kept = AllWrites(c) \/ Unprotected(c)

\* The database changes only during the execute whose query it was, or during
\* a later one if the COMMIT of that query failed.
CommitsInOwnCall ==
    [][\A w \in committed' \ committed :
          pc \in Executing /\ (w[1] = call \/ <<w[1], "commit">> \in ignored)]_vars

\* execute returns TRUE over a connection that is still good only after the
\* database has kept what the query wrote: unless COMMIT failed, or one of the
\* later statements ended the transaction.
SucceededIsKept ==
    [][(/\ pc \in Executing /\ pc' = "using" /\ client' = "ready" /\ returned[call]
        /\ <<call, "commit">> \notin ignored' /\ ~Deadlocks(query))
       => AllWrites(call) \subseteq committed']_vars
=============================================================================
