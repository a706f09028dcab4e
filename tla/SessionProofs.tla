---------------------------- MODULE SessionProofs ----------------------------
(***************************************************************************)
(* What execute promises, for every set of queries and any number of calls *)
(* and faults.  The strengthening Inv follows the session through a call:  *)
(* what mode it is in at each command the client can still send, and whose *)
(* writes its open transaction may hold.  What execute makes of a command  *)
(* that fails is nothing, so every part of Inv about the mode has the      *)
(* command that should have set it as its alternative.                     *)
(***************************************************************************)
EXTENDS Session, SequenceTheorems, TLAPS

\* The writes of one query among some.
Of(c, W) == {w \in W : w[1] = c}

\* What is committed, or may be, is of queries that returned TRUE.
OfSucceeded ==
    /\ \A w \in pending : returned[w[1]]
    /\ FailedLeavesNothing

\* A transaction holds all of a query or nothing.
PendingTogether == \A c \in DOMAIN asked : Of(c, pending) \in {{}, AllWrites(c)}

\* It holds the query under way, and those whose COMMIT failed.
Owners ==
    \A w \in pending :
        \/ <<w[1], "commit">> \in ignored
        \/ w[1] = call /\ pc \in {"drain", "commit"}

NotRun == pc \in {"autocommit off", "begin", "query"} => ~returned[call]

\* At each command that can still be sent, what those before it have done.
Modes ==
    /\ ~Live => pending = {}
    /\ client = "ready" /\ pc = "begin" =>
           ~autocommit \/ <<call, "autocommit off">> \in ignored
    /\ client = "ready" /\ pc = "query" => ~autocommit \/ intx \/ Unprotected(call)
    /\ Live /\ pc \in {"autocommit on", "idle", "using"} =>
           (~intx /\ pending = {}) \/ <<call, "commit">> \in ignored
    /\ Live /\ pc \in {"idle", "using"} => autocommit \/ <<call, "autocommit on">> \in ignored

\* What a query that returned TRUE wrote is not lost.
Kept ==
    Live /\ pc \in {"drain", "commit", "autocommit on"} /\ returned[call] /\ ~Deadlocks(query) =>
        \/ AllWrites(call) \subseteq committed
        \/ pc # "autocommit on" /\ AllWrites(call) \subseteq committed \union pending
        \/ pc = "autocommit on" /\ <<call, "commit">> \in ignored

Inv ==
    /\ TypeOK /\ OfSucceeded /\ KeptTogether /\ PendingTogether
    /\ Owners /\ NotRun /\ Modes /\ Kept

-----------------------------------------------------------------------------

\* The writes of a query are its own, and a query whose first statement fails
\* makes none.
LEMMA WritesOfQuery ==
    ASSUME NEW c \in Nat, NEW q \in Queries, NEW n \in Nat
    PROVE  /\ Writes(c, q, n) \subseteq {c} \X Nat
           /\ q.stmts[1] \in Failures => Writes(c, q, n) = {}
<1>1. q.stmts \in Seq(Kinds) /\ q.stmts # <<>>
  BY SessionAssumption
<1>2. DOMAIN q.stmts \subseteq Nat \ {0}
  BY <1>1
<1> QED
  BY <1>2 DEF Writes

\* While a query runs it is one of the queries, and has a first statement.
LEMMA QueryFacts ==
    ASSUME TypeOK, call > 0
    PROVE  /\ call \in Nat /\ call \in DOMAIN asked /\ call \in DOMAIN returned
           /\ query = asked[call] /\ query \in Queries
           /\ query.stmts \in Seq(Kinds) /\ Len(query.stmts) \in Nat /\ Len(query.stmts) >= 1
           /\ query.multiline \in BOOLEAN
<1>1. call \in Nat /\ call \in DOMAIN asked /\ call \in DOMAIN returned
  BY DEF TypeOK, call
<1>2. query = asked[call] /\ query \in Queries
  BY <1>1 DEF TypeOK, query
<1>3. query.stmts \in Seq(Kinds) /\ query.stmts # <<>> /\ query.multiline \in BOOLEAN
  BY <1>2, SessionAssumption
<1>4. Len(query.stmts) \in Nat /\ Len(query.stmts) # 0
  BY <1>3, EmptySeq, LenProperties
<1> QED
  BY <1>1, <1>2, <1>3, <1>4

\* What the query under way writes is its own.
LEMMA AllIsOwn ==
    ASSUME TypeOK, call > 0
    PROVE  /\ AllWrites(call) \subseteq {call} \X Nat
           /\ query.stmts[1] \in Failures => AllWrites(call) = {}
BY QueryFacts, WritesOfQuery DEF AllWrites

\* What a step that keeps the queries and their results leaves as it is.
LEMMA SameQuery ==
    ASSUME UNCHANGED told
    PROVE  /\ asked' = asked /\ returned' = returned /\ call' = call /\ query' = query
           /\ \A c : AllWrites(c)' = AllWrites(c)
           /\ Deadlocks(query)' = Deadlocks(query)
BY DEF told, call, query, AllWrites, Writes, Deadlocks

\* A failure that is known stays known.
LEMMA UnprotectedStays ==
    ASSUME ignored \subseteq ignored', NEW c, Unprotected(c)
    PROVE  Unprotected(c)'
BY DEF Unprotected

\* Committing the open transaction, or nothing, keeps what the database holds
\* together, and of queries that succeeded.
LEMMA CommitPending ==
    ASSUME OfSucceeded, KeptTogether, PendingTogether, UNCHANGED told,
           ignored \subseteq ignored', pending' = pending \/ pending' = {},
           committed' = committed \/ committed' = committed \union pending
    PROVE  OfSucceeded' /\ KeptTogether' /\ PendingTogether'
<1>1. asked' = asked /\ returned' = returned /\ \A c : AllWrites(c)' = AllWrites(c)
  BY SameQuery
<1>2. \A c : Unprotected(c) => Unprotected(c)'
  BY UnprotectedStays
<1>3. OfSucceeded'
  BY <1>1, <1>2 DEF OfSucceeded, FailedLeavesNothing
<1>4. PendingTogether'
  BY <1>1 DEF PendingTogether, Of
<1>5. ASSUME NEW c \in DOMAIN asked
      PROVE  LET kept == {w \in committed' : w[1] = c}
             IN  kept = {} \/ kept = AllWrites(c)' \/ Unprotected(c)'
  <2> DEFINE kept == {w \in committed : w[1] = c}
             kept2 == {w \in committed' : w[1] = c}
  <2>1. kept = {} \/ kept = AllWrites(c) \/ Unprotected(c)
    BY DEF KeptTogether
  <2>2. kept2 = kept \/ kept2 = kept \union Of(c, pending)
    BY DEF Of
  <2>3. Of(c, pending) = {} \/ Of(c, pending) = AllWrites(c)
    BY DEF PendingTogether
  <2> HIDE DEF kept, kept2
  <2>4. kept2 = {} \/ kept2 = AllWrites(c) \/ Unprotected(c)
    BY <2>1, <2>2, <2>3
  <2> QED
    BY <1>1, <1>2, <2>4 DEF kept2
<1>6. KeptTogether'
  BY <1>1, <1>5 DEF KeptTogether
<1> QED
  BY <1>3, <1>4, <1>6

-----------------------------------------------------------------------------

LEMMA InitInv ==
    ASSUME Init
    PROVE  Inv
<1>1. asked \in Seq(Queries) /\ returned \in Seq(BOOLEAN) /\ results \in Seq(Kinds)
      /\ Len(asked) = 0 /\ Len(returned) = 0
  BY EmptySeq DEF Init
<1>2. TypeOK
  <2>1. pc = "idle" /\ client = "closed" /\ results = <<>> /\ pc \notin Executing
    BY DEF Init, Executing, Commands
  <2>2. pending = {} /\ committed = {} /\ ignored = {}
    BY DEF Init
  <2>3. autocommit \in BOOLEAN /\ intx \in BOOLEAN /\ opened \in BOOLEAN
    BY DEF Init
  <2>4. faults \in 0 .. MaxFaults
    BY SessionAssumption DEF Init
  <2> QED
    BY <1>1, <2>1, <2>2, <2>3, <2>4 DEF TypeOK, Clients
<1>3. DOMAIN asked = {}
  BY <1>1
<1>4. KeptTogether /\ PendingTogether
  BY <1>3 DEF KeptTogether, PendingTogether
<1>5. OfSucceeded /\ Owners /\ NotRun /\ Modes /\ Kept
  BY DEF Init, OfSucceeded, FailedLeavesNothing, Owners, NotRun, Modes, Kept, Live
<1> QED
  BY <1>2, <1>4, <1>5 DEF Inv

\* Reading a result keeps the types.
LEMMA ReadType ==
    ASSUME NEW rs \in Seq(Kinds), rs # <<>>, NEW rows \in {"rows", "unread"}, Read(rs, rows)
    PROVE  /\ results' \in Seq(Kinds)
           /\ client' \in {"ready", "more", rows}
           /\ client' = "more" => results' # <<>>
           /\ client' = "ready" => results' = <<>>
<1>1. Head(rs) \in Kinds /\ Tail(rs) \in Seq(Kinds)
  BY HeadTailProperties
<1>2. <<>> \in Seq(Kinds)
  BY EmptySeq
<1>3. results' \in Seq(Kinds)
  BY <1>1, <1>2 DEF Read
<1>4. client' \in {"ready", "more", rows} /\ (client' = "more" => results' # <<>>)
  BY DEF Read, Failures
<1>5. ASSUME client' = "ready" PROVE results' = <<>>
  BY <1>1, <1>5 DEF Read, Kinds, Failures
<1> QED
  BY <1>3, <1>4, <1>5

\* Steps between two calls of execute.
LEMMA BetweenCalls ==
    ASSUME Inv, Take \/ OpenRows \/ FreeRows \/ More \/ Release
    PROVE  Inv'
<1>1. /\ UNCHANGED <<committed, told, ignored, faults>>
      /\ pc \in {"idle", "using"} /\ pc' \in {"idle", "using"}
  BY DEF Take, OpenRows, FreeRows, More, Release, Go
<1>2. call' = call /\ query' = query /\ asked' = asked /\ returned' = returned
  BY <1>1, SameQuery
<1>3. \/ pending' = pending /\ intx' = intx /\ autocommit' = autocommit
      \/ pending' = {} /\ intx' = FALSE /\ autocommit' = TRUE
      \/ pending' = {} /\ client' = "closed" /\ intx' \in BOOLEAN /\ autocommit' \in BOOLEAN
  BY DEF Inv, TypeOK, Take, OpenRows, FreeRows, More, Release, session, RolledBack
<1>4. /\ client' \in Clients /\ results' \in Seq(Kinds) /\ opened' \in BOOLEAN
      /\ client' = "more" => results' # <<>>
      /\ client' \in {"ready", "dead", "closed"} => results' = <<>>
      /\ client' = "rows" => opened'
  <2>1. CASE Take
    BY <2>1, EmptySeq DEF Inv, TypeOK, Take, link, Clients
  <2>2. CASE OpenRows
    <3>1. <<>> \in Seq(Kinds) /\ <<"select">> \in Seq(Kinds)
      BY EmptySeq DEF Kinds
    <3> QED
      BY <2>2, <3>1 DEF OpenRows, Clients
  <2>3. CASE FreeRows
    BY <2>3 DEF Inv, TypeOK, FreeRows, RowsFreed, Clients
  <2>4. CASE More
    <3>1. results \in Seq(Kinds) /\ results # <<>> /\ Read(results, "rows") /\ opened' = TRUE
      BY <2>4 DEF Inv, TypeOK, More
    <3> QED
      BY <3>1, ReadType DEF Clients
  <2>5. CASE Release
    <3>1. \/ client' = client /\ results' = results /\ opened' = opened
          \/ client' = "closed" /\ results' = <<>> /\ opened' = FALSE
      BY <2>5 DEF Release, link
    <3> QED
      BY <3>1, EmptySeq DEF Inv, TypeOK, Clients
  <2> QED
    BY <2>1, <2>2, <2>3, <2>4, <2>5
<1>5. Live' => Live \/ (pending' = {} /\ intx' = FALSE /\ autocommit' = TRUE)
  BY DEF Take, OpenRows, FreeRows, More, Release, link, Live, RolledBack
<1>6. TypeOK'
  BY <1>1, <1>2, <1>3, <1>4 DEF Inv, TypeOK, Executing, Commands
<1>7. OfSucceeded' /\ KeptTogether' /\ PendingTogether'
  BY <1>1, <1>3, CommitPending DEF Inv
<1>8. Owners' /\ NotRun' /\ Kept'
  BY <1>1, <1>2, <1>3 DEF Inv, Owners, NotRun, Kept
<1>9. Modes'
  <2>1. pending' = {} \/ UNCHANGED pending
    BY <1>3
  <2>2. ~Live' => pending' = {}
    <3>1. CASE Release
      BY <3>1 DEF Inv, Modes, Release, link, session, Live
    <3>2. CASE More
      <4>1. results \in Seq(Kinds) /\ results # <<>> /\ Read(results, "rows")
        BY <3>2 DEF Inv, TypeOK, More
      <4> QED
        BY <4>1, ReadType DEF Live
    <3>3. CASE Take \/ OpenRows \/ FreeRows
      BY <3>3 DEF Take, OpenRows, FreeRows, RowsFreed, Usable, link, Live
    <3> QED
      BY <3>1, <3>2, <3>3
  <2>3. Live' => (~intx' /\ pending' = {}) \/ <<call, "commit">> \in ignored
    BY <1>1, <1>3, <1>5 DEF Inv, Modes, Live
  <2>4. Live' => autocommit' \/ <<call, "autocommit on">> \in ignored
    BY <1>1, <1>3, <1>5 DEF Inv, Modes, Live
  <2> QED
    BY <1>1, <1>2, <2>2, <2>3, <2>4 DEF Modes
<1> QED
  BY <1>6, <1>7, <1>8, <1>9 DEF Inv

LEMMA LossInv ==
    ASSUME Inv, LoseSession
    PROVE  Inv'
<1>1. /\ UNCHANGED <<pc, committed, told, ignored, opened, autocommit, intx>>
      /\ pending' = {} /\ client' = "dead" /\ results' = <<>>
  BY DEF LoseSession, Gone
<1>2. call' = call /\ query' = query /\ asked' = asked /\ returned' = returned
  BY <1>1, SameQuery
<1>3. TypeOK'
  BY <1>1, <1>2, EmptySeq, SessionAssumption
     DEF Inv, TypeOK, LoseSession, Fault, Clients
<1>4. OfSucceeded' /\ KeptTogether' /\ PendingTogether'
  BY <1>1, CommitPending DEF Inv
<1>5. Owners' /\ NotRun' /\ Modes' /\ Kept'
  BY <1>1, <1>2 DEF Inv, Owners, NotRun, Modes, Kept, Live
<1> QED
  BY <1>3, <1>4, <1>5 DEF Inv

\* What a sequence with an element appended holds.
LEMMA Appended ==
    ASSUME NEW S, NEW s \in Seq(S), NEW e \in S, NEW t, t = Append(s, e)
    PROVE  /\ t \in Seq(S) /\ Len(t) = Len(s) + 1
           /\ \A c \in 1 .. Len(s) : t[c] = s[c]
           /\ t[Len(s) + 1] = e
BY AppendProperties

\* The call starts: its query is the last asked, and has written nothing.
LEMMA ExecuteInv ==
    ASSUME Inv, NEW q \in Queries, Execute(q)
    PROVE  Inv'
<1>1. /\ asked \in Seq(Queries) /\ returned \in Seq(BOOLEAN) /\ Len(returned) = Len(asked)
      /\ asked' = Append(asked, q) /\ returned' = Append(returned, FALSE)
      /\ pc = "using" /\ pc' = "autocommit off"
      /\ UNCHANGED <<client, results, opened, autocommit, intx, pending, committed, ignored,
                     faults>>
  BY DEF Inv, TypeOK, Execute, link, session, Go, FirstStep, InTransaction
<1>2. /\ Len(asked) \in Nat /\ Len(asked') = Len(asked) + 1 /\ Len(returned') = Len(asked) + 1
      /\ asked' \in Seq(Queries) /\ returned' \in Seq(BOOLEAN)
      /\ \A c \in 1 .. Len(asked) : asked'[c] = asked[c] /\ returned'[c] = returned[c]
      /\ returned'[Len(asked) + 1] = FALSE
  <2>1. Len(asked) \in Nat
    BY <1>1, LenProperties
  <2>2. /\ asked' \in Seq(Queries) /\ Len(asked') = Len(asked) + 1
        /\ \A c \in 1 .. Len(asked) : asked'[c] = asked[c]
    <3>1. asked \in Seq(Queries) /\ asked' = Append(asked, q)
      BY <1>1
    <3> QED
      BY ONLY q \in Queries, <3>1, Appended, SMTT(20)
  <2>3. /\ returned' \in Seq(BOOLEAN) /\ Len(returned') = Len(returned) + 1
        /\ \A c \in 1 .. Len(returned) : returned'[c] = returned[c]
        /\ returned'[Len(returned) + 1] = FALSE
    <3>1. FALSE \in BOOLEAN /\ returned \in Seq(BOOLEAN) /\ returned' = Append(returned, FALSE)
      BY <1>1
    <3> QED
      BY ONLY <3>1, Appended, SMTT(20)
  <2> QED
    BY <1>1, <2>1, <2>2, <2>3
<1>3. call' = Len(asked) + 1 /\ call = Len(asked)
  BY <1>2 DEF call
<1>4. /\ \A w \in committed \union pending \union ignored : w[1] \in 1 .. Len(asked)
      /\ 1 .. Len(asked) \subseteq 1 .. Len(asked')
  BY <1>2 DEF Inv, TypeOK
<1>5. TypeOK'
  <2>1. /\ pending \subseteq (1 .. Len(asked')) \X Nat
        /\ committed \subseteq (1 .. Len(asked')) \X Nat
        /\ ignored \subseteq (1 .. Len(asked')) \X Commands
    BY <1>4 DEF Inv, TypeOK
  <2>2. pc' \in Executing
    BY <1>1 DEF Executing, Commands
  <2>3. call' > 0
    BY <1>2, <1>3
  <2> QED
    BY <1>1, <1>2, <2>1, <2>2, <2>3 DEF Inv, TypeOK
<1>6. OfSucceeded'
  BY <1>1, <1>2, <1>4 DEF Inv, OfSucceeded, FailedLeavesNothing, Unprotected
<1>7. DOMAIN asked = 1 .. Len(asked) /\ DOMAIN asked' = 1 .. Len(asked) + 1
  BY <1>1, <1>2, LenProperties
<1>8. \A c \in 1 .. Len(asked) : AllWrites(c)' = AllWrites(c)
  BY <1>2 DEF AllWrites, Writes
<1>9. Of(Len(asked) + 1, committed) = {} /\ Of(Len(asked) + 1, pending) = {}
  BY <1>2, <1>4 DEF Of
<1>10. ASSUME NEW c \in DOMAIN asked'
       PROVE  /\ Of(c, pending) \in {{}, AllWrites(c)'}
              /\ Of(c, committed) \in {{}, AllWrites(c)'} \/ Unprotected(c)
  <2>1. CASE c \in 1 .. Len(asked)
    BY <1>7, <1>8, <2>1 DEF Inv, KeptTogether, PendingTogether, Of
  <2>2. CASE c = Len(asked) + 1
    BY <1>9, <2>2
  <2> QED
    BY <1>2, <1>7, <2>1, <2>2
<1>11. KeptTogether' /\ PendingTogether'
  BY <1>1, <1>10 DEF KeptTogether, PendingTogether, Unprotected, Of
<1>12. Owners'
  BY <1>1 DEF Inv, Owners
<1>13. NotRun' /\ Modes' /\ Kept'
  BY <1>1, <1>2, <1>3 DEF Inv, NotRun, Modes, Kept, Live
<1> QED
  BY <1>5, <1>6, <1>11, <1>12, <1>13 DEF Inv

\* A step of transactionStart or transactionCommit.
Transaction == AutocommitOff \/ BeginTransaction \/ CommitTransaction \/ AutocommitOn

\* The command the client is at, and what follows it.
Done ==
    \/ pc = "autocommit off" /\ SetAutocommit(FALSE)
    \/ pc = "begin" /\ Begin
    \/ pc = "commit" /\ Commit
    \/ pc = "autocommit on" /\ SetAutocommit(TRUE)

Follows ==
    \/ pc = "autocommit off" /\ pc' = "begin"
    \/ pc = "begin" /\ pc' = "query"
    \/ pc = "commit" /\ pc' = "autocommit on"
    \/ pc = "autocommit on" /\ pc' = "using"

\* Its four fates.
LEMMA Fates ==
    ASSUME Transaction
    PROVE  /\ Follows /\ UNCHANGED told /\ UNCHANGED opened
           /\ \/ Refused
              \/ Denied
              \/ client = "ready" /\ Done /\ UNCHANGED <<client, results, ignored, faults>>
              \/ /\ client = "ready" /\ Fault /\ Gone /\ UNCHANGED ignored
                 /\ UNCHANGED committed \/ committed' = committed \union pending
<1>1. CASE AutocommitOff
  BY <1>1 DEF AutocommitOff, Send, Go, Follows, Done
<1>2. CASE BeginTransaction
  BY <1>2 DEF BeginTransaction, Send, Go, Follows, Done
<1>3. CASE CommitTransaction
  BY <1>3 DEF CommitTransaction, Send, Go, Follows, Done
<1>4. CASE AutocommitOn
  BY <1>4 DEF AutocommitOn, Send, Go, Follows, Done
<1> QED
  BY <1>1, <1>2, <1>3, <1>4 DEF Transaction

\* What sending a command leaves alone, whatever becomes of it.
LEMMA SendFacts ==
    ASSUME Inv, Transaction
    PROVE  /\ Follows /\ UNCHANGED told
           /\ TypeOK' /\ OfSucceeded' /\ KeptTogether' /\ PendingTogether'
           /\ ignored \subseteq ignored'
           /\ pending' = pending \/ pending' = {}
           /\ committed' = committed \/ (client = "ready" /\ committed' = committed \union pending)
           /\ \/ /\ client # "ready" /\ UNCHANGED <<client, autocommit, intx, pending, committed>>
                 /\ Live => <<call, pc>> \in ignored'
              \/ /\ client = "ready" /\ client' = "ready"
                 /\ UNCHANGED <<autocommit, committed>>
                 /\ <<call, pc>> \in ignored'
                 /\ \/ UNCHANGED <<intx, pending>>
                    \/ intx' = FALSE /\ pending' = {}
              \/ client = "ready" /\ client' = "ready" /\ Done /\ UNCHANGED ignored
              \/ client' = "dead" /\ pending' = {}
<1>1. /\ Follows /\ UNCHANGED told /\ opened' = opened
      /\ pc \in Commands /\ pc' \in Executing \union {"using"} /\ pc \in Executing
  BY Fates DEF Follows, Commands, Executing
<1>2. call > 0 /\ call \in Nat /\ call \in 1 .. Len(asked)
  BY <1>1, QueryFacts DEF Inv, TypeOK, call
<1>3. CASE Refused
  <2>1. /\ client # "ready"
        /\ UNCHANGED <<client, results, autocommit, intx, pending, committed, faults>>
        /\ \/ ignored' = ignored \/ ignored' = ignored \union {<<call, pc>>}
        /\ Live => <<call, pc>> \in ignored'
    BY <1>3 DEF Refused, Ignored, session
  <2>2. OfSucceeded' /\ KeptTogether' /\ PendingTogether'
    BY <1>1, <2>1, CommitPending DEF Inv
  <2>3. TypeOK'
    BY <1>1, <1>2, <2>1, SameQuery DEF Inv, TypeOK
  <2> QED
    BY <1>1, <2>1, <2>2, <2>3
<1>4. CASE Denied
  <2>1. /\ client = "ready" /\ client' = "ready"
        /\ UNCHANGED <<results, autocommit, committed>>
        /\ faults' = faults + 1 /\ faults < MaxFaults
        /\ ignored' = ignored \union {<<call, pc>>}
        /\ \/ intx' = intx /\ pending' = pending
           \/ intx' = FALSE /\ pending' = {}
    BY <1>4 DEF Denied, Ignored, Fault, RolledBack
  <2>2. OfSucceeded' /\ KeptTogether' /\ PendingTogether'
    BY <1>1, <2>1, CommitPending DEF Inv
  <2>3. TypeOK'
    <3>1. pending' \subseteq (1 .. Len(asked)) \X Nat /\ intx' \in BOOLEAN
      BY <2>1 DEF Inv, TypeOK
    <3>2. ignored' \subseteq (1 .. Len(asked)) \X Commands /\ faults' \in 0 .. MaxFaults
      BY <1>1, <1>2, <2>1, SessionAssumption DEF Inv, TypeOK
    <3> QED
      BY <1>1, <1>2, <2>1, <3>1, <3>2, SameQuery DEF Inv, TypeOK
  <2> QED
    BY <1>1, <2>1, <2>2, <2>3
<1>5. CASE client = "ready" /\ Done /\ UNCHANGED <<client, results, ignored, faults>>
  <2>4. /\ autocommit' \in BOOLEAN /\ intx' \in BOOLEAN
        /\ pending' = pending \/ pending' = {}
        /\ committed' = committed \/ committed' = committed \union pending
    BY <1>5 DEF Inv, TypeOK, Done, SetAutocommit, Begin, Commit, RolledBack
  <2>1. OfSucceeded' /\ KeptTogether' /\ PendingTogether'
    BY <1>1, <1>5, <2>4, CommitPending DEF Inv
  <2>2. pending' \subseteq (1 .. Len(asked)) \X Nat /\ committed' \subseteq (1 .. Len(asked)) \X Nat
    BY <2>4 DEF Inv, TypeOK
  <2>3. TypeOK'
    BY <1>1, <1>2, <1>5, <2>4, <2>2, SameQuery DEF Inv, TypeOK
  <2> QED
    BY <1>1, <1>5, <2>4, <2>1, <2>3
<1>6. CASE /\ client = "ready" /\ Fault /\ Gone /\ UNCHANGED ignored
           /\ UNCHANGED committed \/ committed' = committed \union pending
  <2>1. /\ client' = "dead" /\ results' = <<>> /\ pending' = {} /\ UNCHANGED <<autocommit, intx>>
        /\ faults' = faults + 1 /\ faults < MaxFaults
        /\ committed' = committed \/ committed' = committed \union pending
    BY <1>6 DEF Gone, Fault
  <2>2. OfSucceeded' /\ KeptTogether' /\ PendingTogether'
    BY <1>1, <1>6, <2>1, CommitPending DEF Inv
  <2>3. committed' \subseteq (1 .. Len(asked)) \X Nat
    BY <2>1 DEF Inv, TypeOK
  <2>4. TypeOK'
    BY <1>1, <1>2, <1>6, <2>1, <2>3, SameQuery, SessionAssumption, EmptySeq
       DEF Inv, TypeOK, Clients
  <2> QED
    BY <1>1, <1>6, <2>1, <2>2, <2>4
<1> QED
  BY <1>3, <1>4, <1>5, <1>6, Fates

LEMMA TransactionInv ==
    ASSUME Inv, Transaction
    PROVE  Inv'
<1>1. /\ TypeOK' /\ OfSucceeded' /\ KeptTogether' /\ PendingTogether'
      /\ Follows /\ ignored \subseteq ignored'
      /\ call' = call /\ query' = query /\ returned' = returned
      /\ AllWrites(call)' = AllWrites(call) /\ Deadlocks(query)' = Deadlocks(query)
  BY SendFacts, SameQuery
<1>2. NotRun'
  BY <1>1 DEF Inv, NotRun, Follows
<1>3. CASE /\ client # "ready" /\ UNCHANGED <<client, autocommit, intx, pending, committed>>
           /\ Live => <<call, pc>> \in ignored'
  <2>1. Owners'
    BY <1>1, <1>3 DEF Inv, Owners, Modes, Follows
  <2>2. Modes' /\ Kept'
    BY <1>1, <1>3 DEF Inv, Modes, Kept, Live, Follows
  <2> QED
    BY <1>1, <1>2, <2>1, <2>2 DEF Inv
<1>4. CASE /\ client = "ready" /\ client' = "ready"
           /\ UNCHANGED <<autocommit, committed>>
           /\ <<call, pc>> \in ignored'
           /\ UNCHANGED <<intx, pending>> \/ (intx' = FALSE /\ pending' = {})
  <2>1. Owners'
    BY <1>1, <1>4 DEF Inv, Owners, Follows
  <2>2. Modes'
    <3>1. CASE pc = "autocommit off"
      BY <1>1, <1>4, <3>1 DEF Inv, Modes, Live, Follows
    <3>2. CASE pc = "begin"
      <4>1. pc' = "query" /\ (~autocommit' \/ Unprotected(call)')
        BY <1>1, <1>4, <3>2 DEF Inv, Modes, Follows, Unprotected
      <4> QED
        BY <1>1, <1>4, <4>1 DEF Modes, Live
    <3>3. CASE pc = "commit"
      BY <1>1, <1>4, <3>3 DEF Inv, Modes, Live, Follows
    <3>4. CASE pc = "autocommit on"
      <4>1. pc' = "using"
        BY <1>1, <3>4 DEF Follows
      <4>2. <<call, "autocommit on">> \in ignored'
        BY <1>4, <3>4
      <4>3. (~intx' /\ pending' = {}) \/ <<call, "commit">> \in ignored'
        <5>1. (~intx /\ pending = {}) \/ <<call, "commit">> \in ignored
          BY <1>4, <3>4 DEF Inv, Modes, Live
        <5>2. CASE UNCHANGED <<intx, pending>>
          BY <1>1, <5>1, <5>2
        <5>3. CASE intx' = FALSE /\ pending' = {}
          BY <5>3
        <5> QED
          BY <1>4, <5>2, <5>3
      <4> QED
        BY <1>1, <1>4, <4>1, <4>2, <4>3 DEF Modes, Live
    <3> QED
      BY <1>1, <3>1, <3>2, <3>3, <3>4 DEF Follows
  <2>3. Kept'
    BY <1>1, <1>4 DEF Inv, Kept, Live, Follows
  <2> QED
    BY <1>1, <1>2, <2>1, <2>2, <2>3 DEF Inv
<1>5. CASE client = "ready" /\ client' = "ready" /\ Done /\ UNCHANGED ignored
  <2>1. CASE pc = "autocommit off"
    <3>1. pc' = "begin" /\ autocommit' = FALSE /\ UNCHANGED <<intx, pending, committed>>
      BY <1>1, <1>5, <2>1 DEF Follows, Done, SetAutocommit
    <3>2. Owners' /\ Modes' /\ Kept'
      BY <1>1, <1>5, <2>1, <3>1 DEF Inv, Owners, Modes, Kept, Live
    <3> QED
      BY <1>1, <1>2, <3>2 DEF Inv
  <2>2. CASE pc = "begin"
    <3>1. pc' = "query" /\ intx' = TRUE /\ pending' = {}
      BY <1>1, <1>5, <2>2 DEF Follows, Done, Begin
    <3>2. Owners' /\ Modes' /\ Kept'
      BY <1>1, <1>5, <2>2, <3>1 DEF Inv, Owners, Modes, Kept, Live
    <3> QED
      BY <1>1, <1>2, <3>2 DEF Inv
  <2>3. CASE pc = "commit"
    <3>1. /\ pc' = "autocommit on" /\ intx' = FALSE /\ pending' = {}
          /\ committed' = committed \union pending
      BY <1>1, <1>5, <2>3 DEF Follows, Done, Commit
    <3>2. Owners' /\ Modes'
      BY <1>1, <1>5, <2>3, <3>1 DEF Inv, Owners, Modes, Live
    <3>3. Kept'
      BY <1>1, <1>5, <2>3, <3>1 DEF Inv, Kept, Live
    <3> QED
      BY <1>1, <1>2, <3>2, <3>3 DEF Inv
  <2>4. CASE pc = "autocommit on"
    <3>1. /\ pc' = "using" /\ autocommit' = TRUE
          /\ UNCHANGED <<intx, pending>> \/ (intx' = FALSE /\ pending' = {})
      BY <1>1, <1>5, <2>4 DEF Follows, Done, SetAutocommit, RolledBack
    <3>2. Owners'
      BY <1>1, <1>5, <2>4, <3>1 DEF Inv, Owners
    <3>3. Modes'
      <4>1. (~intx' /\ pending' = {}) \/ <<call, "commit">> \in ignored'
        BY <1>1, <1>5, <2>4, <3>1 DEF Inv, Modes, Live
      <4>2. autocommit'
        BY <3>1
      <4> QED
        BY <1>1, <1>5, <3>1, <4>1, <4>2 DEF Modes, Live
    <3>4. Kept'
      BY <3>1 DEF Kept
    <3> QED
      BY <1>1, <1>2, <3>2, <3>3, <3>4 DEF Inv
  <2> QED
    BY <1>5, <2>1, <2>2, <2>3, <2>4 DEF Done
<1>6. CASE client' = "dead" /\ pending' = {}
  <2>1. Owners' /\ Modes' /\ Kept'
    BY <1>1, <1>6 DEF Owners, Modes, Kept, Live, Follows
  <2> QED
    BY <1>1, <1>2, <2>1 DEF Inv
<1> QED
  BY <1>3, <1>4, <1>5, <1>6, SendFacts

\* exec: the query runs as a whole, to its first failure, in the transaction or,
\* unprotected, on its own; or the session is lost under it.
LEMMA ExecInv ==
    ASSUME Inv, Exec
    PROVE  Inv'
<1> DEFINE succeeds == query.stmts[1] \notin Failures
<1>1. /\ pc = "query" /\ asked' = asked /\ opened' = opened /\ ignored' = ignored
      /\ pc' \in {"drain", "commit"} /\ call > 0
  BY DEF Inv, TypeOK, Exec, Go, AfterExec, InTransaction, Executing
<1>2. /\ call \in Nat /\ call \in 1 .. Len(asked) /\ call \in DOMAIN returned
      /\ query = asked[call] /\ query \in Queries /\ query.stmts \in Seq(Kinds)
      /\ query.stmts # <<>> /\ query.multiline \in BOOLEAN
      /\ returned[call] = FALSE /\ call' = call /\ query' = query
      /\ \A c : AllWrites(c)' = AllWrites(c)
      /\ Deadlocks(query)' = Deadlocks(query)
  <2>1. call' = call /\ query' = query
    BY <1>1 DEF call, query
  <2>2. /\ \A c : AllWrites(c)' = AllWrites(c)
        /\ Deadlocks(query)' = Deadlocks(query)
    BY <1>1, <2>1 DEF AllWrites, Writes, Deadlocks
  <2>3. returned[call] = FALSE
    BY <1>1, QueryFacts DEF Inv, TypeOK, NotRun
  <2>4. call \in 1 .. Len(asked) /\ query.stmts # <<>>
    BY <1>1, QueryFacts, EmptySeq DEF Inv, TypeOK, call
  <2> QED
    BY <1>1, <2>1, <2>2, <2>3, <2>4, QueryFacts DEF Inv
<1>3. pc' \in Executing /\ call' > 0
  BY <1>1, <1>2 DEF Executing, Commands
<1>4. AllWrites(call) \subseteq (1 .. Len(asked)) \X Nat
  BY <1>1, <1>2, AllIsOwn DEF Inv
<1>5. NotRun'
  BY <1>1 DEF NotRun
<1>6. CASE /\ client # "ready"
           /\ UNCHANGED <<client, results, session, committed, returned, faults>>
  <2>1. UNCHANGED <<told, autocommit, intx, pending>>
    BY <1>1, <1>6 DEF session, told
  <2>2. OfSucceeded' /\ KeptTogether' /\ PendingTogether'
    BY <1>1, <1>6, <2>1, CommitPending DEF Inv
  <2>3. TypeOK'
    BY <1>1, <1>3, <1>6, <2>1 DEF Inv, TypeOK
  <2>4. Owners' /\ Modes' /\ Kept'
    BY <1>1, <1>2, <1>6, <2>1 DEF Inv, Owners, Modes, Kept, Live
  <2> QED
    BY <1>5, <2>2, <2>3, <2>4 DEF Inv
<1>7. CASE /\ client = "ready"
           /\ Read(query.stmts, "unread")
           /\ Run(query, AllWrites(call))
           /\ returned' = [returned EXCEPT ![call] = succeeds]
           /\ UNCHANGED faults
  <2>1. /\ results' \in Seq(Kinds) /\ client' \in {"ready", "more", "unread"}
        /\ client' = "more" => results' # <<>>
        /\ client' = "ready" => results' = <<>>
    BY <1>2, <1>7, ReadType
  <2>2. /\ returned' \in Seq(BOOLEAN) /\ Len(returned') = Len(returned)
        /\ DOMAIN returned' = DOMAIN returned
        /\ returned'[call] = succeeds
        /\ \A c \in DOMAIN returned : c # call => returned'[c] = returned[c]
    <3>1. returned \in Seq(BOOLEAN) /\ succeeds \in BOOLEAN
      BY DEF Inv, TypeOK
    <3> HIDE DEF succeeds
    <3> QED
      BY <1>2, <1>7, <3>1, ExceptSeq
  <2>3. /\ autocommit' = autocommit /\ intx' \in BOOLEAN
        /\ \/ /\ intx \/ ~autocommit
              /\ committed' = committed
              /\ \/ Deadlocks(query) /\ pending' = {}
                 \/ ~Deadlocks(query) /\ pending' = pending \union AllWrites(call)
           \/ /\ ~(intx \/ ~autocommit)
              /\ committed' = committed \union AllWrites(call) /\ pending' = pending
    BY <1>7 DEF Inv, TypeOK, Run, RolledBack
  <2>4. intx \/ ~autocommit \/ Unprotected(call)
    BY <1>1, <1>7 DEF Inv, Modes
  <2>5. AllWrites(call) = {} \/ succeeds
    BY <1>1, AllIsOwn DEF Inv
  <2>6. \A w \in AllWrites(call) : w[1] = call
    BY <1>1, AllIsOwn DEF Inv
  <2>7. /\ \A c \in DOMAIN returned : returned[c] => returned'[c]
        /\ DOMAIN returned = 1 .. Len(asked) /\ DOMAIN asked = 1 .. Len(asked)
    BY <1>2, <2>2 DEF Inv, TypeOK
  <2> HIDE DEF succeeds
  <2>8. TypeOK'
    <3>1. pending' \subseteq (1 .. Len(asked)) \X Nat /\ committed' \subseteq (1 .. Len(asked)) \X Nat
      BY <1>4, <2>3 DEF Inv, TypeOK
    <3>2. client' \in Clients /\ client' \notin {"rows", "dead", "closed"}
      BY <2>1 DEF Clients
    <3> QED
      BY <1>1, <1>3, <1>7, <2>1, <2>2, <2>3, <3>1, <3>2 DEF Inv, TypeOK
  <2>9. /\ \A w \in pending \union committed : w[1] \in DOMAIN returned
    BY <2>7 DEF Inv, TypeOK
  <2>10. OfSucceeded'
    <3>1. ASSUME NEW w \in pending' PROVE returned'[w[1]]
      BY <1>2, <2>2, <2>3, <2>5, <2>6, <2>7, <2>9, <3>1 DEF Inv, OfSucceeded
    <3>2. ASSUME NEW w \in committed' PROVE returned'[w[1]] \/ Unprotected(w[1])
      BY <1>2, <2>2, <2>3, <2>5, <2>6, <2>7, <2>9, <3>2
         DEF Inv, OfSucceeded, FailedLeavesNothing
    <3> QED
      BY <1>1, <3>1, <3>2 DEF OfSucceeded, FailedLeavesNothing, Unprotected
  <2>11. PendingTogether'
    <3>1. ASSUME NEW c \in DOMAIN asked PROVE Of(c, pending') \in {{}, AllWrites(c)}
      <4>1. Of(c, pending) \in {{}, AllWrites(c)}
        BY DEF Inv, PendingTogether
      <4>2. Of(c, AllWrites(call)) = IF c = call THEN AllWrites(call) ELSE {}
        BY <2>6 DEF Of
      <4>3. \/ Of(c, pending') = {}
            \/ Of(c, pending') = Of(c, pending)
            \/ Of(c, pending') = Of(c, pending) \union Of(c, AllWrites(call))
        BY <2>3 DEF Of
      <4> QED
        BY <4>1, <4>2, <4>3
    <3> QED
      BY <1>1, <1>2, <3>1 DEF PendingTogether, Of
  <2>12. KeptTogether'
    <3>1. ASSUME NEW c \in DOMAIN asked
          PROVE  Of(c, committed') = {} \/ Of(c, committed') = AllWrites(c) \/ Unprotected(c)
      <4>1. Of(c, committed) = {} \/ Of(c, committed) = AllWrites(c) \/ Unprotected(c)
        BY DEF Inv, KeptTogether, Of
      <4>2. CASE committed' = committed
        BY <4>1, <4>2
      <4>3. CASE Unprotected(call) /\ committed' = committed \union AllWrites(call)
        <5>1. c = call \/ Of(c, committed') = Of(c, committed)
          BY <2>6, <4>3 DEF Of
        <5> QED
          BY <4>1, <4>3, <5>1
      <4> QED
        BY <2>3, <2>4, <4>2, <4>3
    <3> QED
      BY <1>1, <1>2, <3>1 DEF KeptTogether, Of, Unprotected
  <2>13. Owners'
    <3>1. \A w \in pending : <<w[1], "commit">> \in ignored
      BY <1>1 DEF Inv, Owners
    <3> QED
      BY <1>1, <1>2, <2>3, <2>6, <3>1 DEF Owners
  <2>14. Modes'
    BY <1>1, <1>2, <2>1 DEF Modes, Live
  <2>15. Kept'
    BY <1>1, <1>2, <2>3 DEF Kept
  <2> QED
    BY <1>5, <2>8, <2>10, <2>11, <2>12, <2>13, <2>14, <2>15 DEF Inv
<1>8. CASE /\ client = "ready" /\ Fault /\ Gone
           /\ \E n \in 1 .. Len(query.stmts) :
                 IF intx \/ ~autocommit THEN UNCHANGED committed
                 ELSE committed' = committed \union Writes(call, query, n)
           /\ UNCHANGED returned
  <2>1. /\ client' = "dead" /\ results' = <<>> /\ pending' = {}
        /\ UNCHANGED <<autocommit, intx, told>>
        /\ faults' \in 0 .. MaxFaults
    BY <1>1, <1>8, SessionAssumption DEF Inv, TypeOK, Gone, Fault, told
  <2>2. PICK n \in 1 .. Len(query.stmts) :
                 IF intx \/ ~autocommit THEN UNCHANGED committed
                 ELSE committed' = committed \union Writes(call, query, n)
    BY <1>8
  <2>3. intx \/ ~autocommit \/ Unprotected(call)
    BY <1>1, <1>8 DEF Inv, Modes
  <2>4. Writes(call, query, n) \subseteq {call} \X Nat
    <3>1. n \in Nat
      BY <1>2, LenProperties
    <3> QED
      BY <1>2, <3>1, WritesOfQuery
  <2>5. \A w \in committed' : w \in committed \/ (w[1] = call /\ Unprotected(call))
    BY <2>2, <2>3, <2>4
  <2>6. TypeOK'
    <3>1. committed' \subseteq (1 .. Len(asked)) \X Nat
      BY <1>2, <2>2, <2>4 DEF Inv, TypeOK
    <3>2. results' \in Seq(Kinds)
      BY <2>1, EmptySeq
    <3> QED
      BY <1>1, <1>3, <1>8, <2>1, <3>1, <3>2 DEF Inv, TypeOK, Clients
  <2>7. OfSucceeded' /\ PendingTogether'
    BY <1>1, <1>2, <1>8, <2>1, <2>5
       DEF Inv, OfSucceeded, FailedLeavesNothing, PendingTogether, Of, Unprotected
  <2>8. KeptTogether'
    <3>1. ASSUME NEW c \in DOMAIN asked
          PROVE  Of(c, committed') = {} \/ Of(c, committed') = AllWrites(c) \/ Unprotected(c)
      <4>1. Of(c, committed) = {} \/ Of(c, committed) = AllWrites(c) \/ Unprotected(c)
        BY DEF Inv, KeptTogether, Of
      <4>2. committed \subseteq committed'
        BY <2>2
      <4>3. (c = call /\ Unprotected(call)) \/ Of(c, committed') = Of(c, committed)
        BY <2>5, <4>2 DEF Of
      <4> QED
        BY <4>1, <4>3
    <3> QED
      BY <1>1, <1>2, <3>1 DEF KeptTogether, Of, Unprotected
  <2>9. Owners' /\ Modes' /\ Kept'
    BY <1>1, <1>2, <2>1 DEF Owners, Modes, Kept, Live
  <2> QED
    BY <1>5, <2>6, <2>7, <2>8, <2>9 DEF Inv
<1> QED
  BY <1>6, <1>7, <1>8 DEF Exec

LEMMA DrainInv ==
    ASSUME Inv, Drain
    PROVE  Inv'
<1>1. /\ UNCHANGED <<opened, autocommit, intx, pending, committed, told, ignored, faults>>
      /\ pc = "drain" /\ pc' \in {"drain", "commit"}
  BY DEF Drain, Go, AfterExec, InTransaction, session
<1>2. /\ call' = call /\ query' = query /\ asked' = asked /\ returned' = returned
      /\ \A c : AllWrites(c)' = AllWrites(c)
      /\ Deadlocks(query)' = Deadlocks(query)
  BY <1>1, SameQuery
<1>3. /\ results' \in Seq(Kinds) /\ client' \in Clients /\ Live' = Live
      /\ client' = "more" => results' # <<>>
      /\ client' \in {"ready", "dead", "closed"} => results' = <<>>
      /\ client' = "rows" => opened
  <2>1. CASE client = "more"
    <3>1. results \in Seq(Kinds) /\ results # <<>> /\ Read(results, "unread")
      BY <2>1 DEF Inv, TypeOK, Drain
    <3> QED
      BY <2>1, <3>1, ReadType DEF Clients, Live
  <2>2. CASE client # "more"
    BY <2>2 DEF Inv, TypeOK, Drain, Live
  <2> QED
    BY <2>1, <2>2
<1>4. TypeOK'
  BY <1>1, <1>2, <1>3 DEF Inv, TypeOK, Executing, Commands
<1>5. OfSucceeded' /\ KeptTogether' /\ PendingTogether'
  BY <1>1, CommitPending DEF Inv
<1>6. Owners' /\ NotRun' /\ Modes' /\ Kept'
  BY <1>1, <1>2, <1>3 DEF Inv, Owners, NotRun, Modes, Kept
<1> QED
  BY <1>4, <1>5, <1>6 DEF Inv

LEMMA StutterInv ==
    ASSUME Inv, UNCHANGED vars
    PROVE  Inv'
<1>1. UNCHANGED <<pc, client, results, opened, autocommit, intx, pending, committed, told,
                  asked, returned, ignored, faults>>
  BY DEF vars, link, session, told
<1>2. TypeOK'
  BY <1>1 DEF Inv, TypeOK, call
<1>3. OfSucceeded' /\ KeptTogether' /\ PendingTogether'
  BY <1>1, CommitPending DEF Inv
<1>4. Owners' /\ NotRun'
  BY <1>1, SameQuery DEF Inv, Owners, NotRun
<1>5. Modes'
  BY <1>1, Zenon DEF Inv, Modes, Live, Unprotected, call
<1>6. Kept'
  BY <1>1, SameQuery DEF Inv, Kept, Live
<1> QED
  BY <1>2, <1>3, <1>4, <1>5, <1>6 DEF Inv

LEMMA StepInv ==
    ASSUME Inv, [Next]_vars
    PROVE  Inv'
<1>1. CASE Take \/ OpenRows \/ FreeRows \/ More \/ Release
  BY <1>1, BetweenCalls
<1>2. CASE LoseSession
  BY <1>2, LossInv
<1>3. ASSUME NEW q \in Queries, Execute(q) PROVE Inv'
  BY <1>3, ExecuteInv
<1>4. CASE AutocommitOff \/ BeginTransaction \/ CommitTransaction \/ AutocommitOn
  BY <1>4, TransactionInv DEF Transaction
<1>5. CASE Exec
  BY <1>5, ExecInv
<1>6. CASE Drain
  BY <1>6, DrainInv
<1>7. CASE UNCHANGED vars
  BY <1>7, StutterInv
<1> QED
  BY <1>1, <1>2, <1>3, <1>4, <1>5, <1>6, <1>7 DEF Next

LEMMA Invariant == Spec => []Inv
<1>1. Init => Inv
  BY InitInv
<1>2. Inv /\ [Next]_vars => Inv'
  BY StepInv
<1> QED
  BY <1>1, <1>2, PTL DEF Spec

-----------------------------------------------------------------------------

\* The session, the client and the queries keep their types; results wait to
\* be read just when the client does not say it is ready, and rows that can be
\* freed have an owner.
THEOREM SessionTypeCorrect == Spec => []TypeOK
<1>1. Inv => TypeOK
  BY DEF Inv
<1> QED
  BY <1>1, Invariant, PTL

\* execute answers FALSE only if nothing of its query is kept, now or later,
\* though it sends COMMIT whatever exec returned; or the query ran outside of
\* any transaction, both commands that should have opened one having failed.
THEOREM FailedCorrect == Spec => []FailedLeavesNothing
<1>1. Inv => FailedLeavesNothing
  BY DEF Inv, OfSucceeded
<1> QED
  BY <1>1, Invariant, PTL

\* lockConnection hands out no session that an earlier user left without
\* autocommit or in a transaction, unless the command of the execute before
\* that should have ended it failed on a session that lived on.
THEOREM CleanCorrect == Spec => []CleanForNextUser
<1>1. Inv => CleanForNextUser
  BY DEF Inv, Modes, Live, CleanForNextUser
<1> QED
  BY <1>1, Invariant, PTL

\* What a query writes up to the first failure is kept whole or not at all,
\* unless it ran outside of any transaction.
THEOREM TogetherCorrect == Spec => []KeptTogether
<1>1. Inv => KeptTogether
  BY DEF Inv
<1> QED
  BY <1>1, Invariant, PTL

\* What a step may commit: the open transaction, or what the query writes
\* outside of one, while a call is under way.
LEMMA CommitsPending ==
    ASSUME Inv, [Next]_vars
    PROVE  \/ committed' = committed
           \/ /\ pc \in Executing
              /\ \A w \in committed' \ committed :
                    w[1] = call \/ <<w[1], "commit">> \in ignored
<1>1. \A w \in pending : w[1] = call \/ <<w[1], "commit">> \in ignored
  BY DEF Inv, Owners
<1>2. CASE AutocommitOff \/ BeginTransaction \/ CommitTransaction \/ AutocommitOn
  <2>1. Transaction
    BY <1>2 DEF Transaction
  <2>2. /\ committed' = committed \/ committed' = committed \union pending
        /\ pc \in Executing
    BY <2>1, SendFacts DEF Follows, Executing, Commands
  <2> QED
    BY <1>1, <2>2
<1>3. CASE Exec
  <2>1. pc \in Executing /\ call > 0 /\ query \in Queries /\ query.stmts \in Seq(Kinds)
    BY <1>3, QueryFacts DEF Inv, TypeOK, Exec, Executing
  <2>2. AllWrites(call) \subseteq {call} \X Nat
    BY <2>1, AllIsOwn DEF Inv
  <2>3. \A n \in 1 .. Len(query.stmts) : Writes(call, query, n) \subseteq {call} \X Nat
    BY <2>1, WritesOfQuery, QueryFacts DEF Inv
  <2>4. \/ committed' = committed
        \/ committed' = committed \union AllWrites(call)
        \/ \E n \in 1 .. Len(query.stmts) : committed' = committed \union Writes(call, query, n)
    BY <1>3 DEF Exec, Run
  <2> QED
    BY <2>1, <2>2, <2>3, <2>4
<1>4. CASE UNCHANGED committed
  BY <1>4
<1>5. CASE Take \/ OpenRows \/ FreeRows \/ More \/ Release \/ LoseSession \/ Drain
  BY <1>4, <1>5 DEF Take, OpenRows, FreeRows, More, Release, LoseSession, Drain
<1>6. ASSUME NEW q \in Queries, Execute(q) PROVE UNCHANGED committed
  BY <1>6 DEF Execute
<1> QED
  BY <1>2, <1>3, <1>4, <1>5, <1>6 DEF Next, vars

\* BEGIN and SET AUTOCOMMIT=1 commit implicitly; neither, nor COMMIT, commits
\* what an earlier execute wrote, unless its own COMMIT failed on a session
\* that lived on.
THEOREM CommitsCorrect == Spec => CommitsInOwnCall
<1>1. ASSUME Inv, [Next]_vars
      PROVE  [\A w \in committed' \ committed :
                 pc \in Executing /\ (w[1] = call \/ <<w[1], "commit">> \in ignored)]_vars
  BY <1>1, CommitsPending
<1> QED
  BY <1>1, Invariant, PTL DEF Spec, CommitsInOwnCall

\* A TRUE that execute returns over a connection still good is the truth,
\* unless the server refused the COMMIT or a later statement of the query
\* ended the transaction.
THEOREM SucceededCorrect == Spec => SucceededIsKept
<1>1. ASSUME Inv, [Next]_vars
      PROVE  [(/\ pc \in Executing /\ pc' = "using" /\ client' = "ready" /\ returned[call]
               /\ <<call, "commit">> \notin ignored' /\ ~Deadlocks(query))
              => AllWrites(call) \subseteq committed']_vars
  <2> SUFFICES ASSUME pc \in Executing, pc' = "using", client' = "ready", returned[call],
                      <<call, "commit">> \notin ignored', ~Deadlocks(query)
               PROVE  AllWrites(call) \subseteq committed'
    OBVIOUS
  <2>1. pc # "using"
    BY DEF Executing, Commands
  <2>2. AutocommitOn
    <3>1. CASE Take \/ OpenRows \/ FreeRows \/ More \/ Release \/ LoseSession
      BY <2>1, <3>1 DEF Take, OpenRows, FreeRows, More, Release, LoseSession, Executing, Commands
    <3>2. CASE \E q \in Queries : Execute(q)
      BY <2>1, <3>2 DEF Execute
    <3>3. CASE Exec \/ Drain
      BY <2>1, <3>3 DEF Exec, Drain, Go, AfterExec, InTransaction
    <3>4. CASE AutocommitOff \/ BeginTransaction \/ CommitTransaction
      BY <3>4 DEF AutocommitOff, BeginTransaction, CommitTransaction, Send, Go
    <3>5. CASE UNCHANGED vars
      BY <2>1, <3>5 DEF vars
    <3> QED
      BY <1>1, <3>1, <3>2, <3>3, <3>4, <3>5 DEF Next
  <2>3. Transaction /\ pc = "autocommit on"
    BY <2>2 DEF Transaction, AutocommitOn
  <2>4. /\ ignored \subseteq ignored'
        /\ committed \subseteq committed'
    BY <1>1, <2>3, SendFacts
  <2>5. Live
    BY <1>1, <2>3, SendFacts DEF Live
  <2>6. AllWrites(call) \subseteq committed
    BY <1>1, <2>3, <2>4, <2>5 DEF Inv, Kept
  <2> QED
    BY <2>4, <2>6
<1> QED
  BY <1>1, Invariant, PTL DEF Spec, SucceededIsKept
=============================================================================
