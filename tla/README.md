# A TLA+ model of the data exchange

This directory holds TLA+ specifications of the data exchange: a smart contract
(`src/contracts/exchange`) and the node plugins that serve and drive it
(`src/plugins`). They are checked with TLC on small instances, and the safety
properties of every run that passes are proved with TLAPS, most of them for every value
of the constants and the others under the hypotheses that section 4 names.

In file references below, `exchange.cpp` and `exchange.hpp` are the contract,
`data_exchange_plugin.cpp` and `.hpp` the plugin.

## 1. The system

### Parts, their state and their operations

| Part | State | Operations | Model |
|---|---|---|---|
| Order tables of the contract `mis.exchange` | tables `buyer`, `seller` (live orders), `buyerorder`, `sellerorder`, `cancelorder` (archives), `ctoc` (trades), `matchedprice`, `commoditype` | `lmto` (place), `clmto` (cancel), `mlmto` (trade one pair) | `Exchange`, abstractly `OrderBook` |
| Matcher | a timer that is armed or not | a tick every 50 ms: two queries, pick a pair, one transaction | `Market` |
| Balances (`eosio.token`, external) | balance per account and token | `transfer` | inside `Market` |
| Wallet registry | table `wltpwd` | `swlt` (add, append, remove); read by the matcher | `Registry` |
| Wallet guard and keosd (external) | which wallets are open and unlocked | constructor unlocks, destructor locks | `WalletGuard` |
| HTTP client of the guard | none | `do_connect`, `do_txrx`, `do_http_call` | its outcomes, in `WalletGuard` |
| Password encryption | none | `encrypt_wltpwd`, `decrypt_wltpwd` | `Cipher`, used by `Registry` |
| MySQL connection pool | a mutex and a connection per slot, a round-robin index | `lockConnection`, `release_connection` | `ConnPool`, abstractly `Pool` |
| MySQL connection | the client's state, the server's session | `execute`, `open` | `Session` |
| `push_action` of the plugin | none | builds actions from text, signs, returns | its guard in `WalletGuard`, its route for `swlt` in `Registry`; the rest is parsing |
| Order queues in the plugin's memory | two priority queues | `limit_order` of the plugin | not modelled: nothing reads them, no route reaches them |
| `deliversmr`, `buydata`, `approvedata`, `uploaddata` | one append-only table, or none | | not modelled: one append, or only a signature check |
| API route, scripts | none | | not modelled: input and output |

### How they interact

Users sign `lmto`, `clmto` and `swlt` transactions, on their own or through the
plugin's `push_action`. The matcher reads the live order tables in the order of
their price index, picks one buy and one sell order, computes a price, and pushes
**one transaction** with up to three actions: the buyer pays the seller, the seller
delivers the token if the commodity is a token, and `mlmto` moves the orders. To
sign for the two users it reads their encrypted wallet passwords from `wltpwd`,
opens their wallets in keosd for the duration of the transaction, and locks them
again. The contract knows nothing of the payment: it computes the price it records
a second time.

### What is hard

* **Keys and numbers.** Rows are erased, so primary keys are given again; orders
  are found by a hash of key, time and terms.
* **Moves.** An order is copied to an archive and erased from the live table in four
  places; which archive, with what status and after which fill is decided by three
  separate comparisons.
* **Two computations of one price.** The matcher's price moves money, the contract's
  price is recorded and determines the next one.
* **Picking.** Sorting by an index read backwards, a limit of 100 rows, a loop that
  steps over orders of one account.
* **Failure.** A refused transaction is ignored; an unexpected exception ends the
  node; wallet calls may fail half-way.
* **Sharing keosd.** Nodes share one keosd without knowing of each other.
* **Sessions.** The client refuses commands while results are unread, and the code
  looks at the outcome of one command in five.
* **Threads** in the MySQL pool.

`PROJECT.json` lists each hazard at its line with the properties that watch it.

### What makes each part correct

* Order tables: they are an order book. Each live order has one number; table, status
  and filled quantity agree; trades are within both orders' terms; fills add up to
  trades; orders only move.
* Matcher: the best order trades first, older before newer; money and trades agree;
  nobody trades outside their limits; orders that can trade eventually do.
* Registry: what is registered can be read back, alone and with other accounts' texts.
* Wallet guard: wallets are unlocked only while a transaction is signed, and left
  unlocked only by a guard that could not run to its end.
* Pool: a connection has one user, who has a working handle; everyone who asks is served.
  Session: a failed statement leaves nothing behind.

## 2. Modules

* `OrderBook.tla`: the abstract specification. Two books of resting orders and the
  list of deals; a deal takes the same quantity from one bid and one ask.
* `Exchange.tla`: the contract's tables. One action per contract action
  (`LimitOrder`, `CancelLimitOrder`, `MatchLimitOrder`) and `NextBlock` for the block
  time, which is part of an order's number. It ends with the mapping to `OrderBook`.
* `Market.tla`: extends `Exchange` with the matcher and the balances. Its steps are the
  users' steps, `TickTrades`, `TickEndsNode` and `RestartNode`.
* `Pool.tla`: the abstract specification of a pool: threads ask, are given a connection
  that nobody holds, and return it.
* `ConnPool.tla`: the pool of database connections (`mysqlconn.cpp`,
  `connection_pool.cpp`). `GetConnection` and the actions after it follow
  `lockConnection` line by line, `Release`, `Close` and `Unlock` follow
  `release_connection`; the database is an external actor. It ends with the mapping to
  `Pool`. It shares nothing with the other modules: no plugin of this repository creates
  a pool yet.
* `WalletGuard.tla`: nodes, each with at most one guard at a time, and the keosd they
  share. A call over HTTP is one step, `Granted`, `Denied` or `Lost`; what a node does
  next is in `Return` and `Throw`. The operators `DoTxrx`, `Connect`, `DoHttpCall` and
  `CallThrows` follow an answer up through the HTTP client to the exception it ends in.
* `Cipher.tla`: the encryption, operators only.
* `Registry.tla`: extends `Cipher` with the table `wltpwd`, `swlt`, the two routes to it
  and the reading back. Its strings are sequences of characters, since everything that can
  go wrong here is about where characters stand.
* `Session.tla`: one connection of the pool with the session behind it. `execute` takes
  six steps, one for each command: `Execute`, `AutocommitOff`, `BeginTransaction`, `Exec`
  (with `Drain` for further results), `CommitTransaction`, `AutocommitOn`. A command is
  refused by the client, denied by the server, done, or lost with the session (`Send`). Between
  calls the connection is taken and released, rows are opened, freed and asked for `More`.
* `Sums.tla`: the sum over a table, for the properties that add up rows.
* `MC*.tla`: small instances for TLC.
* `*Proofs.tla` and `ExchangeRefinement.tla`: the proofs. `SumProofs` has the laws of sums
  and the induction over numbers that the others use, `MarketProofs` builds on
  `ExchangeProofs`, and `RegistryProofs` is about `Cipher` as well.

`Market` composes the contract with the matcher and the balances; the guard, the registry
and the session are separate. `Market` needs of the first two only which accounts the
matcher can sign for (`Registered`), and that a failed wallet call ends the node
(`TickEndsNode`); nothing calls the database yet.

A definition whose longer-named sibling stands right before it (`Cancel` after
`CancelForgetsFills` and `CancelWithoutArchive`) has a deliberate fault beside it. Putting the fault in place of the
definition must break a property; `PROJECT.json` pairs them under `mutants`.

### How the state corresponds

| Code | Model |
|---|---|
| tables with erasures (`buyer`, `seller`, `matchedprice`) | functions from primary key (or name) to row |
| append-only tables | sequences; the row's key is its index less one |
| an order number, the hash of a text made of key, time and terms (`exchange.cpp:94-106`) | that text (`TextOf`), character by character: decimal numbers and names one after the other, with nothing between them. The hash is taken to be injective on texts; the text says nothing certain of its parts |
| the arguments of `lmto` | a record of the set `Requests` |
| a check or authorisation that fails | the action is disabled, as the transaction is rolled back whole |
| `asset` | a record of amount and symbol; comparing two symbols fails |
| the block time | `now`, advanced by `NextBlock`; several orders may share a block |
| the rows a query returns | the `QueryLimit` first keys under the index's order |
| the pushed transaction | one atomic step, all or nothing |
| `deal_timer` | `running`, and weak fairness of `Tick` |
| a `std::mutex` | its owner, or `NoThread` |
| `_mysql`, `_conn` of a connection, and its session in the server | `handle`: closed, alive, broken |
| keosd's wallet map | `loaded`, and `unlocked` within it |
| `vec_wltpwd` | `job[n].pairs`: a wallet, and whether the password is right |
| a `wallet_guard` going out of scope | `Lock`: by return, or with the exception in `thrown` |
| where the guard's constructor or destructor is | `pc[n]`, the call made, and `at[n]`, the wallet |
| a string | a sequence of one-character strings |
| `MYSQL::status` and `SERVER_MORE_RESULTS_EXISTS` | `client`: ready, rows, unread, more; or dead, closed |
| a transaction in the server | `autocommit`, `intx`, and its writes `pending` |
| what a query wrote | pairs of the call and the statement in it |
| a `MysqlData`, and the results that `more()` would fetch | `opened`, `results` |
| where a thread is in `lockConnection` or `release_connection` | `pc`, with the local `retConn` as `slot` |

### Abstractions and assumptions

* `RequestsAssumption`: quantities, prices and `oper` are integers, below zero too, as
  `lmto` takes them. They have no width: with the price zero a quantity may come near the ends
  of `int64_t`, and adding two such is left out.
* What `Text` gives for names, prices and accounts is any text. With at most four orders all
  keys in the runs have one digit, so that no digit moves from a key to the account after
  it; the proofs, which are for any number of orders, ask only what is in `Unambiguous`.
* `MarketAssumption`: quantities and prices are natural (the clients in `assist/` send no
  others), for with a price below zero `eosio.token` refuses the payment, and the index
  sorts it as a very large one; balances start natural; consigners, currencies and commodities are
  known; neither "*" nor the empty name is a token. A query returns at least one row.
* `RegistryAssumption`: texts are made of characters, among which are the few that the
  program adds.
* Total and timestamps of an order, memo texts and JSON are left out: nothing reads them.
* In `Market`, `mlmto` is called by the matcher only. It needs the signature of
  `mis.exchange`, which only the matcher's node holds. `Exchange` alone has no such
  restriction: any pair of live orders, under any of the `Names`.
* The tick is atomic with respect to blocks because the timer's handler runs on the
  node's main thread, the one that applies blocks (`data_exchange_plugin.cpp:974`), and
  its calls to the wallet are synchronous.
* The node that runs the matcher produces the blocks: what it applies is not undone
  by another node.
* The account of the exchange itself has its wallet registered; `Registered` says which
  users have.
* Exceptions that the tick's catch clauses do not name (`data_exchange_plugin.cpp:367-386`)
  end the node: the io_service's run loop is not part of this repository. They come from
  comparing assets of two currencies and from keys that no open wallet holds.
* In `ConnPool` a thread asks for one connection at a time (a second request by its holder
  would wait for itself on a `std::mutex`, which the code does not define), and a pool has
  at least one connection (`mysqlconn.cpp:361`).
* A ping fails exactly when the server dropped the session, and connecting fails exactly
  when the database is down.
* The delivered quantity passes through a `float` (`data_exchange_plugin.cpp:404`); `Delivered`
  rounds as the conversion does, to 24 significant bits, for quantities below 2^30.
* In `WalletGuard`, a node makes one call at a time: ticks and requests run on its main
  thread, and the calls are synchronous. What a job needs (`needs`) are the wallets that hold
  the keys its transaction is to be signed with.
* keosd, as the guard uses it: opening a loaded wallet locks it; unlocking one that is
  unlocked, or with a wrong password, is refused; listing the keys is refused when all wallets
  are locked; locking one that is not loaded is refused. It locks everything on its own when
  it was left alone too long, and forgets everything on a restart.
* An exception that leaves `push_action` is answered by the node's HTTP server, which is
  outside of this repository, and the node goes on.
* In `Registry`, the argument of `swlt` through the plugin has the form `account,text`
  (without the comma, `data_exchange_plugin.cpp:446` reads past the end of a vector) and the
  text has no colon. The quotes and braces that `combine_action_args` adds are taken off again
  by the JSON parser and left out; its escapes are modelled.
* In `Session`, a query is a sequence of statements that write, return rows, fail, or fail
  and end the transaction, as a deadlock does. The server runs all up to the first failure,
  also those whose results nobody fetches. A lost session is rolled back; `COMMIT`, `BEGIN`
  and `SET AUTOCOMMIT=1` may have been executed although their answer was lost. A server may
  answer each of them with an error instead, with the transaction ended or going on.
  Connecting again is one step, and succeeds (`lockConnection` tries until it does).
* `open` is used to read, one `SELECT` or two (`OpenRows`). What it opened may be freed, or its
  `more()` called, by whoever has the connection then, long after its rows were read; but
  not after the connection was closed, which leaves a dangling handle in it.
* `transactionOnExecute` keeps the value it is given (`mysqlconn.hpp:69`).
* Transactions begun by hand are left out: nobody calls `transactionStart` outside of
  `execute`, and `transactionRollback` is called by nobody at all.

## 3. What TLC checks

Runs are named as in `PROJECT.json`. `CHECK_DEADLOCK FALSE` appears where the bounds on
orders, blocks, requests and calls make every behaviour stop in the end; in `wallet_guard`
and `session` somebody can always take a step, and deadlock is checked.

### exchange (`MCExchange.cfg`), passes

All sequences of up to four orders (`MaxOrders`), over two blocks (`MaxTime`), out of the
six `OddRequests`: bids and asks whose prices cross, one for less than nothing, one for
nothing of "*" at a price below zero, one whose `oper` is neither buy nor sell and whose
number is that of a buy order, and one too large for an asset. Four orders are enough for a key to be given again
while trades of its first owner are in `ctoc`, and for a chain of partial fills on both
sides. It checks

* `TypeOK`, `StatusTellsTable`, `DealsHonourLimits`: types, the agreement of
  table, status and filled quantity, the terms of trades;
* `FillsAddUp`: the trades of an order number add up to what its rows record as done,
  over all tables;
* `LastPriceIsLastTrade`: `matchedprice` holds the price of the last trade of each name;
* `OrdersOnlyMove`: no step loses or doubles a row of an order;
* `RefinesOrderBook`: the tables implement `OrderBook`.

All of these are also proved, below. They hold although several orders may have one number:
`FillsAddUp` and `OrdersOnlyMove` are stated per number, over all rows that have it.

### market (`MCMarket.cfg`), passes

Two accounts on both sides of the market, eight requests with "*", a token, a second
currency and too little money for some trades; queries return two rows, so that the limit
matters. It checks `MarketTypeOK` (balances never go below zero), `LimitsHonouredInMoney`
(whatever price the matcher computes, no one ends with less than their limits allow) and
`BestBidFirst`. The node stops on the second currency and is restarted. The numbers of these
requests do not run into each other (`Unambiguous`), and their quantities are natural
(`NaturalAmounts`), so that two properties of the contract hold which `OddRequests` break:

* `LiveOidsUnique`: a number names one live order, though keys are given again when the last
  row of a table is erased, both tables count from zero, and all orders are placed in one
  block. A number is *not* unique for all time: an order placed in the same block, under the
  same terms and the same key as one just archived gets the number of the archived one;
* `DealsHonourQuantities`: no trade, and no order with all its trades, is for more than was
  asked. Who trades with an order for -1 has 1 more to trade afterwards.

### market_plain (`MCMarketPlain.cfg`), passes

One token, one currency, no account on both sides, enough money. Then `BalancesMatchTrades`
(balances equal what `ctoc` says was traded; quantities go up to 2^24, the last one that a
`float` delivers exactly, and to 2^24 - 1, which a `float` of one bit less would not),
`BestAskFirst` with ties, and the liveness
property `CrossingOrdersTrade` hold. They do not hold without those restrictions,
as the disagreements below show.

### conn_pool (`MCConnPool.cfg`), passes

Four threads, two connections, closed on return, one failure of the database, one request
for each thread. Four threads are two more than connections: two of them choose round
robin at the same time, which is when the mutex of the pool matters, and the index wraps.
Without closing on return the states are fewer and the code passes through fewer steps.
The one failure drops a session or stops the database at any moment, also while a thread
uses a connection. It checks

* `TypeOK`: among the types, that the index is past its end only under the mutex, between
  the increment and the check that resets it, so no thread takes a connection from there;
* `UsersHaveHandles`: a connection handed out is not closed by anyone but its user;
* `RefinesPool`: the pool implements `Pool`;
* `AskersAreServed`: all threads are served and give back what they got. This is weaker
  than one may wish: a thread that found every connection taken waits for one of them, even
  when another becomes free, and threads that come later may overtake it. It is served
  because the number of requests is bounded (`MaxAsks`).

### wallet_guard (`MCWalletGuard.cfg`), passes

Two nodes, three wallets and five jobs: two that share wallets (one names a wallet twice, as
two accounts' texts may), one of its own, one with a wrong password and one without any. Up to
two failures (`MaxFaults`) of any kind at any step: a call that does not arrive or whose answer
is lost, a node killed, keosd restarted or timed out, a job that names the wrong wallets. Two
are enough for a second failure while the first is unwound. It checks

* `UnlockedIsGuarded`: an unlocked wallet is one that a live guard has unlocked and has not
  locked yet, or was left behind by a constructor that threw, a destructor that threw or a
  killed node (the ghost `abandoned`). So a guard that returns, or is unwound after its
  construction, has locked its wallets;
* `QuietGuardsWork`: without failures, and unless two nodes hold one wallet at a time (the
  ghost `clashed`), no call is refused, nothing is left, and each transaction is signed with
  all the keys it needs;
* `JobsEnd`: under fairness, every guard ends.

### registry (`MCRegistry.cfg`), passes

Three accounts (symmetric), three calls, seven texts: of one and of two wallets, one inside
another, three lengths around a block of 30, and one with an escape. Three calls are a
registration, a removal and a registration again, or the texts of three accounts, which is
what the matcher reads at once. For accounts that since their last removal have registered
one text through the plugin, with none of `!`, `%` and a comma, it checks `ReadsBack`,
`NothingInvented` (the guard never gets a wallet with a password nobody registered) and
`GuardGetsAll` (it gets all wallets, unless one account's text contains another's). Two
assumptions check the recursive functions: `gcd` against its definition, and that the length
of a block is the least common multiple of the steps. A third says that the texts are ones
that the proof of `NothingInvented` is about.

### session (`MCSession.cfg`), passes

Two calls of `execute` over one connection (`MaxCalls`), with seven queries, each with and
without `multiline`, and with rows opened, freed and asked for more around them. Up to three
faults (`MaxFaults`) of any kind at any command: the session lost before or after it, or the
command answered with an error by a server that goes on, with the transaction or without.
Two calls are one that leaves something behind and one that meets it; three faults are both
commands that open a transaction, and one more. The code ignores what it is told of all
commands but the query. Each property is therefore without the commands of which that matters,
and names them; the history `ignored` has those that failed on a session that lived on,
refused by the client or by the server. Without any one of these exceptions TLC finds the
property violated.

* `FailedLeavesNothing`: `execute` answers `false` only if nothing of the query is kept,
  unless the query ran outside of any transaction, both `SET AUTOCOMMIT=0` and `BEGIN` having
  failed (`Unprotected`); either of the two protects it;
* `KeptTogether`: what a query writes up to its first failure is kept whole or not at all,
  with the same exception;
* `CleanForNextUser`: nobody is handed a session in a transaction, or without autocommit,
  unless the `COMMIT`, or the `SET AUTOCOMMIT=1`, of the call before failed. When results
  were left unread the client refuses both, and the same refusal makes the ping of
  `lockConnection` fail, which ends the session. But a `MysqlData` whose own rows were
  read long ago, asked for `more()`, fetches those results (`mysqlconn.cpp:104-118`): the client
  is ready again, the ping passes, and the transaction is still open;
* `CommitsInOwnCall`: `BEGIN` and `SET AUTOCOMMIT=1` commit implicitly, yet never what an
  earlier call wrote, unless the `COMMIT` of that call failed;
* `SucceededIsKept`: over a connection still good afterwards, `true` means committed, unless
  `COMMIT` failed, or a later statement of the query ended the transaction.

### Disagreements between code and comments

Each of these runs checks one property and TLC finds it violated.

| Run | Property | What happens |
|---|---|---|
| `exchange_shared_number` | `LiveOidsUnique` | the hashed text separates nothing: type "1l" with `oper` 1 and type "l" with `oper` 11 give one number to two live orders in two tables, and `clmto` reaches only the first (`exchange.cpp:94-106`, `:129-151`); `exchange.hpp:47` calls it the number of the order |
| `market_earlier_bid` | `EarlierBidFirst` | reading the price index backwards reverses ties too: the later bid trades first (`data_exchange_plugin.cpp:224-226`) |
| `market_best_ask` | `BestAskFirst` | if the best buyer owns every sell order read, the loop leaves the seller at the last row: the next buyer meets the dearest offer, and does not trade if that is too dear (`:251-256`) |
| `market_wildcard` | `BalancesMatchTrades` | with "*", the matcher reads the last price under the seller's commodity and `mlmto` under the buyer's: paid and recorded prices differ (`:271`, `:349`) |
| `market_blocked` | `CrossingOrdersTrade` | the matcher does not compare commodities; a head pair refused by `mlmto` is tried again for ever and all others wait (`:266-269`, `:775`) |

Met while reading, not shown by a run: `mlmto` with an empty commodity updates the price row
named "" but lists the trade under the buyer's commodity (`exchange.cpp:204`, `:231`), whose
row in `matchedprice` is then not what `exchange.hpp:27` calls it, the last price; an order for nothing is charged one unit price, since
the summing loop starts from it (`:299-305`); two orders in different currencies at the heads
of the book end the node at every tick after every restart; a quantity above 2^24 is rounded
on delivery. And of the wallets and the database:

* A second `swlt` with another text is appended with a comma (`exchange.cpp:62`), while the
  table's format (`exchange.hpp:93`) and the guard (`data_exchange_plugin.cpp:69`) separate
  with `|`. Through the plugin the row is then two encrypted texts with a comma between,
  which decrypts to neither.
* The escapes `%j` and `%l` (`data_exchange_plugin.cpp:819-824`) are replaced after
  encryption, which has moved their characters; a `!` in a password is removed as padding
  (`:486`); a text with a comma is cut there (`:434`).
* An entry cannot be removed through the plugin: the empty text is padded before it is sent.
* `do_http_call` throws keosd's errors as plain `fc::exception` (`httpc.cpp:285`), which none
  of the tick's catch clauses names (`data_exchange_plugin.cpp:367-386`): a locked wallet
  ends the node, though there is a clause that logs it.
* `execute` returns `true` if the first statement succeeded. With results left unread
  (rows, or several statements without `multiline`) nothing is committed then, and with
  `multiline` what stood before a later failing statement is. Nor is anything committed
  when the server refuses the `COMMIT`: its answer is not looked at
  (`mysqlconn.cpp:231-237`, `:317-320`).
* A session can stay in a transaction with its next user, who commits it: after a refused
  `COMMIT`, or through `more()`, as above.

### Fairness

`FairMarketSpec` adds weak fairness of `Tick`. The code justifies it: the handler arms the
timer again before it does anything else (`data_exchange_plugin.cpp:127-140`), every 50 ms,
as long as the node runs. There is no fairness for users, for blocks or for the restart of
the node, and `CrossingOrdersTrade` needs none: in its passing instance the node never stops.

`FairSpec` of `ConnPool` adds weak fairness of every thread's next step: the system
schedules threads, and a user gives its connection back in the end. Weak fairness is enough
for a waiting thread as the others' requests are bounded. It also says that the database
comes back (`DatabaseStarts`): `lockConnection` waits for it in a loop without end
(`mysqlconn.cpp:385-389`), holding the connection. Nothing makes a thread ask.

`FairSpec` of `WalletGuard` adds weak fairness of `Call(n)`: keosd answers, or refuses, every
call. The client sets no timeout, so nothing in the code ends a call that is not answered;
losses are possible at every step but never promised. No fairness is given to jobs, restarts
or failures.

`Registry` and `Session` have no fairness and no liveness property: their operations end by
themselves, one command after the other.

## 4. What is proved

`ExchangeProofs` proves of `Spec`, for every set of requests satisfying
`RequestsAssumption` and for every bound:

| Theorem | Statement |
|---|---|
| `TypeCorrect` | `Spec => []TypeOK` |
| `StatusCorrect` | `Spec => []StatusTellsTable` |
| `OidsCorrect` | `Spec => []LiveOidsUnique`, if `Unambiguous` |
| `DealsCorrect` | `Spec => []DealsHonourLimits` |
| `QuantitiesCorrect` | `Spec => []DealsHonourQuantities`, if `NaturalAmounts` |
| `Refinement` (in `ExchangeRefinement`) | `Spec => RefinesOrderBook` |
| `FillsCorrect` | `Spec => []FillsAddUp` |
| `OrdersMove` | `Spec => OrdersOnlyMove` |
| `LastPrice` | `Spec => []LastPriceIsLastTrade`, if `NoName \notin Names` |

`RequestsAssumption` asks for integers only. The hypotheses are limits of the code: without
`Unambiguous` the run `exchange_shared_number` breaks `LiveOidsUnique`, and an order for less
than nothing breaks `DealsHonourQuantities`. The first six rest on the inductive invariant
`IInv` (theorem `Invariance`): `TypeOK`, `StatusTellsTable`, `DealsHonourLimits`, and that a
live order's number was made of the key and the terms of its row. The last part is what the
properties alone do not give. With `Unambiguous`, the uniqueness of live numbers follows from
it: two rows of a table have different keys, and rows of different tables different sides.
The argument that table and status agree is arithmetical: `mlmto` chooses the
archive by comparing what is left of both orders, and the status by comparing the new
`amount_done` with the quantity; both come to "nothing is left" because a live order has
never more done than it asked for.

The refinement maps the live rows to the books, with what is left of them, and `ctoc` to the
deals. A sell order whose `oper` is neither buy nor sell rests in `seller` but can never
trade: it is invisible in the abstract book, and steps on it are stutters. Placing needs
that `available_primary_key` gives an unused key; a trade needs that an order leaves the
book exactly when nothing is left of it, which is `StatusTellsTable` again.

The ledger rests on `LedgerInv` (theorem `LedgerInvariance`): `IInv`, and that for **every**
order number, live or not, the quantities that `ctoc` lists under it are what the rows of
that number record as done, over all five tables. `FillsAddUp` alone is not inductive: it is
about the numbers that have a row, and a number that is given again starts from what was
traded under it before. A step adds the same quantity on both sides and moves a row from one
sum to another; the laws of sums that this needs (`SumProofs`) are proved by induction on the
number of rows. The prover cannot instantiate the library's induction theorems, which take a
predicate; stated of a *set* of numbers (`NumbersFromZero`), induction is within its reach.
`OrdersMove` follows from what a step does to the number of rows, whether or not it shares
its number with others. `LastPrice` needs that
`mlmto` is not called with the empty name, for the reason in section 3.

`MarketProofs` proves of `MarketSpec`, under `MarketAssumption`:

| Theorem | Statement | Hypothesis |
|---|---|---|
| `MarketIsExchange` | `MarketSpec => Spec` | none |
| `BestBid` | `MarketSpec => BestBidFirst` | `Unambiguous` |
| `BestAsk` | `MarketSpec => BestAskFirst` | `Unambiguous`, and `TwoSides`: no account has orders of both kinds |
| `MarketTypeCorrect` | `MarketSpec => []MarketTypeOK` | `InModelledRange`: quantities below 2^30 |
| `LimitsInMoney` | `MarketSpec => []LimitsHonouredInMoney` | `Unambiguous`, and `Deliverable`: quantities from 1 to 2^24 |
| `BalancesCorrect` | `MarketSpec => []BalancesMatchTrades` | `Unambiguous`, `Deliverable` and `NoWildcards` |

Every step of the market is a step of the contract or leaves its tables alone, so that the
market inherits what is proved of `Exchange`. `BestBid` and `BestAsk` follow the picking loop:
the rows of a query are the first of a total order on a finite set, and every row that the loop
steps over belongs to the other order's consigner. The balances follow from the change of one
sum in each trade, and from the comparison of the matcher's price with the contract's. The
hypotheses are the limits of the code, not of the proof: where two live orders share a number
`mlmto` trades the first row under it, which need not be the one the matcher picked and made
pay; without `TwoSides` the run
`market_best_ask` breaks the property, without `NoWildcards` `market_wildcard` does, an order
for nothing is charged one unit, a quantity above 2^24 is rounded when it is delivered, and
above 2^30 `Delivered` does not say what the code does.

`ConnPoolProofs` proves, for every number of threads and connections and every bound,
under `PoolAssumption`:

| Theorem | Statement |
|---|---|
| `PoolTypeCorrect` | `Spec => []TypeOK` |
| `HandlesCorrect` | `Spec => []UsersHaveHandles` |
| `PoolCorrect` | `Spec => RefinesPool` |

The inductive invariant `PoolInv` adds what the mutexes are for: who is past the mutex of a
connection owns it (`HoldersOwn`), and who is at the index owns the mutex of the pool
(`ChoosersOwn`). From the first follows that a free mutex means that nobody holds the
connection, which is the guard of `Give` in `Pool`; from the second, that two threads are
never between increment and reset together.

`WalletGuardProofs` proves, for any nodes, wallets, jobs and number of failures:

| Theorem | Statement |
|---|---|
| `GuardTypeCorrect` | `Spec => []TypeOK` |
| `GuardCorrect` | `Spec => []UnlockedIsGuarded` |
| `QuietCorrect` | `Spec => []QuietGuardsWork` |

`UnlockedIsGuarded` is inductive with the types. `QuietGuardsWork` needs more: as long as
nothing failed and no two nodes hold one wallet, the active nodes name disjoint sets of wallets,
what each has unlocked so far is in `unlocked`, and what it has opened is in `loaded`.

`RegistryProofs` proves, for all accounts and texts and any number of calls, under
`RegistryAssumption`:

| Theorem | Statement | Hypothesis |
|---|---|---|
| `ScrambleInverse` | decryption undoes encryption on strings of whole blocks, over any characters | none |
| `RegisteredIsRead` | a padded text of any length decrypts to a string that begins with it | none |
| `RegistryTypeCorrect` | `Spec => []TypeOK` | none |
| `RegistryReadsBack` | `Spec => []ReadsBack` | none |
| `RegistryInventsNothing` | `Spec => []NothingInvented` | every text is `Wallets` |
| `RegistryGivesAll` | `Spec => []GuardGetsAll` | every text is `OneWallet` |

Reversing slices twice moves every character back, for each of the five steps, as a slice never
straddles the end of a string of whole blocks. That a block has 30 characters is proved too
(`BlockLength`): Euclid's algorithm is a recursive function, and a function that satisfies its
equation exists for every bound on the second number, by induction. The recursive functions on
strings (`Split`, `Unescaped`, `Erased`, `decrypt_wltpwd`) are treated alike, by induction on
the place in the string.

The inductive invariant (`RegistryInvariance`) says that the row of an account whose calls were
all through the plugin with one text is that text encrypted, and that an account without calls
has no row; so the first registration creates the row and the later ones find it within itself.
`NothingInvented` needs texts that are wallets with their passwords (`Wallets`, an even number of
parts), which nothing in the code checks: after `w#p#x`, the bar that the matcher adds would pair
`x` with the next account's wallet. `GuardGetsAll` is proved for texts without a bar in them. It
is not true of all texts: one that lies across the bar between two others, as `2#p|v#q` does in
`w2#p|v#qy`, is taken to be there already, and its wallets are left out. TLC checks it with a
text of two wallets among the others.

`SessionProofs` proves all six properties of the run `session`, for any set of queries
and any number of calls and losses (`SessionTypeCorrect`, `FailedCorrect`, `CleanCorrect`,
`TogetherCorrect`, `CommitsCorrect`, `SucceededCorrect`), with the exceptions that the properties
name. The inductive invariant `Inv` says in which mode the session is at each command that can
still be sent, or which failed command is in `ignored` (`Modes`); that an open transaction holds
whole queries (`PendingTogether`) that returned `true` (`OfSucceeded`), the one under way or
those whose `COMMIT` failed (`Owners`); and that what a successful query wrote is in the
transaction until `COMMIT`, and committed after it (`Kept`).

Only model-checked are the liveness properties `CrossingOrdersTrade`, `AskersAreServed` and
`JobsEnd`, since fairness is out of the prover's reach, and `GuardGetsAll` where an account
registers several wallets. The disagreements of section 3 are counterexamples, and need no proof.

## 5. Not modelled, and what is left

Not modelled are parts without state or control of their own: the arguments of `newaccount`
and the serialisation of actions, the HTTP route, TLS and the text of requests; `deliversmr`,
which appends to a table nobody reads; `buydata`, `approvedata` and `uploaddata`, which check a
signature; helpers and queues that nothing calls; escaping of SQL text; scripts.

What is left to prove: `GuardGetsAll` for texts of several wallets none of which lies across a
bar, and, as a statement of its own, what holds of `LimitsHonouredInMoney` for orders for nothing
and for quantities above 2^24, where the code charges or rounds.
