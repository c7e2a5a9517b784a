# Double-Entry Ledger Engine: TLA+ models, checks and proofs

These modules model the transactional core of the Double-Entry Ledger Engine, a
Go service over PostgreSQL. They say what the ledger promises, how the code
keeps those promises when requests, retries, failures and database aborts
interleave, and where the code does not do what its documents say. Paths below
are relative to the repository; `PROJECT.json` maps every definition to the lines
it models.

## 1. The system

| Component | State | Operations | Met by |
|---|---|---|---|
| Transaction processor (`internal/service/transaction`) | none of its own; a database transaction per request | `PostTransaction`, `PostBatch`, `SettlePendingTransaction`, `CancelPendingTransaction`, `ReverseTransaction` | `TransactionProcessor`, `Books` |
| Ledger repository (`internal/infrastructure/postgres/ledger_repository.go`) | tables `transactions`, `entries` | insertions, `SELECT .. FOR UPDATE`, three updates | `LedgerRows`, `TransactionProcessor`, `AccountLocks`, `Books` |
| Idempotency repository | table `idempotency_keys` | `CheckAndReserve`, `RecordSuccess` | `TransactionProcessor` |
| Concurrency control (`concurrency_lock.go`, `concurrency_retry.go`) | row locks on `accounts`, attempts of a retry | `LockMultipleAccountsForUpdate`, `ExecuteWithRetry` | `AccountLocks`, `TransactionProcessor` |
| Validator (`internal/domain/validator.go`) and account checks (`processor_validate.go`) | none | `ValidateTransaction`, `validateAccountsForPost` | `Books`, `AccountLocks` |
| Balance calculator (`internal/service/balance`) | none; table `balance_snapshots`, never written; goroutines and a channel per multi-currency call | current, historical and multi-currency balances | `DatedBooks`, `BalanceReads`, `CurrencyBalances` |
| Account repository and its handlers | tables `accounts`, `account_currencies` | create, get, list, update metadata | `Accounts`; `Books` (the read a post makes) |
| Query service (`internal/service/query`) | none | get, list, statement | `Queries` (list, statement) |
| Event publisher | none (only a no-op publisher exists) | four `Publish..` calls | `TransactionProcessor` (the call and its place) |
| Lifecycle (`internal/app`, `cmd/main.go`), readiness (`health_handler.go`) | two flags, the HTTP server, the main goroutine | start, `IsReady`, signal, `Shutdown` | `Server` |
| Connection pool (`internal/infrastructure/database`), request timeout | connections that are out, waiters, closed or not | acquire, give back, `Close`, the pool probe | `Server` |
| Traffic generator (`cmd/trafficgen`) | a channel of tokens, workers, counters | seed accounts, produce, send, count, report | `TrafficGen` |
| API errors, authentication, configuration, migrations, telemetry | none | HTTP, wiring | not modelled; see section 8 |

How they interact. A handler binds a request and calls the processor. The
processor asks the idempotency repository for the key (outside any transaction),
validates, and begins a SERIALIZABLE transaction in which it locks rows, checks
accounts and balances, inserts or updates, publishes the event and commits. After
the commit, outside the transaction, it records the key. Only a post is retried
when the database aborts it (40001, 40P01). Balance and list queries run on the
pool, each statement with its own snapshot. The state of the business is in PostgreSQL;
in the process itself requests meet only at the pool, whose connections they share,
and at the shutdown, which waits for them and then closes the pool. The traffic
generator is a client: it creates its accounts, then sends batches and counts answers.

What is hard. Two sessions with one key; a stop between a commit and the record of
its key; records that expire while requests run; settle, cancel and reverse racing
for one row; batches that wait for each other's keys; account locks taken in two
different ways (in order by posts, in the order of the entries by the foreign keys
of batches and reversals); an event published before the commit it announces;
queries of several statements; pages cut from a list that grows; goroutines that
outlive the call that started them; amounts the column rounds; a pool at its limit; a
shutdown that meets a start still under way, a probe, or handlers that outlast it.

What makes each component correct:

- processor: every request that succeeds is one atomic step on the ledger, allowed
  in the state it is made in; a row lives its life in one direction only; no answer
  is taken back; every request ends;
- keys: one transaction per key, records that name the right transaction;
- reversals: original and reversal name each other, once;
- locks: posts never deadlock among themselves, and where they deadlock with batches and
  reversals no post loses more than its locks;
- books: debits equal credits over all accounts, a settled reversal undoes its
  original, a guarded account never goes below zero;
- queries: no amount is counted twice, what does not change is counted right, pages
  neither lose nor repeat what stands still, and no goroutine is left behind;
- accounts: never seen without the currencies they were created with;
- lifecycle: nobody is told ready after the shutdown began, no connection is cut off,
  a shutdown without error cut off no request, requests and shutdown end;
- generator: its summary counts every batch once and claims no success that is not
  committed, and it ends with a server that does not answer.

The hazards, each at its line, are in `PROJECT.json`, with the properties that
would catch them.

## 2. The modules

`LedgerRows` is the `transactions` table: `ledger` maps identifiers to committed
rows (state, key, `reverses`, `reversedBy`), with the helpers that write a row and
the properties of rows (`KeyUnique`, `ReversalLinks`, `RowLifecycle`). Every other
transaction module extends it.

`Ledger` is the abstract specification: post (one transaction or a whole batch),
settle, cancel and reverse, each one atomic step.

`TransactionProcessor` is the code. A session is a goroutine serving a request;
its `pc` names the statement it is about to run:

| `pc` | Action | Code |
|---|---|---|
| idle | `Receive` | the handlers of `transaction_handler.go` |
| check | `CheckKey` | the SELECT of `CheckAndReserve`, once per item |
| delete | `DeleteExpired` | the DELETE of a record seen expired, whose failure is only logged |
| begin | `Begin` | `BeginTx`, the snapshot, a target that is not found |
| lock | `LockTarget` | `SELECT .. FOR UPDATE`, the state check, the update of settle and cancel |
| insert | `Insert` | `InsertTransaction` with its entries, once per item; for a reversal also the mark on the original |
| publish | `Publish` | the `Publish..` call, once per transaction |
| commit | `Commit` | `tx.Commit` |
| record | `RecordSuccess` | `RecordSuccess`, once per item, then the answer |

`Refuse` is a validation that refuses a request, `DbAbort` a serialization failure
or deadlock victim (with `ExecuteWithRetry` for a post), `Fail` any other error, a
cancelled context, a crash or a lost acknowledgement, and `Expire` the clock. A
session's uncommitted writes are in its own `work` until the commit copies them.
PostgreSQL is taken at its weakest: a snapshot per transaction, row locks held to
its end, first-updater-wins on a row that changed since the snapshot, a unique
index whose second inserter waits for the first. SERIALIZABLE aborts more than
that; since `DbAbort` may strike at any statement, every behaviour of the real
database is still one of the model.

`AccountLocks` is what the sessions do to the rows of `accounts`, which
`TransactionProcessor` leaves out: a post locks all its accounts FOR UPDATE in
order (`LockAccountForUpdate`), checks (`ValidateAccounts`) and inserts
(`InsertEntry`, whose foreign key takes FOR KEY SHARE); batches and reversals begin
with their checks. Accounts are numbers in the order of `sort.Strings`. The module is
only about who waits for whom. It has no snapshots, and no settle or cancel, which take
no lock on an account; so it does not show that what a post has checked stays true until
it commits. The locks alone do not make it so: a settle changes the balance a post
compares without any of them, and the snapshot is taken at the first lock, before the
waits for the others.

`Books` adds the entries: `ValidateTransaction` and `validateAccountsForPost` as
operators over entries, `createReversalEntries`, the rounding of NUMERIC(28, 8),
and the balances as sums. Its operations are atomic, which `ImplementsLedger`
justifies for the rows. For what a post reads of accounts and balances it is an
assumption about PostgreSQL, that SERIALIZABLE aborts one of two transactions that
conflict. Little hangs on it as the code is: the currencies of an account and its
`allow_negative` never change, and no balance is compared, since the sum that locks
fails before. A decimal is a
number of units and the number of places it is written with; `Unit` units make the
last place the column keeps. Requests are those the processor accepts as calls; the
handlers already refuse some of them (no entries, negative amounts).

`DatedBooks` adds a clock and `posted_at`, which a transaction takes some time
before it commits (at most `MaxLag` instants); the items of a batch get successive
times. Two modules read beside its operations, each statement with the ledger of its
own moment. `BalanceReads` is `GetCurrentBalance` and `GetHistoricalBalance`, the
settled and then the pending sum. `Queries` is a client that walks through the pages
of `ListTransactions` or of a statement: count, page, entries, and the next page.
Filters by metadata are left out; the query is a record of what it asks for.

`CurrencyBalances` is `GetMultiCurrencyBalance`: `caller`, one `worker` per currency,
the channel `results` (a set, since its order is immaterial), the WaitGroup as the
set `WaitedFor`, and the goroutine that closes the channel. Each worker's query is
that of `BalanceReads`; here it is one step that succeeds or fails.

`RequestCycle` is a second abstract specification: what a client may rely on of the
process while it posts. A success is committed, a record is of something committed,
and after the process stopped nothing happens any more; a failure or a lost answer says
nothing. `Server` implements it and `TrafficGen` is a client of it.

`Server` is the process. What a handler does with a connection is the subject of
`TransactionProcessor`; here it is one use, the retries of a post included, which gives
the connection back:

| `pc` of a handler | Meaning |
|---|---|
| connected | its connection is accepted, the request not read yet |
| check, checking | waits for a connection for `CheckAndReserve`, has it |
| txn, inTxn | the same for the transaction |
| record, recording | the same for `RecordSuccess` |
| ready, down | a readiness probe is about to load the one flag, the other |
| ping, pinging | the probe waits for a connection, has it |
| ok, failed, done | the answer is decided, written |

`Connect` needs the listener; `Accept` reads the request of a connection that is already
accepted, while the server drains as well, and `HangUp` ends one that brings none.
`Acquire` takes one of `MaxConnections`, `Refused` is a closed pool, `TimeOut` and `Fail`
are the end of the context while the handler waits and while it uses a connection, and
`Answer` may be lost. `SetReady`, `Listen`, `StopServing` and `Fatal` are the goroutine of
`App.Start`; `main` goes through signalled, notReady, down, draining, drained, closing
and closed, one value per statement of `StartShutdown` and `Shutdown`.

`Accounts` is the account repository with its handlers: a creation is a transaction of
one insertion per row (whose client may not be told of the commit: "unsure"), a read is two statements without a transaction, and a client
walks through the pages of the list. `TrafficGen` extends it with the generator's
goroutines: main (which is the producer), the workers, the live statistics.

A list of the database is any bijection from `1..n` to the rows it selects that is ordered
as `ORDER BY` says (`Listings` in `Queries` and `Accounts`): rows of equal times come in any
order, at each statement anew.

`MC*` modules give the instances; `*Proofs` modules hold the theorems:

| Module | About |
|---|---|
| `LedgerProofs` | `Ledger` |
| `TransactionProcessorProofs` | `TransactionProcessor`: types, refinement of `Ledger`, records, answers, events |
| `AccountLocksProofs` | `AccountLocks` |
| `BooksProofs` | `Books`: the laws of sums, refinement of `Ledger`, the books |
| `ReadsProofs` | `BalanceReads` and `Queries`, which read beside the operations of `DatedBooks` |
| `CurrencyBalancesProofs` | `CurrencyBalances` |
| `ServerProofs` | `Server` and its refinement of `RequestCycle` |
| `LoadProofs` | `Accounts` and `TrafficGen`, and that the load is a client of both specifications |

## 3. Runs

Each run is one `.cfg`; the five that expect a violation check one sentence of the
documents each and are explained in section 4.

| Run | Bounds | Shows |
|---|---|---|
| `processor` | 2 sessions, 3 identifiers, keys `k1` and `""`, 1 retry, failures, expiry | types, `KeyUnique`, `ReversalLinks`, `RecordsAgree`, `AnswersKept`, `RowLifecycle`, `ChangesAnnounced`, `ImplementsLedger` |
| `batches` | 2 sessions, 3 identifiers, 2 keys, 1 retry, batches of two, no failures | `ImplementsLedger`, and with fairness `RequestsEnd` and `KeysRecorded` |
| `account_locks` | 3 sessions, 4 accounts of which one is unknown, 1 retry | `LocksTypeOK`, `PostsNeverCircle`, `CirclesAtLocks`, and with fairness `PostsEnd` |
| `reads` | 3 transactions, accounts `a` (guarded) and `b` (not), two currencies, 11 requests, 2 instants and a lag of 1; a balance query or a walk with one of three filters | types, `TrialBalance`, `ReversalNets`, `PolicyKept`, `CountedOnce`, `SteadyCounted`, `ListedWhole`, `MoreIsThere`, `QuietWalk`, `AscendingWalk`, `BooksImplementLedger` |
| `server` | 2 posts, one with a key, a readiness probe, 1 connection | `ReadinessHonest`, `ReturnsClean`, `GracefulStop`, `ImplementsRequestCycle`, and with fairness `RequestsEnd` and `SignalEnds` |
| `load_test` | 3 accounts of which the generator creates two, one with two currencies, 3 instants, two lists; 1 worker, 4 batches | `AccountsWhole`, `WalkComplete`, `SummaryTrue`, and with fairness `GeneratorEnds` |
| `currency_balances` | one call, up to 3 currencies | `SendsAreFree`, `AnswerComplete`, and with fairness `CallEnds` and `WorkersEnd` |

Why the bounds are enough. Two sessions are what a race for a row or a key needs,
and what a batch deadlock needs; three identifiers are a post, its reversal and a
transaction beside them, or two batches of which one must fail. One retry
distinguishes the first attempt, a later one and the last. Three sessions on three
accounts make the shortest circle that two cannot make. A trial balance is violated
by one transaction, a reversal needs two, and a third lets an unrelated one
interfere. Two instants and a lag of one let a commit come late, in order, or at the
same time as another; pages of one transaction make walks of three pages. Queries
change nothing, so a run has one at a time. A third currency lets one goroutine fail,
one send late and one not have begun. One connection for three handlers makes every one
wait for another; more connections only make them wait less. A channel has room for two
tokens per worker, so four batches fill it while one is being sent and another is at the
producer. In `load_test` the generator starts its load only if nothing but the seeding has
happened (`Undisturbed` of `MCTrafficGen`): the load neither reads nor changes an account.
There the server acts only on batches a worker waits for, since all it could do with
another is commit it, and a lost answer is one that does not come. `Txn` being finite, a request may find no identifier left; `OutOfIds`
says so and ends it. Where symmetry is used the properties are safety properties
that treat identifiers and sessions alike; the runs with liveness use none.

Fairness. `TransactionProcessor`: weak fairness of every session's next statement
(goroutines are scheduled and the database answers), strong fairness of the
statements that wait for a lock or a unique index entry (PostgreSQL queues waiters,
so a waiter that is free to go again and again is not passed over for ever), and
weak fairness of the abort of a session in a circle of waiting sessions (its
deadlock detector). `AccountLocks` has the first two and no detector: `PostsEnd`
is about behaviours in which only posts run, and there the order of the locks must do.
(Without that condition it fails, and not for want of a detector: foreign key locks
are shared, and batches that overlap for ever keep a post from its `FOR UPDATE`.)
`CurrencyBalances`: the caller, the closer and every goroutine are scheduled, and a
query ends or fails, as the context of a request does. `Server`: handlers and the main
goroutine go on whenever they can, the database answers in some way, and a connection
brings its request or ends (`ReadHeaderTimeout`, `IdleTimeout`); no other timeout
has to come and no signal, so `RequestsEnd` there says that a pool at its limit alone blocks
nobody. `TrafficGen`: its goroutines are scheduled and timers fire, with strong fairness for
the end of the producer's loop, because a `select` whose two cases are ready chooses among
them at random; nothing obliges the server. The call, the process and the generator end and
stop there, so these three runs do not check for deadlock; `CallEnds`, `WorkersEnd`,
`RequestsEnd`, `SignalEnds` and `GeneratorEnds` do. Nothing obliges a client to send, a database to abort
for any other reason, or a record to expire. `RequestsEnd` of `batches` holds
because the retries are bounded: its mutant that does not count an attempt lets a
post be aborted for ever.

Every property of these runs is also checked against a mutant of the code: the
operators named `Definition_What` are what a plausible bug would make of
`Definition`, and with any of them in place TLC finds the property violated.

## 4. Where code and documents disagree

- `retry_after_failure` (`DuplicateAnswered`): a key whose record was not written is
  used up for ever; the client's retry is refused instead of answered.
- `pending_reversal` (`ReversedIsNegated`): a pending reversal that is cancelled
  leaves its original marked reversed.
- `currencies` (`CurrenciesBalance`): debits of one currency balance credits of
  another. `TrialBalance`, the sum over all currencies, is what the code keeps.
- `covered_spend` (`CoveredAccepted`): `FOR UPDATE` on a sum is refused by
  PostgreSQL, so an account without `allow_negative` cannot spend at all. The
  operator `LockingSumWorks` says so; with the statement working as meant
  `PolicyKept` would be violated (two covered items of one batch, or a pending
  credit that is spent and then cancelled), so the policy is kept today only
  because every covered debit is refused.
- `history` (`PastFixed`): a historical balance selects by `posted_at` but by the state
  of today, so settling or cancelling changes balances of instants that are over.

Two gaps are plain in the code and need no run: `CheckAndReserve` reserves nothing, so two
requests with one key may both get past it (the unique column decides between them,
`KeyUnique`), and events are published before the commit, so some are of transactions that
never were (what holds is the converse, `ChangesAnnounced`).

A balance query has a related gap that no document excludes precisely enough to call
it a disagreement: a transaction that settles between its two statements is in neither
sum. What does hold is `CountedOnce`: settled first and pending second, it may be missed
but never doubled. Lists have one too: newest first, which is the default, whatever is
posted between two pages moves every row and the client sees one again; `AscendingWalk`
says how far the other order is better, and that commits in another order than that of
`posted_at` are what it is still exposed to.

## 5. Proofs

All theorems hold for every value of the constants that satisfies the assumptions
of the modules: any sets of sessions, identifiers, keys and requests, any number of
retries, batches of any size up to 1000 (of two items in `Books`), any number of accounts,
currencies, workers and pages. The assumptions are that NULL is no identifier and no key
(`NullsAssumption`), that requests are well formed (`RequestsAssumption`), that the switches
are Booleans and the bound a number (`SwitchesAssumption`), and for the locks that accounts
are a finite set of numbers (`AccountsAssumption`, `AccountRequestsAssumption`); for the
process that there is at least one connection and that posts are no probes
(`ServerAssumption`); for the books that there are finitely many accounts with
currencies, that entries are sequences of entries and that an amount with few enough places
is a whole number of the last one (`BooksAssumption`); that limits are integers, which may
be negative (`LimitsAssumption`, `AcctAssumption`); that an account is created with at
least one currency (`AcctAssumption`, which `CreateAccount` checks first); that there are
finitely many workers and batches, one worker at least, and that the generator seeds
distinct accounts (`TrafficAssumption`); and what `ClockAssumption` and
`CurrencyAssumption` say of times and currencies.

`LedgerProofs`: the atomic ledger is typed (`LedgerTyped`) and keeps `KeyUnique`,
`ReversalLinks` and `RowLifecycle`. The invariant is inductive once the links are
joined with types and with "an absent row is empty".

`TransactionProcessorProofs`, types: `ProcessorTyped`. `TypeOK` alone is not inductive: a
settle copies the row it saw, an insertion indexes the items of its request. The
strengthening `Shape` ties `pc`, request, index and identifiers together.

The same module, refinement: `ProcessorImplementsLedger`, that every behaviour of the
processor is a behaviour of `Ledger` (same variable `ledger`, no hidden state). Only
`Commit` changes the ledger, so the whole argument is that at a commit the buffered
writes are still exactly one atomic operation on the ledger *as it is then*. The
invariant `Prepared` says so from the moment the writes are made: `WorkOK`, what the
buffer holds for each kind of request; `Fits`, that the target is as the session saw
it, the identifiers are unused and the keys not committed; `Apart`, that no two
sessions hold the same row, identifier or key. `Apart` is what keeps one session's
commit from breaking another's `Fits`; it rests on the row lock, on the snapshot
check and on the wait for the unique index, which is why the mutants that drop one
of them break the refinement. `ProcessorKeyUnique`, `ProcessorReversalLinks` and
`ProcessorLifecycle` follow from the refinement and the theorems of `LedgerProofs`.

`AccountLocksProofs`: `LocksTyped`, `LocksWaitUpwards`, `PostsNeverDeadlock`,
`DeadlocksAtLocks`. The invariant `LockInv` adds to the types what each session
holds at each `pc` (`Holding`: a post past its locks holds all its accounts, one that
is locking holds a prefix of them in order, and a share lock is on an account of the
request) and that update locks exclude every lock of others (`Exclusive`). From
`Holding` a post waits for a post only at an account larger than all it holds, so
the account waited for grows along the waits-for relation; in a set of waiting
posts the one that waits for the largest account waits for nobody in the set. That is
an argument about a maximum of a finite set of numbers, and the proof makes it for
sets of sessions of any size. `DeadlocksAtLocks` is about circles with batches and
reversals in them, which do occur. A post past its locks waits for no account, since it
holds all of its own (`Holding`) and update locks exclude all others (`Exclusive`); and
only posts have update locks, so what a batch or a reversal waits for is a post.

`TransactionProcessorProofs` again, answers: `ProcessorRecordsAgree`, `ProcessorAnswersKept`,
`ProcessorChangesAnnounced`. The first two follow from `Remembered`: `Prepared` with the
invariant of `Ledger`, and that the identifiers a session has inserted carry the keys of
their items, in its own writes before the commit and in the ledger after it
(`ItemsWritten`); without that a record could name the wrong transaction. Rows never lose
their key (`NamedStays`, from the lifecycle of `Ledger`), so what is named stays named. The
third follows from `Announcing`: a session at `commit` has published the event of each
of its writes (`Told`), and since `published` only grows, a commit changes only what has
been announced.

`BooksProofs`: `BooksRefineLedger`, that with entries and validations the operations are
still those of `Ledger`, and `BooksTyped`, `BooksTrialBalance`, `BooksReversalNets` and
`BooksPolicyKept`, for any accounts, requests and number of transactions. A balance is a
fold over a set (`SumFunctionOnSet`), so the module first proves the laws of sums: what the
fold computes follows its recursion (`FoldExists`, `SumUnfold`), any element may be split
off (`SumSplit`), sums add up (`SumPlus`), and the sum over a set is the sum over the
classes of any partition of it (`SumFibres`). Induction over finite sets is done with
sets: the good subsets are a set, and a smallest bad one (`WFMin` on the strict inclusion
of subsets) cannot be. With these laws a transaction moves all accounts together by its net
(`ImpactsAddUp`), which the validation made zero and the rounding of the column keeps zero.
The invariant `BooksInv` says nothing of balances: it says that finitely many transactions
are there, that the entries of each are `Sound` (valid, balanced, no impact below zero on
a guarded account), and that a reversal moves every account against its original. Since the
entries of a transaction never change, the operations can only disturb it where they
insert, and each property of the balances, which do change with the states, follows from
it by summing. `BooksPolicyKept` rests on `LockingSumWorks` being what it is; its mutant
breaks it.

`ReadsProofs`, balances: `BalanceCountedOnce` and `BalanceSteadyCounted`, for any number of
transactions and any interleaving of a query with operations: what is settled never becomes
pending again, and what does not change is in the same sum at both statements.

`ReadsProofs`, lists: `ListsWhole`, `ListsHaveMore`, `QuietWalksWhole` and
`AscendingWalksWhole`, for any number of transactions, pages of any size and any filter. The
invariant `ListInv` is `BooksInv` with the types of a walk, that a page is one of
transactions that are there with the entries they have (`PageInv`), that the total counted
is not more than there is, and that, as long as nothing came in front of it, all the
client has seen (`Seen`, the pages behind it and the one it has) is the first part of *every*
ordering the database may answer with (`InFront`). The last is what the two walk
properties need and what is inductive about them: the next page is cut at an offset from
another ordering than the last one was, and continues it only because without ties the first
part of any two orderings is the same set in the same order. A commit keeps it if the walk
is not disturbed by it: newest first that means no commit at all, oldest first
one that is later than all that was shown. `ListsWhole` uses that what is shown balances, from `BooksInv`.
`QueriesUseBooks` and `WalksUseBooks` say that beside the readers the books are those of
`Books`, so its theorems hold there, as the run `reads` checks them.

`LoadProofs`, accounts: `AccountsReadWhole` and `WalksMissNone` of `AcctSpec`. An account is
visible exactly when its creation has committed, and then with all its currencies
(`CreationInv`); so the second statement of a read finds them, whatever commits between
the two. For a walk newest first the invariant counts: an account that the walk began with
and has not seen has at least as many strictly newer accounts before it (`Later`) as the walk
has gone through (`BeforeInv`). Accounts are only added, so that number only grows and the
account cannot slip to a place in front of the next page; on a page that is not full nothing
is left behind.

`LoadProofs`, the load: `LoadSummaryTrue`, for any number of workers and batches. `CountInv` is
two equations of counting: every token that was taken is counted as success or failure or
in the hands of a worker (`Busy`), and the successes, with those about to be counted, are no
more than the committed batches nobody waits for any more. The second is stronger than
the property: it must say that a batch that is committed and still waited for has not been
counted yet, or an answer could be counted twice. `BatchesInv` (no batch is sent by two
workers) keeps the batches of two answers apart, and `DoneInv` says that a worker is done
only when the channel is closed and empty, so at the summary all of `produced` was taken
and nothing is pending. `LoadUsesAccounts` and `LoadUsesRequestCycle` say that the composition is
one: what the load and its server do to the accounts is what `AcctSpec` allows, so
`AccountsReadWhole` and `WalksMissNone` hold under the load; and its server is any that keeps
`RequestCycle`, which `ServerImplementsRequestCycle` proves of `Server`.

`ServerProofs`: `ServerTypes`, `ServerReadinessHonest`, `ServerReturnsClean`, `ServerGracefulStop`,
`ServerImplementsRequestCycle`, for any requests and any number of connections. The
invariant `ServerInv` adds to the types that the shutdown goes through its stages in order
with the effect of each (`StopOrder`), and of every handler that its place is one its
kind of request reaches, that a probe begun after `StartShutdown` gets no further than
the flags, that a refusal means the shutdown gave up waiting, and that the place of a
post tells whether it is committed (`CommitOK`, which the refinement rests on).

`CurrencyBalancesProofs`: `CurrencySendsFree` and `CurrencyAnswerComplete`, for any
finite set of currencies. The invariant says that a result is in the channel or in the
answer exactly if it was sent (`Results`), that a failure is sent and never becomes a
balance (`Errors`), and that the channel is closed only when every goroutine is done
(`Order`). Room for a send follows by counting: the results in the channel are of other
currencies than the sender's.

## 6. What is only model-checked

Every safety invariant and every action property that a passing run checks is a theorem.
What stays with TLC is liveness (`RequestsEnd` of both modules, `KeysRecorded`, `PostsEnd`,
`CallEnds`, `WorkersEnd`, `SignalEnds`, `GeneratorEnds`), which rests on fairness and
`ENABLED` and is out of the prover's reach. The inductive invariants `AcctInv`, `LoadInv`, `ListInv`
and `BooksInv` hold on the instances of `load_test` and `reads` as well.

## 7. Plan

Done, in the order of importance: rows and atomic ledger; processor and refinement;
locks; books; balance queries; multi-currency balances; lists; answers and events of the
processor; the books as a refinement; the process with its pool and its shutdown; accounts
and the load generator; then the proofs of the sums, of the lists, of the accounts and of the
load. Next, if the project grows:

1. What the proofs share: the facts about a listing without ties occur in `ReadsProofs` and in
   `LoadProofs`, once for each table.
2. The states of a liveness argument that are safety: that a post whose locks are free can
   go on, that a request has bounded work left.
3. Snapshots and optimistic locks, as soon as something writes or calls them.

## 8. Not modelled

- Optimistic locking and `SerializableTransaction` have no caller; snapshots have no writer,
  so the branches that use one cannot run.
- API errors: the status is found by looking for words in the text of an error. The models
  carry no texts, and no state of the program depends on a status. What does depend on
  one is the client, which here either has an answer or not.
- Authentication, metrics and tracing middleware refuse a request before its handler or
  only observe it. Configuration is parsed once; its ranges are assumptions on constants.
  Migrations and the constructor `New` run before anything else, and any error of theirs
  ends the process.
- Of the health handler, the reports that change and decide nothing (`HealthCheck`,
  `Liveness`, `Metrics`, `SystemInfo`). Of the pool, connection lifetimes and the collection of
  its metrics.
- Of the generator, latencies and percentiles, its flags and the CSV file.
- Metadata and descriptions of transactions and the metadata document of an account: no
  guard reads them. The text of errors is left out. An amount too large for
  NUMERIC(28, 8) is a statement that fails, which `Fail` covers.
- Circles of sessions that wait for a key and for an account, since `TransactionProcessor`
  has the keys and `AccountLocks` the accounts. `DbAbort` may end a session at any statement
  of both, so what such an abort leads to is covered; `CirclesAtLocks` says nothing of them.
