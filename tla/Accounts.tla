------------------------------ MODULE Accounts ------------------------------
(***************************************************************************)
(* The accounts: their creation with all their currencies, the change of   *)
(* their metadata, and a client that reads one of them or walks through    *)
(* the pages of their list.  Accounts are never deleted.                   *)
(***************************************************************************)
EXTENDS Integers, Sequences, FiniteSets, Functions

CONSTANTS
  Acct,           \* the accounts that are created, each by one request
  Wanted,         \* the currencies each request names, in order
  KindOf,         \* the account type each request names
  AnyValue,       \* a filter that is not set
  DefaultLimit,   \* the limit of a list that names none
  Reads,          \* the reads a run offers
  MaxClock        \* bound: the instants of a run are 0..MaxClock

ASSUME AcctAssumption ==
  /\ DefaultLimit \in Nat \ {0} /\ MaxClock \in Nat
  /\ \A a \in Acct : Wanted[a] \in Seq(STRING) \ {<<>>}
  /\ \A q \in Reads : q.limit \in Int

VARIABLES
  clock,
  creation,     \* the request that creates each account
  accounts,     \* the rows of accounts that are committed
  currencies,   \* those of account_currencies
  updatedAt,    \* the column of that name
  walk          \* the read of the client

acctVars == <<clock, creation, accounts, currencies, updatedAt, walk>>

NoWalk == [part |-> "none", query |-> AnyValue, page |-> <<>>, fetched |-> <<>>,
           shown |-> <<>>, before |-> {}]

AcctInit ==
  /\ clock = 0
  /\ creation = [a \in Acct |-> [pc |-> "none", at |-> 0, inserted |-> {}]]
  /\ accounts = {} /\ currencies = {}
  /\ updatedAt = [a \in Acct |-> 0]
  /\ walk = NoWalk

AcctTick ==
  /\ clock < MaxClock /\ clock' = clock + 1
  /\ UNCHANGED <<creation, accounts, currencies, updatedAt, walk>>

-----------------------------------------------------------------------------
(* CreateAccount, one transaction. *)

WantedBy(a) == Range(Wanted[a])
Currencies  == UNION {WantedBy(a) : a \in Acct}
CreatedAt(a) == creation[a].at

\* The time is taken after BEGIN, and long before the commit.
BeginCreate(a) ==
  /\ creation[a].pc = "none"
  /\ creation' = [creation EXCEPT ![a].pc = "begun", ![a].at = clock]
  /\ UNCHANGED <<clock, accounts, currencies, updatedAt, walk>>

\* Until the commit nobody else sees a row.
AfterInsert_Autocommit(a) == accounts \union {a}
AfterInsert(a) == accounts

InsertAccount(a) ==
  /\ creation[a].pc = "begun"
  /\ creation' = [creation EXCEPT ![a].pc = "inserting"]
  /\ accounts' = AfterInsert(a)
  /\ UNCHANGED <<clock, currencies, updatedAt, walk>>

\* One of the currencies, in their order.  A currency named twice violates the
\* primary key and takes the account with it.
InsertCurrency(a) ==
  LET inserted == creation[a].inserted
      next     == Wanted[a][Cardinality(inserted) + 1]
  IN  /\ creation[a].pc = "inserting" /\ Cardinality(inserted) < Len(Wanted[a])
      /\ creation' = IF next \in inserted
                     THEN [creation EXCEPT ![a].pc = "failed", ![a].inserted = {}]
                     ELSE [creation EXCEPT ![a].inserted = inserted \union {next}]
      /\ UNCHANGED <<clock, accounts, currencies, updatedAt, walk>>

\* The commit, whose creator may not be told of it.
CommitCreate(a) ==
  /\ creation[a].pc = "inserting" /\ Cardinality(creation[a].inserted) = Len(Wanted[a])
  /\ \E pc \in {"created", "unsure"} : creation' = [creation EXCEPT ![a].pc = pc]
  /\ accounts' = accounts \union {a}
  /\ currencies' = currencies \union ({a} \X creation[a].inserted)
  /\ updatedAt' = [updatedAt EXCEPT ![a] = creation[a].at]
  /\ UNCHANGED <<clock, walk>>

\* A statement fails and everything is rolled back.
RollBackCreate(a) ==
  /\ creation[a].pc \in {"begun", "inserting"}
  /\ creation' = [creation EXCEPT ![a].pc = "failed", ![a].inserted = {}]
  /\ UNCHANGED <<clock, accounts, currencies, updatedAt, walk>>

Creation(a) ==
  InsertAccount(a) \/ InsertCurrency(a) \/ CommitCreate(a) \/ RollBackCreate(a)

\* UpdateAccountMetadata, one statement.  The time was taken before it asked
\* for a connection and the row; the document itself is left out.
UpdateAccountMetadata(a) ==
  /\ a \in accounts
  /\ \E at \in 0..clock : updatedAt' = [updatedAt EXCEPT ![a] = at]
  /\ UNCHANGED <<clock, creation, accounts, currencies, walk>>

-----------------------------------------------------------------------------
(* GetAccount and ListAccounts: the accounts, then their currencies, in two *)
(* statements that share no transaction.                                   *)

Fits(filter, value) == filter \in {AnyValue, value}

\* A list filters by type and currency; GetAccount names the account.
Selected(q, a) ==
  /\ Fits(q.id, a) /\ Fits(q.kind, KindOf[a])
  /\ q.currency = AnyValue \/ <<a, q.currency>> \in currencies
Matching == {a \in accounts : Selected(walk.query, a)}

Limit == IF walk.query.limit > 0 THEN walk.query.limit ELSE DefaultLimit

\* ORDER BY created_at DESC; equal times come in any order.
NotBefore_LastChanged(a, b) == updatedAt[a] >= updatedAt[b]
NotBefore(a, b) == CreatedAt(a) >= CreatedAt(b)

Listings == {s \in Bijection(1..Cardinality(Matching), Matching) :
               \A i, j \in DOMAIN s : i < j => NotBefore(s[i], s[j])}

StartRead(q) ==
  /\ walk.part = "none"
  /\ walk' = [NoWalk EXCEPT !.part = "accounts", !.query = q]
  /\ UNCHANGED <<clock, creation, accounts, currencies, updatedAt>>

\* before: what a walk has to show, as of its first statement.
SelectAccounts ==
  /\ walk.part = "accounts"
  /\ \E s \in Listings :
       LET offset == Len(walk.shown)
           page   == SubSeq(s, offset + 1, IF offset + Limit < Len(s) THEN offset + Limit
                                                                       ELSE Len(s))
       IN  walk' = [walk EXCEPT !.part = IF page = <<>> THEN "answered" ELSE "currencies",
                                !.page = page, !.fetched = <<>>,
                                !.before = IF offset = 0 THEN Matching ELSE @]
  /\ UNCHANGED <<clock, creation, accounts, currencies, updatedAt>>

FetchCurrencies ==
  /\ walk.part = "currencies"
  /\ walk' = [walk EXCEPT !.part = "answered",
                !.fetched = [i \in DOMAIN walk.page |->
                               {c \in Currencies : <<walk.page[i], c>> \in currencies}]]
  /\ UNCHANGED <<clock, creation, accounts, currencies, updatedAt>>

\* The answer has no total: a full page is followed by another call.
FullPage == walk.part = "answered" /\ Len(walk.page) = Limit

ReadOn ==
  /\ FullPage
  /\ walk' = [walk EXCEPT !.part = "accounts", !.shown = @ \o walk.page,
                          !.page = <<>>, !.fetched = <<>>]
  /\ UNCHANGED <<clock, creation, accounts, currencies, updatedAt>>

\* The client has its answer, or a statement failed.
StopRead ==
  /\ walk.part # "none" /\ walk' = NoWalk
  /\ UNCHANGED <<clock, creation, accounts, currencies, updatedAt>>

Walking ==
  \/ \E q \in Reads : StartRead(q)
  \/ SelectAccounts \/ FetchCurrencies \/ ReadOn \/ StopRead

AcctNext ==
  \/ \E a \in Acct : BeginCreate(a) \/ Creation(a) \/ UpdateAccountMetadata(a)
  \/ AcctTick \/ Walking

AcctSpec == AcctInit /\ [][AcctNext]_acctVars

-----------------------------------------------------------------------------
(* Properties. *)

\* An account that is answered, or that its creator was told of, has all the
\* currencies it was created with, although they are rows of another table and
\* read by another statement.
AccountsWhole ==
  /\ walk.part = "answered" =>
       \A i \in DOMAIN walk.page : walk.fetched[i] = WantedBy(walk.page[i])
  /\ \A a \in Acct : creation[a].pc = "created" =>
       a \in accounts /\ \A c \in WantedBy(a) : <<a, c>> \in currencies

\* A walk newest first misses none of the accounts it began with, whatever is
\* created or changed meanwhile, unless two were created at one time: what is
\* new only moves the rest to later pages.
Seen == Range(walk.shown) \union Range(walk.page)

NoTies == \A a, b \in accounts : CreatedAt(a) = CreatedAt(b) => a = b

WalkComplete ==
  walk.part = "answered" /\ ~FullPage /\ NoTies => walk.before \subseteq Seen
=============================================================================
