---------------------------- MODULE AccountLocks ----------------------------
(***************************************************************************)
(* The row locks on accounts.  A post locks every account of its entries   *)
(* FOR UPDATE, in the order of their identifiers, before it checks them    *)
(* and inserts.  A batch and a reversal lock nothing; the foreign key of   *)
(* each entry they insert locks the entry's account FOR KEY SHARE, in the  *)
(* order of the entries, so what they hold and what they wait for has no   *)
(* order.  Locks are held to the end of the transaction.                   *)
(*                                                                         *)
(* The transactions and their keys are TransactionProcessor's subject.  So  *)
(* are the snapshots of SERIALIZABLE, the waits for keys, and settle and   *)
(* cancel, which take no lock on an account: what these locks decide is    *)
(* who waits for whom.  They do not keep a balance a post has read from    *)
(* going stale; the database does, by aborting one of the two.             *)
(***************************************************************************)
EXTENDS Naturals, Sequences, FiniteSets

CONSTANTS
  Proc,        \* the sessions
  Account,     \* account identifiers, numbered as sort.Strings orders them
  Known,       \* the accounts there are; none is ever deleted
  Requests,    \* the requests a run offers, each one of ValidRequests
  MaxRetries   \* RetryConfig.MaxRetries

ASSUME AccountsAssumption ==
  Account \subseteq Nat /\ IsFiniteSet(Account) /\ Known \subseteq Account

\* The accounts of a request's entries, in the order they are inserted; the
\* entries of a batch are those of its transactions one after the other.
ValidRequests == [op      : {"post", "batch", "reverse"},
                  entries : Seq(Account) \ {<<>>}]

ASSUME AccountRequestsAssumption == Requests \subseteq ValidRequests /\ MaxRetries \in Nat

VARIABLES
  session,   \* what each session is doing
  update,    \* the accounts each session has locked FOR UPDATE
  share      \* the accounts each session has locked FOR KEY SHARE

vars == <<session, update, share>>

NoRequest == [op |-> "none", entries |-> <<>>]

Session == [pc       : {"idle", "lock", "check", "insert", "commit"},
            req      : Requests \union {NoRequest},
            inserted : Nat,    \* entries inserted so far
            attempts : 0..MaxRetries]   \* attempts of ExecuteWithRetry that failed

Idle == [pc |-> "idle", req |-> NoRequest, inserted |-> 0, attempts |-> 0]

Op(p)       == session[p].req.op
Entries(p)  == session[p].req.entries
At(p, pc)   == session[p].pc = pc
Accounts(p) == {Entries(p)[i] : i \in DOMAIN Entries(p)}

Goto(p, pc) == session' = [session EXCEPT ![p].pc = pc]
Release(p)  == /\ update' = [update EXCEPT ![p] = {}]
               /\ share' = [share EXCEPT ![p] = {}]
End(p)      == session' = [session EXCEPT ![p] = Idle] /\ Release(p)

\* A post begins with its locks, the others with their checks.
Start(r) == [Idle EXCEPT !.req = r, !.pc = IF r.op = "post" THEN "lock" ELSE "check"]

Init ==
  /\ session = [p \in Proc |-> Idle]
  /\ update = [p \in Proc |-> {}]
  /\ share = [p \in Proc |-> {}]

Receive(p) ==
  /\ At(p, "idle")
  /\ \E r \in Requests : session' = [session EXCEPT ![p] = Start(r)]
  /\ UNCHANGED <<update, share>>

\* sort.Strings and uniqueStrings: the account a post locks next.
Unlocked_FirstMissed(p) == {a \in Accounts(p) : \E b \in Accounts(p) : b < a} \ update[p]
Unlocked(p) == Accounts(p) \ update[p]
NextToLock_EntryOrder(p) ==
  Entries(p)[CHOOSE i \in DOMAIN Entries(p) :
               /\ Entries(p)[i] \in Unlocked(p)
               /\ \A j \in 1..(i - 1) : Entries(p)[j] \notin Unlocked(p)]
NextToLock(p) == CHOOSE a \in Unlocked(p) : \A b \in Unlocked(p) : a <= b

\* FOR UPDATE conflicts with every lock of another session, FOR KEY SHARE
\* with FOR UPDATE only.
UpdateBlockedBy(p, q, a) == p # q /\ a \in update[q] \union share[q]
ShareBlockedBy(p, q, a)  == p # q /\ a \in update[q]

\* LockAccountForUpdate.  An account that is not there ends the request.
LockAccountForUpdate(p) ==
  /\ At(p, "lock")
  /\ LET a == NextToLock(p) IN
       \/ a \notin Known /\ End(p)
       \/ /\ a \in Known
          /\ \A q \in Proc : ~UpdateBlockedBy(p, q, a)
          /\ update' = [update EXCEPT ![p] = @ \union {a}]
          /\ IF Unlocked(p) = {a} THEN Goto(p, "check") ELSE UNCHANGED session
          /\ UNCHANGED share

\* validateAccountsForPost, from GetAccountInTx on: an account that is not
\* there refuses the request, a currency or a balance may.  The values are
\* those of the transaction's snapshot, taken at its first statement and so
\* before the waits for the later locks; they are left out here.
ValidateAccounts(p) ==
  /\ At(p, "check")
  /\ \/ Accounts(p) \subseteq Known /\ Goto(p, "insert") /\ UNCHANGED <<update, share>>
     \/ End(p)

\* InsertEntries, one entry: the foreign key locks its account.
NextEntry(p) == Entries(p)[session[p].inserted + 1]

InsertEntry(p) ==
  /\ At(p, "insert")
  /\ \A q \in Proc : ~ShareBlockedBy(p, q, NextEntry(p))
  /\ share' = [share EXCEPT ![p] = @ \union {NextEntry(p)}]
  /\ session' = [session EXCEPT
       ![p].inserted = @ + 1,
       ![p].pc = IF session[p].inserted + 1 = Len(Entries(p)) THEN "commit" ELSE "insert"]
  /\ UNCHANGED update

Commit(p) == At(p, "commit") /\ End(p)

\* The database aborts the transaction with 40001 or 40P01: a post starts it
\* again, MaxRetries times.
MayRetry_OnceMore(p) == Op(p) = "post" /\ session[p].attempts <= MaxRetries
MayRetry(p) == Op(p) = "post" /\ session[p].attempts < MaxRetries

Retry(p) ==
  /\ session' = [session EXCEPT
       ![p] = [Start(session[p].req) EXCEPT !.attempts = session[p].attempts + 1]]
  /\ Release(p)

DbAbort(p) ==
  /\ ~At(p, "idle")
  /\ IF MayRetry(p) THEN Retry(p) ELSE End(p)

\* Any other failure, a cancelled context or a crash: the transaction is over.
Fail(p) == ~At(p, "idle") /\ End(p)

Step(p) == LockAccountForUpdate(p) \/ ValidateAccounts(p) \/ InsertEntry(p) \/ Commit(p)

Next == \E p \in Proc : Receive(p) \/ Step(p) \/ DbAbort(p) \/ Fail(p)

Spec == Init /\ [][Next]_vars

\* Sessions that can run keep running, and a lock that is free again and again
\* is granted.  Nothing here breaks a deadlock.
Fairness == \A p \in Proc :
  WF_vars(Step(p)) /\ SF_vars(LockAccountForUpdate(p) \/ InsertEntry(p))

FairSpec == Spec /\ Fairness

-----------------------------------------------------------------------------
(* Properties. *)

LocksTypeOK ==
  /\ session \in [Proc -> Session]
  /\ update \in [Proc -> SUBSET Account]
  /\ share \in [Proc -> SUBSET Account]

WaitsFor(p, q) ==
  \/ At(p, "lock")   /\ UpdateBlockedBy(p, q, NextToLock(p))
  \/ At(p, "insert") /\ ShareBlockedBy(p, q, NextEntry(p))

\* Posts alone never deadlock: in every circle of sessions that wait for each
\* other one is a batch or a reversal, which take no locks beforehand.
PostsNeverCircle ==
  \A S \in (SUBSET {p \in Proc : Op(p) = "post"}) \ {{}} :
    \E p \in S : \A q \in S : ~WaitsFor(p, q)

\* Why: a post that waits for a waiting post waits for a smaller account than
\* that one does, and a post that has its locks waits for no post.
PostsWaitUpwards ==
  \A p, q \in Proc :
    Op(p) = "post" /\ Op(q) = "post" /\ WaitsFor(p, q) =>
      /\ At(p, "lock")
      /\ At(q, "lock") => NextToLock(p) < NextToLock(q)

\* Sessions that wait for each other.
Circle(S) == S # {} /\ \A p \in S : \E q \in S : WaitsFor(p, q)

\* Where posts do deadlock with batches and reversals, it is at their locks:
\* every circle has a post in it, and each of its posts is still locking, so the
\* abort that breaks the circle at a post undoes no entry.  A post that has its
\* locks is in no circle, and batches and reversals, which nobody retries, are
\* in none among themselves.
CirclesAtLocks ==
  \A S \in SUBSET Proc : Circle(S) =>
    /\ \E p \in S : Op(p) = "post"
    /\ \A p \in S : Op(p) = "post" => At(p, "lock")

\* Posts among themselves always end, with nobody there to break a deadlock.
\* (Batches and reversals can keep a post waiting for ever: their shared locks
\* may overlap so that an account is never free.)
OnlyPosts == \A p \in Proc : ~At(p, "idle") => Op(p) = "post"

PostsEnd == []OnlyPosts => \A p \in Proc : ~At(p, "idle") ~> At(p, "idle")
=============================================================================
