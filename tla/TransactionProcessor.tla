------------------------ MODULE TransactionProcessor ------------------------
(***************************************************************************)
(* PostgresTransactionProcessor over PostgreSQL: PostTransaction,          *)
(* PostBatch, SettlePendingTransaction, CancelPendingTransaction and       *)
(* ReverseTransaction, each request a session that runs its statements one *)
(* by one beside the other sessions.                                       *)
(*                                                                         *)
(* The database is taken at its weakest: a transaction reads a snapshot,   *)
(* a row lock is held to the end of the transaction, a row somebody        *)
(* changed since the snapshot cannot be locked (40001), a unique index     *)
(* makes the second inserter wait for the first.  That SERIALIZABLE aborts *)
(* more than that is DbAbort, which may strike at any statement.           *)
(***************************************************************************)
EXTENDS LedgerRows, Sequences

CONSTANTS
  Proc,         \* the sessions: goroutines serving a request
  Requests,     \* the requests a run offers, each one of ValidRequests
  MaxRetries,   \* RetryConfig.MaxRetries
  MayFail,      \* whether sessions may die or lose their connection
  MayExpire     \* whether idempotency records reach their expires_at

VARIABLES
  idem,       \* the idempotency_keys table
  session,    \* what each session is doing
  published,  \* the events handed to the publisher, ever
  answers     \* <<key, transaction>> of every keyed request answered with one

vars == <<ledger, idem, session, published, answers>>

-----------------------------------------------------------------------------
(* Requests. *)

HasKey(k) == k \notin {NoKey, EmptyKey}

Item == [key : Key \union {NoKey}, state : Posted]

\* A batch has at most 1000 items; Requests says how many a run offers.
OneItem   == {s \in Seq(Item) : Len(s) = 1}
SomeItems == {s \in Seq(Item) : 1 <= Len(s) /\ Len(s) <= 1000}

ValidRequests ==
  [op : {"post"}, items : OneItem, target : {NoTxn}]
    \union [op : {"batch"}, items : SomeItems, target : {NoTxn}]
    \union [op : {"reverse"}, items : OneItem, target : Txn]
    \union [op : {"settle", "cancel"}, items : {<<>>}, target : Txn]

ASSUME RequestsAssumption == Requests \subseteq ValidRequests
ASSUME SwitchesAssumption ==
  MaxRetries \in Nat /\ MayFail \in BOOLEAN /\ MayExpire \in BOOLEAN

NoRequest == [op |-> "none", items |-> <<>>, target |-> NoTxn]

-----------------------------------------------------------------------------
(* Sessions. *)

\* check .. record are the statements of a request in the order of the code.
Pc == {"idle", "check", "delete", "begin", "lock", "insert", "publish",
       "commit", "record"}

NothingWritten == [t \in Txn |-> NoRow]

Session == [pc       : Pc,
            req      : Requests \union {NoRequest},
            idx      : Nat \ {0},      \* the item a loop over them is at
            ids      : Seq(Txn),       \* the transactions inserted so far
            work     : [Txn -> Row],   \* the uncommitted writes
            seen     : Row,            \* the target row in the snapshot
            attempts : Nat]            \* attempts of ExecuteWithRetry that failed

Idle == [pc |-> "idle", req |-> NoRequest, idx |-> 1, ids |-> <<>>,
         work |-> NothingWritten, seen |-> NoRow, attempts |-> 0]

NoRecord == [txn |-> NoTxn, expired |-> FALSE]

Op(p)       == session[p].req.op
Items(p)    == session[p].req.items
Target(p)   == session[p].req.target
At(p, pc)   == session[p].pc = pc
KeyAt(p)    == Items(p)[session[p].idx].key
NextItem(p) == Items(p)[Len(session[p].ids) + 1]

Become(p, s) == session' = [session EXCEPT ![p] = s]
Goto(p, pc)  == Become(p, [session[p] EXCEPT !.pc = pc])
End(p)       == Become(p, Idle)

\* The transactions a session has inserted and not committed, and its row lock.
InFlight(p)    == {session[p].ids[i] : i \in DOMAIN session[p].ids}
InTransaction  == {"lock", "insert", "publish", "commit"}
Writing_UnlockedEarly == {"insert", "publish"}
Writing        == {"insert", "publish", "commit"}
HoldsRow(p, t) == session[p].pc \in Writing /\ Target(p) = t

\* The key is in an uncommitted row of the session.
KeyInFlight(p, k) == k # NoKey /\ \E t \in InFlight(p) : session[p].work[t].key = k

-----------------------------------------------------------------------------
(* The statements of a request. *)

Init ==
  /\ ledger = [t \in Txn |-> NoRow]
  /\ idem = [k \in Key |-> NoRecord]
  /\ session = [p \in Proc |-> Idle]
  /\ published = {}
  /\ answers = {}

\* A request arrives.  Settle and cancel have no idempotency key to check.
Receive(p) ==
  /\ At(p, "idle")
  /\ \E r \in Requests :
       Become(p, [Idle EXCEPT
         !.req = r,
         !.pc = IF r.op \in {"settle", "cancel"} THEN "begin" ELSE "check"])
  /\ UNCHANGED <<ledger, idem, published, answers>>

\* The key of this item is new: on to the next item, or to BeginTx.
NextCheck(p) ==
  Become(p, IF session[p].idx < Len(Items(p))
            THEN [session[p] EXCEPT !.pc = "check", !.idx = @ + 1]
            ELSE [session[p] EXCEPT !.pc = "begin", !.idx = 1])

\* CheckAndReserve's SELECT.  A live record answers a post or a reversal with
\* the transaction it names and refuses a batch; no record reserves nothing.
CheckKey(p) ==
  /\ At(p, "check")
  /\ \/ /\ HasKey(KeyAt(p)) => idem[KeyAt(p)] = NoRecord
        /\ NextCheck(p)
        /\ UNCHANGED answers
     \/ /\ HasKey(KeyAt(p))
        /\ idem[KeyAt(p)].expired
        /\ Goto(p, "delete")
        /\ UNCHANGED answers
     \/ /\ HasKey(KeyAt(p))
        /\ idem[KeyAt(p)] # NoRecord /\ ~idem[KeyAt(p)].expired
        /\ answers' = IF Op(p) = "batch" THEN answers
                      ELSE answers \union {<<KeyAt(p), idem[KeyAt(p)].txn>>}
        /\ End(p)
  /\ UNCHANGED <<ledger, idem, published>>

\* The DELETE of a record seen expired, a statement of its own.  It names the
\* key only, and whether it works or not the key is taken for new.
DeleteExpired(p) ==
  /\ At(p, "delete")
  /\ \/ idem' = [idem EXCEPT ![KeyAt(p)] = NoRecord]
     \/ MayFail /\ UNCHANGED idem
  /\ NextCheck(p)
  /\ UNCHANGED <<ledger, published, answers>>

\* BeginTx and the snapshot of the first statement.  A target that is not in
\* the snapshot is not found, and the request is refused.
Begin(p) ==
  /\ At(p, "begin")
  /\ \/ Op(p) \in {"post", "batch"} /\ Goto(p, "insert")
     \/ /\ Op(p) \notin {"post", "batch"} /\ Exists(Target(p))
        /\ Become(p, [session[p] EXCEPT !.pc = "lock", !.seen = ledger[Target(p)]])
     \/ Op(p) \notin {"post", "batch"} /\ ~Exists(Target(p)) /\ End(p)
  /\ UNCHANGED <<ledger, idem, published, answers>>

\* Nobody has committed a change of the target since the snapshot.
RowUnchanged_Unchecked(p) == TRUE
RowUnchanged(p) == ledger[Target(p)] = session[p].seen

RowLocked(p) == \E q \in Proc \ {p} : HoldsRow(q, Target(p))

\* The row is as it was and in a state the operation may change.
Suitable(p) ==
  /\ RowUnchanged(p)
  /\ IF Op(p) = "reverse" THEN Reversible(session[p].seen)
                          ELSE session[p].seen.state = "pending"

NewTarget(p) == IF Op(p) = "settle" THEN SettledRow(session[p].seen)
                                    ELSE CancelledRow(session[p].seen)

\* SELECT .. FOR UPDATE: waits for the row, fails with 40001 if it changed
\* (no retry here), refuses an unsuitable state, else writes the new state.
LockTarget(p) ==
  /\ At(p, "lock")
  /\ ~RowLocked(p)
  /\ \/ ~Suitable(p) /\ End(p)
     \/ Suitable(p) /\ Op(p) = "reverse" /\ Goto(p, "insert")
     \/ /\ Suitable(p) /\ Op(p) # "reverse"
        /\ Become(p, [session[p] EXCEPT !.pc = "publish",
                                        !.work[Target(p)] = NewTarget(p)])
  /\ UNCHANGED <<ledger, idem, published, answers>>

\* A validation refuses the request: ValidateTransaction an item whose key
\* was just checked, or, in the transaction, validateAccountsForPost.  What
\* they refuse is the subject of other modules.
Refuse(p) ==
  /\ \/ At(p, "check") /\ session[p].idx > 1
     \/ At(p, "begin") /\ Op(p) \in {"post", "batch"} /\ session[p].attempts = 0
     \/ At(p, "insert") /\ session[p].ids = <<>>
  /\ End(p)
  /\ UNCHANGED <<ledger, idem, published, answers>>

\* uuid.New: an identifier that has left no trace.
Fresh == {t \in Txn : /\ ~Exists(t)
                      /\ \A q \in Proc : t \notin InFlight(q)
                      /\ \A e \in published : e.txn # t}

\* The unique index: a key that is committed, or already in this transaction,
\* cannot be inserted; one in another open transaction makes the insert wait.
KeyClash_NotUnique(p, k) == FALSE
KeyClash_CommittedOnly(p, k) == KeyCommitted(k)
KeyClash(p, k) == KeyCommitted(k) \/ KeyInFlight(p, k)
KeyAwaited(p, k) == \E q \in Proc \ {p} : KeyInFlight(q, k)

\* InsertTransaction with its entries; for a reversal InsertReversalTransaction
\* and MarkOriginalTransactionReversed.
Inserted(p, t) ==
  LET s == session[p]
      row == NewRow(NextItem(p).key, NextItem(p).state, Target(p))
      work == [s.work EXCEPT ![t] = row]
  IN [s EXCEPT
        !.ids = Append(@, t),
        !.work = IF Op(p) = "reverse"
                 THEN [work EXCEPT ![Target(p)] = ReversedRow(s.seen, t)] ELSE work,
        !.pc = IF Len(s.ids) + 1 = Len(Items(p)) THEN "publish" ELSE "insert"]

Insert(p) ==
  /\ At(p, "insert")
  /\ LET k == NextItem(p).key IN
       \/ KeyClash(p, k) /\ End(p)
       \/ /\ ~KeyClash(p, k) /\ ~KeyAwaited(p, k)
          /\ \E t \in Fresh : Become(p, Inserted(p, t))
  /\ UNCHANGED <<ledger, idem, published, answers>>

\* Bound: Txn is finite, so a request may find no identifier left.
OutOfIds(p) ==
  /\ At(p, "insert") /\ Fresh = {}
  /\ End(p)
  /\ UNCHANGED <<ledger, idem, published, answers>>

EventType_OpName(op) == op
EventType_CancelAsSettle(op) == IF op = "cancel" THEN "settled"
                                ELSE IF op = "reverse" THEN "reversed" ELSE "posted"
EventType(op) == CASE op \in {"post", "batch"} -> "posted"
                   [] op = "settle"  -> "settled"
                   [] op = "cancel"  -> "cancelled"
                   [] op = "reverse" -> "reversed"

\* The transactions a request has an event for, in order.
Subjects(p) == IF Op(p) \in {"settle", "cancel"} THEN <<Target(p)>> ELSE session[p].ids

\* One Publish call, before the commit; a batch makes one for each item.
Publish(p) ==
  /\ At(p, "publish")
  /\ LET i == session[p].idx IN
       /\ published' = published
            \union {[type |-> EventType(Op(p)), txn |-> Subjects(p)[i]]}
       /\ Become(p, IF i < Len(Subjects(p))
                    THEN [session[p] EXCEPT !.idx = i + 1]
                    ELSE [session[p] EXCEPT !.pc = "commit", !.idx = 1])
  /\ UNCHANGED <<ledger, idem, answers>>

Committed_ErrorIgnored(p) == ledger
Committed(p) ==
  [t \in Txn |-> IF session[p].work[t] # NoRow THEN session[p].work[t] ELSE ledger[t]]

\* tx.Commit.  Settle and cancel answer; the others record their keys.
Commit(p) ==
  /\ At(p, "commit")
  /\ ledger' = Committed(p)
  /\ IF Op(p) \in {"settle", "cancel"} THEN End(p)
     ELSE Become(p, [session[p] EXCEPT !.pc = "record", !.work = NothingWritten])
  /\ UNCHANGED <<idem, published, answers>>

\* The answer names the transaction of each keyed item.
Answered(p) ==
  {<<Items(p)[i].key, session[p].ids[i]>> :
     i \in {j \in DOMAIN Items(p) : HasKey(Items(p)[j].key)}}

\* RecordSuccess of the item at idx, outside the transaction: an existing
\* record stays, a failure is only logged.  The foreign key makes it wait for
\* whoever holds the new row FOR UPDATE.
Recorded_FirstId(p) ==
  [idem EXCEPT ![KeyAt(p)] = [txn |-> session[p].ids[1], expired |-> FALSE]]
Recorded_FirstItem(p) ==
  IF session[p].idx = 1
  THEN [idem EXCEPT ![KeyAt(p)] = [txn |-> session[p].ids[1], expired |-> FALSE]]
  ELSE idem
Recorded(p) ==
  IF idem[KeyAt(p)] = NoRecord
  THEN [idem EXCEPT ![KeyAt(p)] = [txn |-> session[p].ids[session[p].idx], expired |-> FALSE]]
  ELSE idem

RecordBlocked(p) ==
  HasKey(KeyAt(p)) /\ \E q \in Proc \ {p} : HoldsRow(q, session[p].ids[session[p].idx])

RecordSuccess(p) ==
  /\ At(p, "record")
  /\ ~RecordBlocked(p)
  /\ \/ HasKey(KeyAt(p)) /\ idem' = Recorded(p)
     \/ (HasKey(KeyAt(p)) => MayFail) /\ UNCHANGED idem
  /\ IF session[p].idx < Len(Items(p))
     THEN Become(p, [session[p] EXCEPT !.idx = @ + 1]) /\ UNCHANGED answers
     ELSE End(p) /\ answers' = answers \union Answered(p)
  /\ UNCHANGED <<ledger, published>>

-----------------------------------------------------------------------------
(* What may strike a session. *)

\* ExecuteWithRetry: a post starts its transaction again, MaxRetries times.
RetryAgain(p) == Op(p) = "post" /\ session[p].attempts < MaxRetries
NextAttempt_NotCounted(p) == session[p].attempts
NextAttempt(p) == session[p].attempts + 1

\* The database aborts the transaction with 40001 or 40P01.
DbAbort(p) ==
  /\ session[p].pc \in InTransaction
  /\ Become(p, IF RetryAgain(p)
               THEN [Idle EXCEPT !.req = session[p].req, !.pc = "begin",
                                 !.attempts = NextAttempt(p)]
               ELSE Idle)
  /\ UNCHANGED <<ledger, idem, published, answers>>

\* The session ends without an answer wherever it is: a statement or the
\* publisher fails, the context is cancelled, the process dies, or the commit
\* happened and its acknowledgement is lost.  Open transactions roll back.
Fail(p) ==
  /\ MayFail /\ ~At(p, "idle")
  /\ End(p)
  /\ UNCHANGED <<ledger, idem, published, answers>>

\* The clock passes a record's expires_at.
Expire(k) ==
  /\ MayExpire /\ idem[k] # NoRecord
  /\ idem' = [idem EXCEPT ![k].expired = TRUE]
  /\ UNCHANGED <<ledger, session, published, answers>>

\* Sessions that wait for each other in a circle.
WaitsFor(p, q) ==
  /\ p # q
  /\ \/ At(p, "lock") /\ HoldsRow(q, Target(p))
     \/ At(p, "insert") /\ KeyInFlight(q, NextItem(p).key)

Deadlocked == UNION {S \in SUBSET Proc : \A p \in S : \E q \in S : WaitsFor(p, q)}

Step(p) ==
  \/ CheckKey(p) \/ DeleteExpired(p) \/ Begin(p) \/ LockTarget(p)
  \/ Refuse(p) \/ Insert(p) \/ OutOfIds(p)
  \/ Publish(p) \/ Commit(p) \/ RecordSuccess(p)

Next ==
  \/ \E p \in Proc : Receive(p) \/ Step(p) \/ DbAbort(p) \/ Fail(p)
  \/ \E k \in Key : Expire(k)

Spec == Init /\ [][Next]_vars

\* Every session that can run keeps running, locks are granted in the order
\* they are asked for, and PostgreSQL breaks every circle of waiting sessions.
Fairness ==
  \A p \in Proc :
    /\ WF_vars(Step(p))
    /\ SF_vars(LockTarget(p) \/ Insert(p) \/ RecordSuccess(p))
    /\ WF_vars(p \in Deadlocked /\ DbAbort(p))

FairSpec == Spec /\ Fairness

-----------------------------------------------------------------------------
(* Properties. *)

TypeOK ==
  /\ LedgerTypeOK
  /\ idem \in [Key -> [txn : Txn, expired : BOOLEAN] \union {NoRecord}]
  /\ session \in [Proc -> Session]
  /\ published \subseteq [type : {"posted", "settled", "cancelled", "reversed"}, txn : Txn]
  /\ answers \subseteq Key \X Txn

\* The processor implements the atomic ledger.
L == INSTANCE Ledger WITH ledger <- ledger
ImplementsLedger == L!Spec

\* A live or expired record names the committed transaction that has its key,
\* so a replay never answers with somebody else's transaction.
RecordsAgree ==
  \A k \in Key : idem[k] # NoRecord => ledger[idem[k].txn].key = k

\* Every transaction a client was ever told about is committed under the key
\* the client sent: whatever fails or expires later, no answer is taken back
\* and two answers to one key name one transaction.
AnswersKept ==
  \A a, b \in answers :
    /\ ledger[a[2]].key = a[1] /\ ledger[a[2]].state # "absent"
    /\ a[1] = b[1] => a[2] = b[2]

\* No transaction is posted, reversed, settled or cancelled in the ledger
\* whose event was not handed to the publisher first.
Announcement(t, old, new) ==
  [type |-> IF old.state # "absent" THEN new.state
            ELSE IF new.reverses = NoTxn THEN "posted" ELSE "reversed",
   txn  |-> t]

ChangesAnnounced ==
  [][\A t \in Txn : ledger'[t].state # ledger[t].state =>
        Announcement(t, ledger[t], ledger'[t]) \in published]_ledger

\* Every request is answered or fails, whatever it waits for and however
\* often the database aborts it.
RequestsEnd == \A p \in Proc : ~At(p, "idle") ~> At(p, "idle")

\* Without failures and expiry a committed key gets its record, so that later
\* submissions are answered from it.
KeysRecorded == \A k \in Key : HasKey(k) /\ KeyCommitted(k) ~> idem[k] # NoRecord

-----------------------------------------------------------------------------
(* What the documents say and the code does not do: each is violated. *)

\* Readme: a key "ensur[es] duplicate transaction submissions produce identical
\* results".  A post whose key is committed already must not get as far as the
\* unique index, which can only refuse it.
DuplicateAnswered ==
  \A p \in Proc :
    Op(p) \in {"post", "reverse"} /\ At(p, "insert") /\ HasKey(NextItem(p).key)
      => ~KeyCommitted(NextItem(p).key)

\* Readme: a reversal is "a compensating transaction that negates a previous
\* transaction".  A transaction marked reversed has a reversal that counts.
ReversedIsNegated ==
  \A t \in Txn : ledger[t].reversedBy # NoTxn =>
                    ledger[ledger[t].reversedBy].state # "cancelled"
=============================================================================
