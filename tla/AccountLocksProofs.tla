------------------------- MODULE AccountLocksProofs -------------------------
(***************************************************************************)
(* Proofs about the account locks, for any number of sessions, any finite  *)
(* set of accounts, any requests and any number of retries.                *)
(***************************************************************************)
EXTENDS AccountLocks, SequenceTheorems, FiniteSetTheorems, WellFoundedInduction, TLAPS

-----------------------------------------------------------------------------
(* Smallest and largest accounts. *)

\* A post that has accounts left to lock has a smallest one.
LEMMA SmallestAccount ==
  ASSUME NEW S, S \subseteq Nat, S # {}
  PROVE  \E a \in S : \A b \in S : a <= b
<1>1. PICK a \in S : \A b \in S : <<b, a>> \notin OpToRel(<, Nat)
  BY NatLessThanWellFounded, WFMin, Zenon
<1>2. \A b \in S : ~(b < a)
  BY <1>1, Zenon DEF OpToRel
<1>3. QED
  BY <1>2

\* A finite set of accounts has a largest one: strict subsets are well
\* founded, and there is nothing above an account with the fewest above it.
LEMMA LargestAccount ==
  ASSUME NEW S, S \subseteq Nat, IsFiniteSet(S), S # {}
  PROVE  \E a \in S : \A b \in S : b <= a
<1> DEFINE Above(a) == {b \in S : b > a}
           T == {Above(a) : a \in S}
<1>1. T # {} /\ T \subseteq FiniteSubsetsOf(S)
  <2>1. T \subseteq SUBSET S
    OBVIOUS
  <2>2. T # {}
    OBVIOUS
  <2>3. QED
    BY <2>1, <2>2, FS_FiniteSubsetsOfFinite, Zenon
<1>2. PICK U \in T : \A V \in T : <<V, U>> \notin StrictSubsetOrdering(S)
  BY <1>1, FS_StrictSubsetOrderingWellFounded, WFMin, Zenon
<1>3. PICK a \in S : U = Above(a)
  BY <1>2
<1>4. ASSUME NEW b \in S, b > a PROVE FALSE
  <2>1. Above(b) \subseteq Above(a) /\ b \in Above(a) /\ b \notin Above(b)
    <3>1. a \in Nat /\ b \in Nat /\ \A c \in S : c \in Nat
      OBVIOUS
    <3>2. \A c \in S : c > b => c > a
      BY <1>4, <3>1
    <3>3. ~(b > b)
      BY <3>1
    <3>4. QED
      BY <1>4, <3>2, <3>3
  <2>2. Above(b) \in SUBSET S /\ Above(a) \in SUBSET S
    OBVIOUS
  <2> HIDE DEF Above
  <2>3. <<Above(b), U>> \in StrictSubsetOrdering(S)
    BY <1>3, <2>1, <2>2 DEF StrictSubsetOrdering
  <2>4. Above(b) \in T
    BY <1>4
  <2>5. QED
    BY <1>2, <2>3, <2>4
<1>5. QED
  BY <1>4

-----------------------------------------------------------------------------
(* The invariant. *)

AccountsOf(s) == {s.req.entries[i] : i \in DOMAIN s.req.entries}

\* What a session s holds when it has locked u FOR UPDATE and h FOR KEY SHARE.
\* A post locks its accounts from the smallest up and all of them before it
\* checks any; the others lock only the accounts of entries they inserted.
Holding(s, u, h) ==
  /\ s.pc = "idle" <=> s.req.op = "none"
  /\ s.pc = "idle" => u = {} /\ h = {}
  /\ s.pc = "lock" =>
       /\ s.req.op = "post"
       /\ h = {} /\ u \subseteq AccountsOf(s) /\ AccountsOf(s) \ u # {}
       /\ \A a \in u, b \in AccountsOf(s) \ u : a < b
  /\ s.req.op = "post" /\ s.pc \in {"check", "insert", "commit"} => u = AccountsOf(s)
  /\ s.req.op # "post" => u = {}
  /\ h \subseteq AccountsOf(s)
  /\ s.pc \in {"lock", "check"} => s.inserted = 0
  /\ s.pc = "insert" => s.inserted < Len(s.req.entries)

\* Nobody else has any lock on an account that is locked FOR UPDATE.
Exclusive ==
  \A p, q \in Proc : p # q => update[p] \intersect (update[q] \union share[q]) = {}

LockInv ==
  /\ LocksTypeOK
  /\ \A p \in Proc : Holding(session[p], update[p], share[p])
  /\ Exclusive

\* A request names accounts, and at least one.
LEMMA RequestFacts ==
  ASSUME NEW r \in Requests \union {NoRequest}
  PROVE  /\ r.op \in {"none", "post", "batch", "reverse"}
         /\ r.entries \in Seq(Account)
         /\ r.op # "none" => r \in Requests /\ Len(r.entries) \in Nat \ {0}
         /\ r = NoRequest => r.op = "none"
<1>1. CASE r = NoRequest
  BY <1>1, EmptySeq DEF NoRequest
<1>2. CASE r \in Requests
  <2>1. r \in ValidRequests
    BY <1>2, AccountRequestsAssumption
  <2>2. r.entries \in Seq(Account) /\ r.entries # <<>>
    BY <2>1 DEF ValidRequests
  <2>3. Len(r.entries) \in Nat \ {0}
    BY <2>2, EmptySeq, LenProperties
  <2>4. r.op \in {"post", "batch", "reverse"} /\ r # NoRequest
    BY <2>1 DEF ValidRequests, NoRequest
  <2>5. QED
    BY <1>2, <2>2, <2>3, <2>4
<1>3. QED
  BY <1>1, <1>2

\* The accounts of a request are accounts.
LEMMA AccountsFacts ==
  ASSUME NEW s \in Session
  PROVE  /\ AccountsOf(s) \subseteq Account
         /\ s.req.op # "none" => AccountsOf(s) # {}
<1>1. s.req \in Requests \union {NoRequest}
  BY DEF Session
<1>2. DOMAIN s.req.entries = 1..Len(s.req.entries)
  BY <1>1, RequestFacts, LenProperties
<1>3. \A i \in DOMAIN s.req.entries : s.req.entries[i] \in Account
  BY <1>1, <1>2, RequestFacts, ElementOfSeq
<1>4. s.req.op # "none" => 1 \in DOMAIN s.req.entries
  BY <1>1, <1>2, RequestFacts
<1>5. QED
  BY <1>3, <1>4 DEF AccountsOf

\* A session that holds nothing disturbs nobody: the step of a session p that
\* ends in s with the locks u and h keeps the invariant when they fit.
LEMMA SessionStep ==
  ASSUME LockInv, NEW p \in Proc,
         NEW s \in Session, NEW u \in SUBSET Account, NEW h \in SUBSET Account,
         Holding(s, u, h),
         \A q \in Proc \ {p} : /\ u \intersect (update[q] \union share[q]) = {}
                               /\ update[q] \intersect h = {},
         session' = [session EXCEPT ![p] = s],
         update' = [update EXCEPT ![p] = u],
         share' = [share EXCEPT ![p] = h]
  PROVE  LockInv'
<1>1. LocksTypeOK'
  BY DEF LockInv, LocksTypeOK
<1>2. /\ session'[p] = s /\ update'[p] = u /\ share'[p] = h
      /\ \A q \in Proc \ {p} : /\ session'[q] = session[q]
                               /\ update'[q] = update[q] /\ share'[q] = share[q]
  BY DEF LockInv, LocksTypeOK
<1>3. \A q \in Proc : Holding(session'[q], update'[q], share'[q])
  <2>1. SUFFICES ASSUME NEW q \in Proc
                 PROVE  Holding(session'[q], update'[q], share'[q])
    OBVIOUS
  <2>2. CASE q = p
    BY <1>2, <2>2
  <2>3. CASE q # p
    <3>1. Holding(session[q], update[q], share[q])
      BY DEF LockInv
    <3>2. QED
      BY <1>2, <2>3, <3>1
  <2>4. QED
    BY <2>2, <2>3
<1>4. Exclusive'
  <2>1. SUFFICES ASSUME NEW q \in Proc, NEW r \in Proc, q # r
                 PROVE  update'[q] \intersect (update'[r] \union share'[r]) = {}
    BY DEF Exclusive
  <2>2. CASE q = p
    BY <1>2, <2>1, <2>2
  <2>3. CASE r = p
    BY <1>2, <2>1, <2>3
  <2>4. CASE q # p /\ r # p
    BY <1>2, <2>1, <2>4 DEF LockInv, Exclusive
  <2>5. QED
    BY <2>2, <2>3, <2>4
<1>5. QED
  BY <1>1, <1>3, <1>4 DEF LockInv

-----------------------------------------------------------------------------
(* Every step keeps the invariant. *)

\* What the invariant says of one session.
LEMMA SessionFacts ==
  ASSUME LockInv, NEW p \in Proc
  PROVE  /\ session[p] \in Session
         /\ update[p] \in SUBSET Account /\ share[p] \in SUBSET Account
         /\ Holding(session[p], update[p], share[p])
         /\ \A q \in Proc \ {p} : /\ update[p] \intersect (update[q] \union share[q]) = {}
                                  /\ update[q] \intersect share[p] = {}
         /\ session = [session EXCEPT ![p] = session[p]]
         /\ update = [update EXCEPT ![p] = update[p]]
         /\ share = [share EXCEPT ![p] = share[p]]
         /\ Accounts(p) = AccountsOf(session[p])
BY DEF LockInv, LocksTypeOK, Exclusive, Accounts, AccountsOf, Entries

\* A session between requests holds nothing.
LEMMA IdleHolding == Idle \in Session /\ Holding(Idle, {}, {})
<1>1. Idle \in Session
  BY AccountRequestsAssumption DEF Idle, Session
<1>2. AccountsOf(Idle) = {}
  BY DEF AccountsOf, Idle, NoRequest
<1>3. QED
  BY <1>1, <1>2 DEF Holding, Idle, NoRequest

\* An attempt at a request starts without locks.
LEMMA StartHolding ==
  ASSUME NEW r \in Requests, NEW n \in 0..MaxRetries
  PROVE  LET s == [Start(r) EXCEPT !.attempts = n]
         IN  s \in Session /\ Holding(s, {}, {})
<1> DEFINE s == [Start(r) EXCEPT !.attempts = n]
<1>1. s \in Session
  BY DEF Start, Idle, Session
<1>2. /\ s.req = r /\ s.inserted = 0
      /\ s.pc = IF r.op = "post" THEN "lock" ELSE "check"
  BY DEF Start, Idle
<1>3. r.op # "none"
  BY AccountRequestsAssumption DEF ValidRequests
<1> HIDE DEF s
<1>4. AccountsOf(s) # {}
  BY <1>1, <1>2, <1>3, AccountsFacts
<1>5. Holding(s, {}, {})
  BY <1>2, <1>3, <1>4 DEF Holding
<1>6. QED
  BY <1>1, <1>5 DEF s

\* A transaction that is over has no locks.
LEMMA EndStep ==
  ASSUME LockInv, NEW p \in Proc, End(p)
  PROVE  LockInv'
BY IdleHolding, SessionStep DEF End, Release

\* A session that starts a request with no locks keeps the invariant.
LEMMA StartStep ==
  ASSUME LockInv, NEW p \in Proc, NEW r \in Requests, NEW n \in 0..MaxRetries,
         session' = [session EXCEPT ![p] = [Start(r) EXCEPT !.attempts = n]],
         update' = [update EXCEPT ![p] = {}],
         share' = [share EXCEPT ![p] = {}]
  PROVE  LockInv'
<1> DEFINE s == [Start(r) EXCEPT !.attempts = n]
<1>1. s \in Session /\ Holding(s, {}, {})
  BY StartHolding, Zenon
<1>2. session' = [session EXCEPT ![p] = s]
  OBVIOUS
<1> HIDE DEF s
<1>3. \A q \in Proc \ {p} : /\ {} \intersect (update[q] \union share[q]) = {}
                            /\ update[q] \intersect {} = {}
  OBVIOUS
<1>4. QED
  BY <1>1, <1>2, <1>3, SessionStep, Zenon

\* Taking up a request keeps the invariant.
LEMMA ReceiveStep ==
  ASSUME LockInv, NEW p \in Proc, Receive(p)
  PROVE  LockInv'
<1>1. PICK r \in Requests : session' = [session EXCEPT ![p] = Start(r)]
  BY DEF Receive
<1>2. Start(r) = [Start(r) EXCEPT !.attempts = 0] /\ 0 \in 0..MaxRetries
  <2>1. 0 \in 0..MaxRetries
    BY AccountRequestsAssumption
  <2>2. Start(r) \in Session /\ Start(r).attempts = 0
    BY <2>1 DEF Start, Idle, Session
  <2>3. QED
    BY <2>1, <2>2 DEF Session
<1>3. update[p] = {} /\ share[p] = {}
  BY SessionFacts DEF Receive, At, Holding
<1>4. update' = [update EXCEPT ![p] = {}] /\ share' = [share EXCEPT ![p] = {}]
  BY <1>3, SessionFacts DEF Receive
<1>5. QED
  BY <1>1, <1>2, <1>4, StartStep

\* An abort, retried or not, gives up all locks and keeps the invariant.
LEMMA AbortStep ==
  ASSUME LockInv, NEW p \in Proc, DbAbort(p)
  PROVE  LockInv'
<1>1. CASE MayRetry(p) /\ Retry(p)
  <2>1. session[p] \in Session
    BY SessionFacts
  <2>2. session[p].req \in Requests
    BY <2>1, RequestFacts, <1>1 DEF MayRetry, Op, Session
  <2>3. session[p].attempts + 1 \in 0..MaxRetries
    BY <2>1, <1>1, AccountRequestsAssumption DEF MayRetry, Session
  <2>4. QED
    BY <1>1, <2>2, <2>3, StartStep DEF Retry, Release
<1>2. CASE End(p)
  BY <1>2, EndStep
<1>3. QED
  BY <1>1, <1>2 DEF DbAbort

\* The account a post locks next is the smallest it has not locked.
LEMMA NextToLockFacts ==
  ASSUME LockInv, NEW p \in Proc, At(p, "lock")
  PROVE  /\ NextToLock(p) \in Unlocked(p)
         /\ \A b \in Unlocked(p) : NextToLock(p) <= b
         /\ Unlocked(p) = AccountsOf(session[p]) \ update[p]
         /\ Unlocked(p) \subseteq Nat /\ Unlocked(p) \subseteq Account
<1>1. Unlocked(p) = AccountsOf(session[p]) \ update[p]
  BY SessionFacts DEF Unlocked
<1>2. Unlocked(p) # {}
  BY <1>1, SessionFacts DEF At, Holding
<1>3. Unlocked(p) \subseteq Account /\ Unlocked(p) \subseteq Nat
  BY <1>1, SessionFacts, AccountsFacts, AccountsAssumption
<1>4. \E a \in Unlocked(p) : \A b \in Unlocked(p) : a <= b
  BY <1>2, <1>3, SmallestAccount
<1>5. QED
  BY <1>1, <1>3, <1>4 DEF NextToLock

\* LockAccountForUpdate adds the next account of the request in order, and
\* nobody else holds it.
LEMMA LockStep ==
  ASSUME LockInv, NEW p \in Proc, LockAccountForUpdate(p)
  PROVE  LockInv'
<1> DEFINE a == NextToLock(p)
           s == session[p]
           u == update[p] \union {a}
<1>1. CASE End(p)
  BY <1>1, EndStep
<1>2. ASSUME \A q \in Proc : ~UpdateBlockedBy(p, q, a),
             update' = [update EXCEPT ![p] = @ \union {a}],
             IF Unlocked(p) = {a} THEN Goto(p, "check") ELSE UNCHANGED session,
             UNCHANGED share
      PROVE  LockInv'
  <2>1. At(p, "lock")
    BY DEF LockAccountForUpdate
  <2>2. /\ s \in Session /\ Holding(s, update[p], {}) /\ share[p] = {}
        /\ s.pc = "lock" /\ s.req.op = "post" /\ s.inserted = 0
    BY <2>1, SessionFacts DEF At, Holding
  <2>3. /\ a \in AccountsOf(s) \ update[p] /\ a \in Account /\ a \in Nat
        /\ \A b \in AccountsOf(s) \ update[p] : a <= b /\ b \in Nat
        /\ Unlocked(p) = AccountsOf(s) \ update[p]
    BY <2>1, NextToLockFacts
  <2>4. u \in SUBSET Account /\ update' = [update EXCEPT ![p] = u]
    BY <1>2, <2>3, SessionFacts
  <2>5. share' = [share EXCEPT ![p] = {}]
    BY <1>2, <2>2, SessionFacts
  <2>6. \A q \in Proc \ {p} : u \intersect (update[q] \union share[q]) = {}
    BY <1>2, SessionFacts DEF UpdateBlockedBy
  <2>7. /\ u \subseteq AccountsOf(s)
        /\ \A b \in u, c \in AccountsOf(s) \ u : b < c
    <3>1. \A b \in update[p], c \in AccountsOf(s) \ update[p] : b < c
      BY <2>2 DEF Holding
    <3>2. \A c \in AccountsOf(s) \ u : a < c
      BY <2>3
    <3>3. update[p] \subseteq AccountsOf(s)
      BY <2>2 DEF Holding
    <3> HIDE DEF a, s
    <3>4. QED
      BY <2>3, <3>1, <3>2, <3>3
  <2>8. CASE Unlocked(p) = {a}
    <3> DEFINE t == [s EXCEPT !.pc = "check"]
    <3>1. /\ t \in Session /\ t.pc = "check" /\ t.req = s.req /\ t.inserted = 0
          /\ session' = [session EXCEPT ![p] = t]
      BY <1>2, <2>2, <2>8 DEF Session, Goto
    <3>2. u = AccountsOf(s) /\ AccountsOf(t) = AccountsOf(s)
      BY <2>3, <2>7, <2>8, <3>1 DEF AccountsOf
    <3> HIDE DEF t, a, s, u
    <3>3. Holding(t, u, {})
      BY <2>2, <3>1, <3>2 DEF Holding
    <3>4. QED
      BY <2>4, <2>5, <2>6, <3>1, <3>3, SessionStep
  <2>9. CASE Unlocked(p) # {a}
    <3>1. session' = [session EXCEPT ![p] = s]
      BY <1>2, <2>9, SessionFacts
    <3>2. AccountsOf(s) \ u # {}
      BY <2>3, <2>9
    <3> HIDE DEF a, s, u
    <3>3. Holding(s, u, {})
      BY <2>2, <2>7, <3>2 DEF Holding
    <3>4. QED
      BY <2>2, <2>4, <2>5, <2>6, <3>1, <3>3, SessionStep
  <2>10. QED
    BY <2>8, <2>9
<1>3. QED
  BY <1>1, <1>2 DEF LockAccountForUpdate

\* The checks of a request keep the invariant.
LEMMA ValidateStep ==
  ASSUME LockInv, NEW p \in Proc, ValidateAccounts(p)
  PROVE  LockInv'
<1> DEFINE s == session[p]
           t == [s EXCEPT !.pc = "insert"]
<1>1. CASE End(p)
  BY <1>1, EndStep
<1>2. CASE Goto(p, "insert") /\ UNCHANGED <<update, share>>
  <2>1. /\ s \in Session /\ s.pc = "check" /\ s.inserted = 0 /\ s.req.op # "none"
        /\ Holding(s, update[p], share[p])
    BY SessionFacts DEF ValidateAccounts, At, Holding
  <2>2. /\ t \in Session /\ t.pc = "insert" /\ t.req = s.req /\ t.inserted = 0
        /\ session' = [session EXCEPT ![p] = t]
    BY <1>2, <2>1 DEF Session, Goto
  <2>3. 0 < Len(t.req.entries) /\ AccountsOf(t) = AccountsOf(s)
    BY <2>1, <2>2, RequestFacts DEF Session, AccountsOf
  <2> HIDE DEF t
  <2>4. Holding(t, update[p], share[p])
    BY <2>1, <2>2, <2>3 DEF Holding
  <2>5. QED
    BY <1>2, <2>2, <2>4, SessionFacts, SessionStep
<1>3. QED
  BY <1>1, <1>2 DEF ValidateAccounts

\* The account of the entry a session inserts next.
LEMMA NextEntryFacts ==
  ASSUME LockInv, NEW p \in Proc, At(p, "insert")
  PROVE  NextEntry(p) \in AccountsOf(session[p]) /\ NextEntry(p) \in Account
<1> DEFINE s == session[p]
<1>1. s \in Session /\ s.inserted < Len(s.req.entries) /\ s.inserted \in Nat
  BY SessionFacts DEF At, Holding, Session
<1>2. s.inserted + 1 \in 1..Len(s.req.entries) /\ s.req.entries \in Seq(Account)
  BY <1>1, RequestFacts, LenProperties DEF Session
<1>3. QED
  BY <1>2, ElementOfSeq, LenProperties DEF NextEntry, Entries, AccountsOf

\* An insertion adds a share lock on an account of the request that nobody
\* else has for update.
LEMMA InsertStep ==
  ASSUME LockInv, NEW p \in Proc, InsertEntry(p)
  PROVE  LockInv'
<1> DEFINE s == session[p]
           pc == IF s.inserted + 1 = Len(Entries(p)) THEN "commit" ELSE "insert"
           t == [s EXCEPT !.inserted = @ + 1, !.pc = pc]
           h == share[p] \union {NextEntry(p)}
<1>1. /\ s \in Session /\ s.pc = "insert" /\ s.req.op # "none"
      /\ Holding(s, update[p], share[p])
  BY SessionFacts DEF InsertEntry, At, Holding
<1>2. NextEntry(p) \in AccountsOf(s) /\ NextEntry(p) \in Account
  BY NextEntryFacts DEF InsertEntry
<1>3. s.inserted \in Nat /\ Len(s.req.entries) \in Nat /\ s.inserted < Len(s.req.entries)
  BY <1>1, RequestFacts DEF Session, Holding
<1>4. /\ t \in Session /\ t.req = s.req /\ t.inserted = s.inserted + 1
      /\ t.pc = pc /\ session' = [session EXCEPT ![p] = t]
  <2>1. pc \in {"insert", "commit"}
    OBVIOUS
  <2> HIDE DEF pc
  <2>2. t \in Session /\ t.req = s.req /\ t.inserted = s.inserted + 1 /\ t.pc = pc
    <3>1. s.inserted + 1 \in Nat
      BY <1>3
    <3>2. t = [pc |-> pc, req |-> s.req, inserted |-> s.inserted + 1, attempts |-> s.attempts]
      <4>1. s \in Session /\ t = [s EXCEPT !.inserted = s.inserted + 1, !.pc = pc]
        BY <1>1
      <4> HIDE DEF t, s
      <4>2. QED
        BY <4>1 DEF Session
    <3>3. s.req \in Requests \union {NoRequest} /\ s.attempts \in 0..MaxRetries
      BY <1>1 DEF Session
    <3> HIDE DEF t, s
    <3>4. t \in Session
      BY <2>1, <3>1, <3>2, <3>3 DEF Session
    <3>5. QED
      BY <3>2, <3>4
  <2>3. session' = [session EXCEPT ![p] = t]
    BY DEF InsertEntry, pc
  <2>4. QED
    BY <2>2, <2>3
<1>5. AccountsOf(t) = AccountsOf(s)
  BY <1>4 DEF AccountsOf
<1>6. t.pc = "insert" => t.inserted < Len(t.req.entries)
  BY <1>3, <1>4 DEF Entries
<1>7. t.pc \in {"insert", "commit"}
  BY <1>4
<1>8. h \in SUBSET Account /\ h \subseteq AccountsOf(s)
  BY <1>1, <1>2, SessionFacts DEF Holding
<1>9. \A q \in Proc \ {p} : update[q] \intersect h = {}
  BY SessionFacts DEF InsertEntry, ShareBlockedBy
<1>10. share' = [share EXCEPT ![p] = h] /\ update' = [update EXCEPT ![p] = update[p]]
  BY SessionFacts DEF InsertEntry
<1> HIDE DEF t, h, pc
<1>11. Holding(t, update[p], h)
  BY <1>1, <1>4, <1>5, <1>6, <1>7, <1>8 DEF Holding
<1>12. QED
  BY <1>4, <1>8, <1>9, <1>10, <1>11, SessionFacts, SessionStep

\* The initial state satisfies the invariant.
LEMMA LockInvInit == Init => LockInv
<1> SUFFICES ASSUME Init PROVE LockInv
  OBVIOUS
<1>1. LocksTypeOK /\ Exclusive
  BY IdleHolding DEF Init, LocksTypeOK, Exclusive
<1>2. \A p \in Proc : Holding(session[p], update[p], share[p])
  BY IdleHolding DEF Init
<1>3. QED
  BY <1>1, <1>2 DEF LockInv

\* Every step keeps the invariant.
LEMMA LockInvStep == LockInv /\ [Next]_vars => LockInv'
<1> SUFFICES ASSUME LockInv, [Next]_vars PROVE LockInv'
  OBVIOUS
<1>1. ASSUME NEW p \in Proc, Receive(p) PROVE LockInv'
  BY <1>1, ReceiveStep
<1>2. ASSUME NEW p \in Proc, Step(p) PROVE LockInv'
  BY <1>2, LockStep, ValidateStep, InsertStep, EndStep DEF Step, Commit
<1>3. ASSUME NEW p \in Proc, DbAbort(p) PROVE LockInv'
  BY <1>3, AbortStep
<1>4. ASSUME NEW p \in Proc, Fail(p) PROVE LockInv'
  BY <1>4, EndStep DEF Fail
<1>5. CASE UNCHANGED vars
  BY <1>5 DEF vars, LockInv, LocksTypeOK, Exclusive
<1>6. QED
  BY <1>1, <1>2, <1>3, <1>4, <1>5 DEF Next

\* The invariant holds in every reachable state.
LEMMA LockInvariant == Spec => []LockInv
BY LockInvInit, LockInvStep, PTL DEF Spec

-----------------------------------------------------------------------------
(* What follows. *)

\* Sessions, update locks and share locks are always well typed, and the
\* attempts of a post never exceed MaxRetries.
THEOREM LocksTyped == Spec => []LocksTypeOK
<1>1. LockInv => LocksTypeOK
  BY DEF LockInv
<1>2. QED
  BY <1>1, LockInvariant, PTL

\* A post waits only while it is locking: the accounts of the entries it then
\* inserts are locked for it alone.
LEMMA PostsWaitAtLocks ==
  ASSUME LockInv, NEW p \in Proc, NEW q \in Proc, Op(p) = "post", WaitsFor(p, q)
  PROVE  At(p, "lock")
<1>1. SUFFICES ASSUME At(p, "insert"), ShareBlockedBy(p, q, NextEntry(p)) PROVE FALSE
  BY DEF WaitsFor
<1>2. NextEntry(p) \in update[p]
  BY <1>1, NextEntryFacts, SessionFacts DEF At, Op, Holding
<1>3. QED
  BY <1>1, <1>2, SessionFacts DEF ShareBlockedBy

\* A batch or a reversal waits for a post: only posts lock FOR UPDATE.
LEMMA OthersWaitForPosts ==
  ASSUME LockInv, NEW p \in Proc, NEW q \in Proc, Op(p) # "post", WaitsFor(p, q)
  PROVE  Op(q) = "post"
<1>1. SUFFICES ASSUME ShareBlockedBy(p, q, NextEntry(p)) PROVE Op(q) = "post"
  BY SessionFacts DEF WaitsFor, At, Op, Holding
<1>2. update[q] # {}
  BY <1>1 DEF ShareBlockedBy
<1>3. QED
  BY <1>2, SessionFacts DEF Op, Holding

\* A circle has a post, and all its posts are locking.
LEMMA AtLocksByInv == LockInv => CirclesAtLocks
<1> SUFFICES ASSUME LockInv, NEW S \in SUBSET Proc, Circle(S)
             PROVE  /\ \E p \in S : Op(p) = "post"
                    /\ \A p \in S : Op(p) = "post" => At(p, "lock")
  BY DEF CirclesAtLocks
<1>1. \A p \in S : \E q \in S : WaitsFor(p, q)
  BY DEF Circle
<1>2. PICK p \in S, q \in S : WaitsFor(p, q)
  BY <1>1 DEF Circle
<1>3. Op(p) = "post" \/ Op(q) = "post"
  BY <1>2, OthersWaitForPosts
<1>4. \A r \in S : Op(r) = "post" => At(r, "lock")
  BY <1>1, PostsWaitAtLocks
<1>5. QED
  BY <1>3, <1>4

\* Deadlocks strike posts only while they lock (LockMultipleAccountsForUpdate
\* comes before the checks and the insertions), and never batches and reversals
\* alone, which insert without any retry.
THEOREM DeadlocksAtLocks == Spec => []CirclesAtLocks
BY AtLocksByInv, LockInvariant, PTL

\* A post that waits for a post waits for a smaller account than that one.
LEMMA UpwardsByInv == LockInv => PostsWaitUpwards
<1> SUFFICES ASSUME LockInv, NEW p \in Proc, NEW q \in Proc,
                    Op(p) = "post", Op(q) = "post", WaitsFor(p, q)
             PROVE  At(p, "lock") /\ (At(q, "lock") => NextToLock(p) < NextToLock(q))
  BY DEF PostsWaitUpwards
<1>2. At(p, "lock")
  BY PostsWaitAtLocks
<1>3. ASSUME At(q, "lock") PROVE NextToLock(p) < NextToLock(q)
  <2>1. NextToLock(p) \in update[q] \union share[q]
    BY <1>2 DEF WaitsFor, At, UpdateBlockedBy
  <2>2. share[q] = {} /\ \A a \in update[q], b \in AccountsOf(session[q]) \ update[q] : a < b
    BY <1>3, SessionFacts DEF At, Holding
  <2>3. QED
    BY <1>3, <2>1, <2>2, NextToLockFacts
<1>4. QED
  BY <1>2, <1>3

\* Posts wait only upwards: the account a post waits for is larger than every
\* account it holds (LockMultipleAccountsForUpdate locks in sorted order).
THEOREM LocksWaitUpwards == Spec => []PostsWaitUpwards
BY UpwardsByInv, LockInvariant, PTL

\* In a circle of waiting posts the one that waits for the largest account
\* would wait for a smaller account than some other one.
LEMMA NoCircleByInv == LockInv => PostsNeverCircle
<1> SUFFICES ASSUME LockInv,
                    NEW S \in (SUBSET {p \in Proc : Op(p) = "post"}) \ {{}},
                    \A p \in S : \E q \in S : WaitsFor(p, q)
             PROVE  FALSE
  BY DEF PostsNeverCircle
<1>1. \A p \in S : p \in Proc /\ Op(p) = "post"
  OBVIOUS
<1>2. \A p, q \in S : WaitsFor(p, q) => At(p, "lock")
  BY <1>1, UpwardsByInv DEF PostsWaitUpwards
<1>3. \A p \in S : At(p, "lock")
  BY <1>2
<1> DEFINE Waited == {NextToLock(p) : p \in S}
<1>4. Waited \subseteq Account /\ Waited # {}
  BY <1>1, <1>3, NextToLockFacts
<1>5. Waited \subseteq Nat /\ IsFiniteSet(Waited)
  BY <1>4, AccountsAssumption, FS_Subset
<1>6. \E a \in Waited : \A b \in Waited : b <= a
  BY <1>4, <1>5, LargestAccount
<1>7. PICK p \in S : \A q \in S : NextToLock(q) <= NextToLock(p)
  BY <1>6
<1>8. PICK q \in S : WaitsFor(p, q)
  OBVIOUS
<1>9. NextToLock(p) < NextToLock(q) /\ NextToLock(q) <= NextToLock(p)
  BY <1>1, <1>3, <1>7, <1>8, UpwardsByInv DEF PostsWaitUpwards
<1>10. NextToLock(p) \in Nat /\ NextToLock(q) \in Nat
  BY <1>5
<1>11. QED
  BY <1>9, <1>10

\* Posts never deadlock among themselves, whatever the other requests do.
THEOREM PostsNeverDeadlock == Spec => []PostsNeverCircle
BY NoCircleByInv, LockInvariant, PTL
=============================================================================
