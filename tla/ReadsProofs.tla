----------------------------- MODULE ReadsProofs -----------------------------
(***************************************************************************)
(* Proofs about the queries beside the operations of the books, for any    *)
(* number of transactions, accounts, pages and instants: a balance query   *)
(* counts no transaction twice and every steady one as it is, and a walk   *)
(* through the pages of a list shows whole transactions, and neither loses *)
(* nor repeats one as long as nothing is committed in front of its page.   *)
(***************************************************************************)
EXTENDS BooksProofs, BalanceReads, Queries, FunctionTheorems

-----------------------------------------------------------------------------
(* What the operations do under a query. *)

\* What an operation may do to a transaction that is there, or not there yet.
MovesOn(old, new) ==
  \/ new = old
  \/ old = "absent" /\ new \in Posted
  \/ old = "pending" /\ new \in {"settled", "cancelled"}

\* Transactions only move on in their lives, and the time of one that is there
\* never changes.
LEMMA OperationFacts ==
  ASSUME LedgerTypeOK, Operation, NEW t \in Txn
  PROVE  /\ MovesOn(ledger[t].state, ledger'[t].state)
         /\ Exists(t) => postedAt'[t] = postedAt[t]
<1> USE DEF LedgerTypeOK, Row, MovesOn, Exists
<1>1. ASSUME NEW r \in Requests, NEW u \in Txn, NEW s \in Stamps, Post(r, u), Dated(<<u>>, s)
      PROVE  /\ MovesOn(ledger[t].state, ledger'[t].state)
             /\ Exists(t) => postedAt'[t] = postedAt[t]
  <2>1. Range(<<u>>) = {u}
    BY DEF Range
  <2>2. Exists(t) => t # u
    BY <1>1 DEF Post
  <2>3. MovesOn(ledger[t].state, ledger'[t].state)
    BY <1>1, BooksAssumption DEF Post, NewRow
  <2>4. QED
    BY <1>1, <2>1, <2>2, <2>3 DEF Dated
<1>2. ASSUME NEW q \in Requests, NEW r \in Requests, NEW u \in Txn, NEW v \in Txn, NEW s \in Stamps,
             PostBatch(q, r, u, v), Dated(<<u, v>>, s)
      PROVE  /\ MovesOn(ledger[t].state, ledger'[t].state)
             /\ Exists(t) => postedAt'[t] = postedAt[t]
  <2>1. Range(<<u, v>>) = {u, v}
    BY DEF Range
  <2>2. Exists(t) => t # u /\ t # v
    BY <1>2 DEF PostBatch
  <2>3. MovesOn(ledger[t].state, ledger'[t].state)
    BY <1>2, BooksAssumption DEF PostBatch, NewRow
  <2>4. QED
    BY <1>2, <2>1, <2>2, <2>3 DEF Dated
<1>3. ASSUME NEW u \in Txn, NEW r \in Txn, NEW st \in Posted, NEW s \in Stamps,
             Reverse(u, st, r), Dated(<<r>>, s)
      PROVE  /\ MovesOn(ledger[t].state, ledger'[t].state)
             /\ Exists(t) => postedAt'[t] = postedAt[t]
  <2>1. Range(<<r>>) = {r}
    BY DEF Range
  <2>2. Exists(t) => t # r
    BY <1>3 DEF Reverse
  <2>3. MovesOn(ledger[t].state, ledger'[t].state)
    BY <1>3 DEF Reverse, ReversedRow, NewRow
  <2>4. QED
    BY <1>3, <2>1, <2>2, <2>3 DEF Dated
<1>4. ASSUME NEW u \in Txn, Settle(u) \/ Cancel(u), UNCHANGED postedAt
      PROVE  /\ MovesOn(ledger[t].state, ledger'[t].state)
             /\ Exists(t) => postedAt'[t] = postedAt[t]
  BY <1>4 DEF Settle, Cancel, SettledRow, CancelledRow
<1>5. QED
  BY <1>1, <1>2, <1>3, <1>4 DEF Operation

\* Nor do its entries.
LEMMA EntriesKept ==
  ASSUME TypeOK, Operation, NEW t \in Txn, Exists(t)
  PROVE  entries'[t] = entries[t]
<1>1. entries \in [Txn -> Seq(Entry)]
  BY DEF TypeOK
<1>2. ASSUME NEW r \in Requests, NEW u \in Txn, Post(r, u) PROVE entries'[t] = entries[t]
  BY <1>1, <1>2 DEF Post
<1>3. ASSUME NEW q \in Requests, NEW r \in Requests, NEW u \in Txn, NEW v \in Txn,
             PostBatch(q, r, u, v)
      PROVE  entries'[t] = entries[t]
  BY <1>1, <1>3 DEF PostBatch
<1>4. ASSUME NEW u \in Txn, NEW r \in Txn, NEW st \in Posted, Reverse(u, st, r)
      PROVE  entries'[t] = entries[t]
  BY <1>1, <1>4 DEF Reverse
<1>5. ASSUME NEW u \in Txn, Settle(u) \/ Cancel(u) PROVE entries'[t] = entries[t]
  BY <1>5 DEF Settle, Cancel
<1>6. QED
  BY <1>2, <1>3, <1>4, <1>5 DEF Operation

\* Times are instants.
LEMMA TimesStep ==
  ASSUME postedAt \in [Txn -> Nat], clock \in Nat, Operation \/ Tick
  PROVE  postedAt' \in [Txn -> Nat] /\ clock' \in Nat
<1>1. ASSUME NEW ts, NEW n \in Nat, DOMAIN ts = 1..n, NEW s \in Stamps, Dated(ts, s)
      PROVE  postedAt' \in [Txn -> Nat]
  <2>1. s \in Nat
    BY DEF Stamps
  <2>2. ASSUME NEW t \in Range(ts)
        PROVE  s + (CHOOSE i \in DOMAIN ts : ts[i] = t) - 1 \in Nat
    <3> DEFINE i == CHOOSE j \in DOMAIN ts : ts[j] = t
    <3>1. \E j \in DOMAIN ts : ts[j] = t
      BY DEF Range
    <3>2. i \in 1..n
      BY <1>1, <3>1
    <3> HIDE DEF i
    <3>3. s + i - 1 \in Nat
      BY <2>1, <3>2
    <3>4. QED
      BY <3>3 DEF i
  <2>3. QED
    BY <1>1, <2>2 DEF Dated
<1>2. \A t, u : DOMAIN <<t>> = 1..1 /\ DOMAIN <<t, u>> = 1..2
  OBVIOUS
<1>3. ASSUME NEW r \in Requests, NEW t \in Txn, NEW s \in Stamps, Post(r, t), Dated(<<t>>, s)
      PROVE  postedAt' \in [Txn -> Nat]
  BY <1>1, <1>2, <1>3
<1>4. ASSUME NEW q \in Requests, NEW r \in Requests, NEW t \in Txn, NEW u \in Txn, NEW s \in Stamps,
             PostBatch(q, r, t, u), Dated(<<t, u>>, s)
      PROVE  postedAt' \in [Txn -> Nat]
  BY <1>1, <1>2, <1>4
<1>5. ASSUME NEW t \in Txn, NEW r \in Txn, NEW st \in Posted, NEW s \in Stamps,
             Reverse(t, st, r), Dated(<<r>>, s)
      PROVE  postedAt' \in [Txn -> Nat]
  BY <1>1, <1>2, <1>5
<1>6. CASE Tick
  BY <1>6 DEF Tick
<1>7. CASE Operation
  <2>1. clock' \in Nat
    BY <1>7 DEF Operation
  <2>2. postedAt' \in [Txn -> Nat]
    BY <1>3, <1>4, <1>5, <1>7 DEF Operation
  <2>3. QED
    BY <2>1, <2>2
<1>8. QED
  BY <1>6, <1>7

-----------------------------------------------------------------------------
(* Balance queries. *)

\* A step of the dated books is an operation of the books, or leaves the
\* transactions alone.
LEMMA DatedStep ==
  LedgerTypeOK /\ [DatedNext]_datedVars =>
    \/ Operation
    \/ UNCHANGED <<ledger, postedAt>>
BY DEF DatedNext, Tick, datedVars

\* The books keep their types under the clock and the queries too.
LEMMA BalanceTypeStep == LedgerTypeOK /\ [BalanceNext]_balanceVars => LedgerTypeOK'
<1>1. Operation => [Next]_vars
  BY DEF Operation, Next, vars
<1>2. Tick \/ ReadStep \/ UNCHANGED balanceVars => UNCHANGED ledger
  BY DEF Tick, ReadStep, balanceVars, datedVars
<1>3. QED
  BY <1>1, <1>2, BooksTypeStep DEF BalanceNext, DatedNext, LedgerTypeOK

Kinds == {"settled", "pending"}

Reader == [part : 0..3, asOf : {reader.asOf}, before : SUBSET (Txn \X States),
           counted : [Kinds -> SUBSET Txn]]

\* A query that has the shape of one: the settled transactions are counted
\* in its first part and the pending ones in its second.
Shaped ==
  /\ reader \in Reader
  /\ reader.part <= 1 => reader.counted["settled"] = {}
  /\ reader.part <= 2 => reader.counted["pending"] = {}

\* What the query found is no later in its life than it is now, what it has
\* counted as settled still is, and steady transactions are counted right.
\* This is inductive because no transaction ever comes back to a state.
CountInv ==
  /\ \A t \in Txn, s \in States : <<t, s>> \in reader.before =>
       s # "absent" /\ MovesOn(s, ledger[t].state)
  /\ \A t \in reader.counted["settled"] : ledger[t].state = "settled"
  /\ \A t \in Txn : <<t, ledger[t].state>> \in reader.before =>
       /\ reader.part >= 2 =>
            (t \in reader.counted["settled"] <=>
               ledger[t].state = "settled" /\ postedAt[t] <= reader.asOf)
       /\ reader.part >= 3 =>
            (t \in reader.counted["pending"] <=>
               ledger[t].state = "pending" /\ postedAt[t] <= reader.asOf)

ReaderInv == LedgerTypeOK /\ Shaped /\ CountedOnce /\ CountInv

\* No query is under way at the start.
LEMMA ReaderInit == BalanceInit => ReaderInv
<1> SUFFICES ASSUME BalanceInit PROVE ReaderInv
  OBVIOUS
<1>1. LedgerTypeOK
  BY BooksTypeInit DEF BalanceInit, DatedInit
<1>2. reader = NoRead
  BY DEF BalanceInit
<1>3. QED
  BY <1>1, <1>2 DEF ReaderInv, Shaped, Reader, Kinds, NoRead, CountedOnce, CountInv

\* The ledger going on spoils nothing of a query.
LEMMA LedgerMoves ==
  ASSUME ReaderInv, LedgerTypeOK', Operation \/ UNCHANGED <<ledger, postedAt>>, UNCHANGED reader
  PROVE  ReaderInv'
<1>1. \A t \in Txn : /\ MovesOn(ledger[t].state, ledger'[t].state)
                     /\ Exists(t) => postedAt'[t] = postedAt[t]
  BY OperationFacts DEF ReaderInv, MovesOn
<1>2. \A t \in Txn : ledger[t].state \in States /\ ledger'[t].state \in States
  BY DEF ReaderInv, LedgerTypeOK, Row
<1>3. Shaped' /\ CountedOnce'
  BY DEF ReaderInv, Shaped, Reader, CountedOnce
<1>4. \A t \in Txn, s \in States : <<t, s>> \in reader.before =>
        s # "absent" /\ MovesOn(s, ledger'[t].state)
  BY <1>1, <1>2 DEF ReaderInv, CountInv, MovesOn, States, Posted
<1>5. \A t \in reader.counted["settled"] : ledger'[t].state = "settled"
  <2>1. reader.counted["settled"] \subseteq Txn
    BY DEF ReaderInv, Shaped, Reader, Kinds
  <2>2. QED
    BY <1>1, <2>1 DEF ReaderInv, CountInv, MovesOn
<1>6. \A t \in Txn : <<t, ledger'[t].state>> \in reader.before =>
        ledger'[t].state = ledger[t].state /\ postedAt'[t] = postedAt[t]
  <2>1. SUFFICES ASSUME NEW t \in Txn, <<t, ledger'[t].state>> \in reader.before
                 PROVE  ledger'[t].state = ledger[t].state /\ postedAt'[t] = postedAt[t]
    OBVIOUS
  <2>2. ledger'[t].state # "absent" /\ MovesOn(ledger'[t].state, ledger[t].state)
    BY <1>2, <2>1 DEF ReaderInv, CountInv
  <2>3. ledger'[t].state = ledger[t].state
    BY <1>1, <1>2, <2>2 DEF MovesOn, States, Posted
  <2>4. QED
    BY <1>1, <2>2, <2>3 DEF Exists
<1>7. CountInv'
  BY <1>4, <1>5, <1>6 DEF ReaderInv, CountInv
<1>8. QED
  BY <1>3, <1>7 DEF ReaderInv

\* The steps of the query itself keep the invariant.
LEMMA ReadMoves ==
  ASSUME ReaderInv, ReadStep
  PROVE  ReaderInv'
<1>1. UNCHANGED <<ledger, postedAt>> /\ LedgerTypeOK'
  BY DEF ReaderInv, ReadStep, datedVars, LedgerTypeOK
<1>2. \A t \in Txn : ledger[t].state \in States
  BY DEF ReaderInv, LedgerTypeOK, Row
<1>3. ASSUME NEW asOf, StartRead(asOf) PROVE ReaderInv'
  <2>1. /\ reader'.part = 1 /\ reader'.asOf = asOf /\ reader'.before = StatesNow
        /\ reader'.counted = [s \in Kinds |-> {}]
        /\ reader' = [part |-> 1, asOf |-> asOf, before |-> StatesNow,
                      counted |-> [s \in Kinds |-> {}]]
    BY <1>3 DEF StartRead, NoRead, Kinds
  <2>2. StatesNow \subseteq Txn \X States
    BY <1>2 DEF StatesNow
  <2>3. \A t \in Txn, s \in States : <<t, s>> \in StatesNow => s # "absent" /\ s = ledger[t].state
    BY DEF StatesNow, Exists
  <2>4. Shaped' /\ CountedOnce'
    BY <2>1, <2>2 DEF Shaped, Reader, Kinds, CountedOnce
  <2>5. CountInv'
    BY <1>1, <2>1, <2>3 DEF CountInv, MovesOn, Kinds
  <2>6. QED
    BY <1>1, <2>4, <2>5 DEF ReaderInv
<1>4. CASE ReadPart
  <2> DEFINE s == Parts[reader.part]
  <2>1. reader.part \in {1, 2} /\ (reader.part = 1 => s = "settled") /\ (reader.part = 2 => s = "pending")
    BY <1>4 DEF ReadPart, Parts
  <2>2. Selected(s, reader.asOf) \subseteq Txn
    BY DEF Selected, InStateAsOf, InState
  <2>3. /\ reader'.part = reader.part + 1 /\ reader'.asOf = reader.asOf
        /\ reader'.before = reader.before
        /\ reader'.counted = [reader.counted EXCEPT ![s] = Selected(s, reader.asOf)]
        /\ reader' = [part |-> reader.part + 1, asOf |-> reader.asOf, before |-> reader.before,
                      counted |-> [reader.counted EXCEPT ![s] = Selected(s, reader.asOf)]]
    BY <1>4 DEF ReadPart, ReaderInv, Shaped, Reader
  <2>4. \A t \in Txn : t \in Selected(s, reader.asOf) <=>
                         ledger[t].state = s /\ postedAt[t] <= reader.asOf
    BY DEF Selected, InStateAsOf, InState
  <2>5. reader.counted \in [Kinds -> SUBSET Txn] /\ reader.before \in SUBSET (Txn \X States)
    BY DEF ReaderInv, Shaped, Reader
  <2> HIDE DEF s
  <2>6. CASE reader.part = 1
    <3>1. /\ reader'.counted["settled"] = Selected("settled", reader.asOf)
          /\ reader'.counted["pending"] = {} /\ reader'.part = 2
          /\ reader'.counted \in [Kinds -> SUBSET Txn]
      BY <2>1, <2>2, <2>3, <2>5, <2>6 DEF ReaderInv, Shaped, Kinds
    <3>2. Shaped' /\ CountedOnce'
      BY <2>3, <2>5, <3>1 DEF Shaped, Reader, CountedOnce
    <3>3. CountInv'
      BY <1>1, <2>1, <2>2, <2>3, <2>4, <2>6, <3>1 DEF ReaderInv, CountInv
    <3>4. QED
      BY <1>1, <3>2, <3>3 DEF ReaderInv
  <2>7. CASE reader.part = 2
    <3>1. /\ reader'.counted["pending"] = Selected("pending", reader.asOf)
          /\ reader'.counted["settled"] = reader.counted["settled"] /\ reader'.part = 3
          /\ reader'.counted \in [Kinds -> SUBSET Txn]
      BY <2>1, <2>2, <2>3, <2>5, <2>7 DEF Kinds
    <3>2. reader'.counted["settled"] \intersect reader'.counted["pending"] = {}
      <4>1. \A t \in reader.counted["settled"] : t \in Txn /\ ledger[t].state = "settled"
        BY <2>5 DEF ReaderInv, CountInv, Kinds
      <4>2. QED
        BY <2>1, <2>4, <2>7, <3>1, <4>1
    <3>3. Shaped' /\ CountedOnce'
      BY <2>3, <2>5, <3>1, <3>2 DEF Shaped, Reader, CountedOnce
    <3>4. CountInv'
      BY <1>1, <2>1, <2>3, <2>4, <2>7, <3>1 DEF ReaderInv, CountInv
    <3>5. QED
      BY <1>1, <3>3, <3>4 DEF ReaderInv
  <2>8. QED
    BY <2>1, <2>6, <2>7
<1>5. CASE Return
  BY <1>1, <1>5 DEF Return, ReaderInv, Shaped, Reader, Kinds, NoRead, CountedOnce, CountInv
<1>6. QED
  BY <1>3, <1>4, <1>5 DEF ReadStep

\* Every step keeps the invariant.
LEMMA ReaderStep == ReaderInv /\ [BalanceNext]_balanceVars => ReaderInv'
<1> SUFFICES ASSUME ReaderInv, [BalanceNext]_balanceVars PROVE ReaderInv'
  OBVIOUS
<1>1. LedgerTypeOK'
  BY BalanceTypeStep DEF ReaderInv
<1>2. CASE DatedNext /\ UNCHANGED reader
  BY <1>1, <1>2, DatedStep, LedgerMoves DEF ReaderInv
<1>3. CASE ReadStep
  BY <1>3, ReadMoves
<1>4. CASE UNCHANGED balanceVars
  BY <1>1, <1>4, LedgerMoves DEF balanceVars
<1>5. QED
  BY <1>2, <1>3, <1>4 DEF BalanceNext

\* No balance query counts a transaction both as settled and as pending,
\* whatever is settled, cancelled and posted between its two statements.
THEOREM BalanceCountedOnce == BalanceSpec => []CountedOnce
<1>1. ReaderInv => CountedOnce
  BY DEF ReaderInv
<1>2. QED
  BY <1>1, ReaderInit, ReaderStep, PTL DEF BalanceSpec

\* A transaction that stays as the query found it is counted as what it is.
THEOREM BalanceSteadyCounted == BalanceSpec => []SteadyCounted
<1>1. ReaderInv => SteadyCounted
  <2>1. SUFFICES ASSUME ReaderInv, Answered, NEW t \in Txn, NEW s \in Kinds,
                        <<t, ledger[t].state>> \in reader.before
                 PROVE  t \in reader.counted[s] <=>
                          ledger[t].state = s /\ postedAt[t] <= reader.asOf
    BY DEF SteadyCounted, Kinds
  <2>2. reader.part >= 3 /\ reader.part >= 2
    BY <2>1 DEF Answered, Parts, ReaderInv, Shaped, Reader
  <2>3. QED
    BY <2>1, <2>2 DEF ReaderInv, CountInv, Kinds
<1>2. QED
  BY <1>1, ReaderInit, ReaderStep, PTL DEF BalanceSpec

-----------------------------------------------------------------------------
(* The invariant of a walk. *)

Statements == {"none", "count", "page", "entries", "answered"}
Counted == {"page", "entries", "answered"}
Paged   == {"entries", "answered"}

Walk == [part : Statements, query : Lists \union {Unset}, total : Nat, page : Seq(Txn),
         fetched : Seq(Seq(Entry)), shown : Seq(Txn), quiet : BOOLEAN, late : BOOLEAN]

Ascending == list.query.order = "timestamp_asc"

Before(t, u) == IF Ascending THEN Older(t, u) ELSE Newer(t, u)

\* The transactions of s are the first of the list, in its order.
InFront(s) ==
  /\ IsInjective(s) /\ Range(s) \subseteq Matches
  /\ \A i, j \in DOMAIN s : i < j => Before(s[i], s[j])
  /\ \A t \in Matches \ Range(s), i \in DOMAIN s : Before(s[i], t)

\* Nothing that was committed during the walk can be in front of what it has
\* shown.
Undisturbed == list.quiet \/ (~list.late /\ Ascending /\ list.query.state = Unset)

\* A page is one of transactions that are there, with the entries they have.
PageInv ==
  /\ list.part \notin Paged => list.page = <<>>
  /\ \A i \in DOMAIN list.page : Exists(list.page[i])
  /\ ListAnswered => \A i \in DOMAIN list.page : list.fetched[i] = entries[list.page[i]]

\* What was counted is still there unless the filter is on the state, all that
\* is seen comes in front of all that is not, and a page is empty only where the
\* list is over.  That Seen is in front has to hold between the pages too: there
\* the next page, cut from another ordering, must continue it.
WalkInv ==
  list.part # "none" =>
    /\ list.query \in Lists
    /\ list.part \in Counted =>
         /\ list.query.state = Unset => list.total <= Cardinality(Matches)
         /\ list.quiet => list.total = Cardinality(Matches)
    /\ list.part \in Paged /\ list.quiet /\ list.page = <<>> =>
         Cardinality(Matches) <= Len(list.shown)
    /\ Undisturbed /\ NoTies => InFront(Seen)

ListInv ==
  /\ BooksInv /\ postedAt \in [Txn -> Nat] /\ clock \in Nat
  /\ list \in Walk /\ PageInv /\ WalkInv

-----------------------------------------------------------------------------
(* Listings. *)

\* The matches are finitely many transactions of the books.
LEMMA MatchesFacts ==
  BooksInv => Matches \subseteq Txn /\ IsFiniteSet(Matches) /\ Cardinality(Matches) \in Nat
<1> SUFFICES ASSUME BooksInv
             PROVE  Matches \subseteq Txn /\ IsFiniteSet(Matches) /\ Cardinality(Matches) \in Nat
  OBVIOUS
<1>1. Matches \subseteq Present
  BY DEF Matches, Present
<1>2. IsFiniteSet(Matches)
  BY <1>1, FS_Subset DEF BooksInv
<1>3. QED
  BY <1>2, FS_CardinalityType DEF Matches

\* A listing has the matches, each of them once.
LEMMA ListingFacts ==
  ASSUME BooksInv, NEW s \in Listings
  PROVE  /\ s \in Seq(Txn) /\ Len(s) = Cardinality(Matches) /\ DOMAIN s = 1..Len(s)
         /\ IsInjective(s) /\ Range(s) = Matches /\ Ordered(s)
<1> DEFINE n == Cardinality(Matches)
<1>1. n \in Nat /\ Matches \subseteq Txn
  BY MatchesFacts
<1>2. s \in Bijection(1..n, Matches) /\ Ordered(s)
  BY Zenon DEF Listings
<1> HIDE DEF n
<1>3. s \in [1..n -> Matches] /\ IsInjective(s) /\ Range(s) = Matches
  BY <1>2 DEF Bijection, Injection, Surjection, IsInjective, Range
<1>4. s \in Seq(Txn) /\ Len(s) = n /\ DOMAIN s = 1..Len(s)
  <2>1. s \in [1..n -> Txn]
    BY <1>1, <1>3
  <2>2. QED
    BY <1>1, <2>1
<1>5. QED
  BY <1>2, <1>3, <1>4 DEF n

\* So they are after a step.
LEMMA MatchesFactsNext ==
  BooksInv' => (Matches \subseteq Txn /\ IsFiniteSet(Matches) /\ Cardinality(Matches) \in Nat)'
BY MatchesFacts, PTL

\* What is in front of the list is no longer than it, and shorter as long as
\* there is more to show.
LEMMA InFrontCounted ==
  ASSUME BooksInv, NEW p \in Seq(Txn), InFront(p)
  PROVE  /\ Len(p) <= Cardinality(Matches)
         /\ Len(p) = Cardinality(Matches) <=> Range(p) = Matches
<1>1. IsFiniteSet(Matches)
  BY MatchesFacts
<1>2. p \in Injection(1..Len(p), Matches)
  <2>1. \A i \in 1..Len(p) : p[i] \in Matches
    BY DEF InFront, Range
  <2>2. QED
    BY <2>1 DEF InFront, Injection, IsInjective
<1>3. Cardinality(1..Len(p)) = Len(p)
  <2>1. 1 \in Int /\ Len(p) \in Int /\ Len(p) \in Nat
    OBVIOUS
  <2>2. Cardinality(1..Len(p)) = IF 1 > Len(p) THEN 0 ELSE Len(p) - 1 + 1
    BY <2>1, FS_Interval
  <2>3. QED
    BY <2>1, <2>2
<1>4. /\ Cardinality(1..Len(p)) <= Cardinality(Matches)
      /\ Cardinality(1..Len(p)) = Cardinality(Matches) <=> p \in Surjection(1..Len(p), Matches)
  BY <1>1, <1>2, FS_Injection
<1>5. p \in Surjection(1..Len(p), Matches) <=> Range(p) = Matches
  <2>1. p \in [1..Len(p) -> Matches] /\ DOMAIN p = 1..Len(p)
    BY <1>2 DEF Injection
  <2>2. ASSUME p \in Surjection(1..Len(p), Matches) PROVE Range(p) = Matches
    BY <2>2, Fun_SurjectionProperties
  <2>3. ASSUME Range(p) = Matches PROVE p \in Surjection(1..Len(p), Matches)
    <3>1. \A t \in Matches : \E i \in 1..Len(p) : p[i] = t
      BY <2>1, <2>3 DEF Range
    <3>2. QED
      BY <2>1, <3>1, Fun_IsSurj
  <2>4. QED
    BY <2>2, <2>3
<1>6. QED
  BY <1>3, <1>4, <1>5

\* Without equal times a listing is in one order.
LEMMA ListingStrict ==
  ASSUME BooksInv, postedAt \in [Txn -> Nat], NoTies,
         NEW s \in Listings,
         NEW i \in DOMAIN s, NEW j \in DOMAIN s, i < j
  PROVE  Before(s[i], s[j])
<1>1. /\ s \in Seq(Txn) /\ IsInjective(s) /\ Range(s) = Matches /\ DOMAIN s = 1..Len(s)
  BY ListingFacts
<1>2. s[i] \in Matches /\ s[j] \in Matches /\ s[i] # s[j]
  BY <1>1 DEF Range, IsInjective
<1>3. postedAt[s[i]] # postedAt[s[j]]
  BY <1>2 DEF NoTies
<1>4. postedAt[s[i]] \in Nat /\ postedAt[s[j]] \in Nat
  BY <1>2, MatchesFacts
<1>5. NotAfter(s[i], s[j])
  BY ListingFacts DEF Ordered
<1>6. QED
  BY <1>3, <1>4, <1>5 DEF NotAfter, Before, Older, Newer, Ascending

\* A first part of a listing is in front.
LEMMA FirstPartInFront ==
  ASSUME BooksInv, postedAt \in [Txn -> Nat], NoTies,
         NEW s \in Listings,
         NEW q \in Seq(Txn), Len(q) <= Len(s), \A i \in 1..Len(q) : q[i] = s[i]
  PROVE  InFront(q)
<1>1. /\ s \in Seq(Txn) /\ IsInjective(s) /\ Range(s) = Matches /\ DOMAIN s = 1..Len(s)
  BY ListingFacts
<1>2. DOMAIN q = 1..Len(q) /\ Len(q) \in Nat /\ Len(s) \in Nat
  BY <1>1
<1>3. \A i \in DOMAIN q : i \in DOMAIN s /\ q[i] = s[i]
  BY <1>1, <1>2
<1>4. IsInjective(q) /\ Range(q) \subseteq Matches
  BY <1>1, <1>3 DEF IsInjective, Range
<1>5. \A i, j \in DOMAIN q : i < j => Before(q[i], q[j])
  BY <1>3, ListingStrict
<1>6. ASSUME NEW t \in Matches \ Range(q), NEW i \in DOMAIN q PROVE Before(q[i], t)
  <2>1. PICK k \in DOMAIN s : s[k] = t
    BY <1>1 DEF Range
  <2>2. k \notin DOMAIN q
    BY <1>3, <1>6, <2>1 DEF Range
  <2>3. i < k
    BY <1>1, <1>2, <2>1, <2>2
  <2>4. QED
    BY <1>3, <2>1, <2>3, ListingStrict
<1>7. QED
  BY <1>4, <1>5, <1>6 DEF InFront

\* What is in front is the first part of every listing: in the first place where
\* they differed, each would have an element that has to come before that of the
\* other.
LEMMA InFrontIsFirstPart ==
  ASSUME BooksInv, postedAt \in [Txn -> Nat], NoTies,
         NEW s \in Listings,
         NEW p \in Seq(Txn), InFront(p)
  PROVE  Len(p) <= Len(s) /\ \A i \in 1..Len(p) : p[i] = s[i]
<1>1. /\ s \in Seq(Txn) /\ Len(s) = Cardinality(Matches)
      /\ IsInjective(s) /\ Range(s) = Matches /\ DOMAIN s = 1..Len(s)
  BY ListingFacts
<1>2. Len(p) <= Len(s) /\ Len(p) \in Nat /\ DOMAIN p = 1..Len(p)
  BY <1>1, InFrontCounted
<1> DEFINE Bad == {i \in 1..Len(p) : p[i] # s[i]}
<1>3. SUFFICES ASSUME Bad # {} PROVE FALSE
  BY <1>2
<1>4. PICK i \in Bad : \A b \in Bad : <<b, i>> \notin OpToRel(<, Nat)
  <2>1. Bad \subseteq Nat
    BY <1>2
  <2>2. QED
    BY <1>3, <2>1, NatLessThanWellFounded, WFMin, Zenon
<1>5. i \in DOMAIN p /\ i \in DOMAIN s /\ p[i] # s[i] /\ i \in Nat
  BY <1>1, <1>2
<1>6. ASSUME NEW k \in 1..Len(p), k < i PROVE p[k] = s[k]
  <2>1. <<k, i>> \in OpToRel(<, Nat)
    BY <1>2, <1>5, <1>6 DEF OpToRel
  <2>2. QED
    BY <1>4, <1>6, <2>1
<1> HIDE DEF Bad
<1>7. PICK k \in DOMAIN s : s[k] = p[i]
  BY <1>1, <1>5 DEF InFront, Range
<1>8. i < k
  <2>1. ASSUME k < i PROVE FALSE
    <3>1. k \in DOMAIN p /\ p[k] = p[i]
      BY <1>1, <1>2, <1>5, <1>6, <1>7, <2>1
    <3>2. QED
      BY <1>2, <1>5, <2>1, <3>1 DEF InFront, IsInjective
  <2>2. k # i
    BY <1>5, <1>7
  <2>3. QED
    BY <1>1, <1>5, <1>7, <2>1, <2>2
<1>9. Before(s[i], p[i])
  BY <1>5, <1>7, <1>8, ListingStrict
<1>10. Before(p[i], s[i])
  <2>1. s[i] \in Matches
    BY <1>1, <1>5 DEF Range
  <2>2. ASSUME NEW m \in DOMAIN p, p[m] = s[i] PROVE i < m
    <3>1. ASSUME m < i PROVE FALSE
      <4>1. m \in DOMAIN s /\ s[m] = s[i]
        BY <1>1, <1>2, <1>6, <2>2, <3>1
      <4>2. QED
        BY <1>1, <1>2, <1>5, <3>1, <4>1 DEF IsInjective
    <3>2. m # i
      BY <1>5, <2>2
    <3>3. QED
      BY <1>2, <1>5, <3>1, <3>2
  <2>3. CASE s[i] \in Range(p)
    <3>1. PICK m \in DOMAIN p : p[m] = s[i]
      BY <2>3 DEF Range
    <3>2. i < m
      BY <2>2, <3>1
    <3>3. QED
      BY <1>5, <3>1, <3>2 DEF InFront
  <2>4. CASE s[i] \notin Range(p)
    BY <1>5, <2>1, <2>4 DEF InFront
  <2>5. QED
    BY <2>3, <2>4
<1>11. postedAt[s[i]] \in Nat /\ postedAt[p[i]] \in Nat
  BY <1>1, <1>5
<1>12. QED
  BY <1>9, <1>10, <1>11 DEF Before, Older, Newer

\* LIMIT and OFFSET cut a piece of the listing, empty only where it is over.
LEMMA WindowFacts ==
  ASSUME list \in Walk, list.query \in Lists, NEW s \in Seq(Txn)
  PROVE  /\ Window(s) \in Seq(Txn) /\ Offset \in Nat
         /\ \A i \in 1..Len(Window(s)) : Offset + i \in 1..Len(s) /\ Window(s)[i] = s[Offset + i]
         /\ Window(s) = <<>> => Len(s) <= Offset
         /\ Offset <= Len(s) => Offset + Len(Window(s)) <= Len(s)
<1>1. Offset \in Nat
  BY DEF Walk, Offset
<1>2. Limit \in Nat \ {0}
  BY LimitsAssumption DEF Limit
<1> DEFINE e == IF Offset + Limit < Len(s) THEN Offset + Limit ELSE Len(s)
           w == Window(s)
<1>3. Len(s) \in Nat /\ e \in Nat /\ e <= Len(s)
  BY <1>1, <1>2
<1>4. w = SubSeq(s, Offset + 1, e)
  BY DEF Window
<1>5. e <= Offset => Len(s) <= Offset
  BY <1>1, <1>2, <1>3
<1> HIDE DEF e, w
<1>6. \A i \in (Offset + 1)..e : s[i] \in Txn
  BY <1>1, <1>3
<1>7. Offset + 1 \in Int /\ e \in Int
  BY <1>1, <1>3
<1>8. /\ w \in Seq(Txn)
      /\ Len(w) = IF Offset + 1 <= e THEN e - (Offset + 1) + 1 ELSE 0
      /\ \A i \in 1..(e - (Offset + 1) + 1) : w[i] = s[(Offset + 1) + i - 1]
  BY <1>4, <1>6, <1>7, SubSeqProperties
<1>9. \A i \in 1..Len(w) : Offset + i \in 1..Len(s) /\ w[i] = s[Offset + i]
  <2> SUFFICES ASSUME NEW i \in 1..Len(w)
               PROVE  Offset + i \in 1..Len(s) /\ w[i] = s[Offset + i]
    OBVIOUS
  <2>1. i \in 1..(e - (Offset + 1) + 1)
    BY <1>1, <1>3, <1>8
  <2>2. (Offset + 1) + i - 1 = Offset + i /\ Offset + i \in 1..Len(s)
    BY <1>1, <1>3, <2>1
  <2>3. QED
    BY <1>8, <2>1, <2>2
<1>10. w = <<>> => Len(s) <= Offset
  <2>1. w = <<>> => Len(w) = 0
    OBVIOUS
  <2>2. QED
    BY <1>1, <1>3, <1>5, <1>8, <2>1
<1>11. Offset <= Len(s) => Offset + Len(w) <= Len(s)
  BY <1>1, <1>3, <1>8
<1>12. QED
  BY <1>1, <1>8, <1>9, <1>10, <1>11 DEF w

-----------------------------------------------------------------------------
(* The steps of a walk. *)

\* As long as the ledger stands still, the matches of a query do.
LEMMA SameMatches ==
  ASSUME UNCHANGED datedVars, list'.query = list.query
  PROVE  /\ Matches' = Matches /\ (NoTies' <=> NoTies)
         /\ \A s : InFront(s)' <=> InFront(s)
<1>1. Matches' = Matches
  BY DEF Matches, Entered, Exists, datedVars
<1>2. NoTies' <=> NoTies
  BY <1>1 DEF NoTies, datedVars
<1>3. \A t, u : Before(t, u)' <=> Before(t, u)
  BY DEF Before, Ascending, Older, Newer, datedVars
<1>4. QED
  BY <1>1, <1>2, <1>3 DEF InFront

\* The books keep their invariant while the walk steps.
LEMMA BooksUnderWalk ==
  ASSUME ListInv, UNCHANGED datedVars
  PROVE  BooksInv' /\ postedAt' \in [Txn -> Nat] /\ clock' \in Nat
<1>1. BooksInv /\ UNCHANGED vars
  BY DEF ListInv, datedVars, vars
<1>2. QED
  BY <1>1, BooksInvStep DEF ListInv, datedVars

\* A call begins with nothing shown.
LEMMA StartListSound ==
  ASSUME ListInv, UNCHANGED datedVars, NEW q \in Lists, StartList(q)
  PROVE  ListInv'
<1>1. /\ list' = [part |-> "count", query |-> q, total |-> 0, page |-> <<>>,
                  fetched |-> <<>>, shown |-> <<>>, quiet |-> TRUE, late |-> FALSE]
  BY DEF StartList, NoList
<1>2. <<>> \in Seq(Txn) /\ <<>> \in Seq(Seq(Entry)) /\ DOMAIN <<>> = {} /\ 0 \in Nat
  OBVIOUS
<1>3. list' \in Walk
  BY <1>1, <1>2 DEF Walk, Statements
<1>4. PageInv'
  BY <1>1, <1>2 DEF PageInv, ListAnswered, Paged
<1>5. Seen' = <<>>
  BY <1>1, <1>2, ConcatEmptySeq DEF Seen
<1>6. InFront(<<>>)'
  BY <1>2 DEF InFront, IsInjective, Range
<1>7. WalkInv'
  BY <1>1, <1>5, <1>6 DEF WalkInv, Counted, Paged
<1>8. QED
  BY <1>3, <1>4, <1>7, BooksUnderWalk DEF ListInv

\* The total is that of the matches it counted.
LEMMA CountMatchesSound ==
  ASSUME ListInv, UNCHANGED datedVars, CountMatches
  PROVE  ListInv'
<1>1. /\ list.part = "count" /\ list \in Walk
      /\ list' = [list EXCEPT !.part = "page", !.total = Cardinality(Matches)]
  BY DEF CountMatches, ListInv
<1>2. Cardinality(Matches) \in Nat
  BY MatchesFacts DEF ListInv
<1>3. /\ list'.part = "page" /\ list'.total = Cardinality(Matches) /\ list' \in Walk
      /\ list'.query = list.query /\ list'.page = list.page /\ list'.shown = list.shown
      /\ list'.quiet = list.quiet /\ list'.late = list.late
  BY <1>1, <1>2 DEF Walk, Statements
<1>4. PageInv'
  BY <1>1, <1>3 DEF ListInv, PageInv, ListAnswered, Paged, Exists, datedVars
<1>5. Matches' = Matches /\ (NoTies' <=> NoTies) /\ (InFront(Seen)' <=> InFront(Seen))
  <2>1. Seen' = Seen
    BY <1>3 DEF Seen
  <2>2. \A s : InFront(s)' <=> InFront(s)
    BY <1>3, SameMatches
  <2>3. QED
    BY <1>3, <2>1, <2>2, SameMatches
<1>6. WalkInv'
  BY <1>1, <1>2, <1>3, <1>5 DEF ListInv, WalkInv, Counted, Paged, Undisturbed, Ascending
<1>7. QED
  BY <1>3, <1>4, <1>6, BooksUnderWalk DEF ListInv

\* The next page continues what is shown.
LEMMA SelectPageSound ==
  ASSUME ListInv, UNCHANGED datedVars, SelectPage
  PROVE  ListInv'
<1>1. PICK s \in Listings :
        list' = [list EXCEPT !.part = IF Window(s) = <<>> THEN "answered" ELSE "entries",
                             !.page = Window(s), !.fetched = <<>>]
  BY DEF SelectPage
<1>2. /\ list.part = "page" /\ list \in Walk /\ list.query \in Lists /\ WalkInv
      /\ BooksInv /\ postedAt \in [Txn -> Nat] /\ PageInv
  BY DEF SelectPage, ListInv, WalkInv
<1>3. /\ s \in Seq(Txn) /\ Len(s) = Cardinality(Matches) /\ DOMAIN s = 1..Len(s)
      /\ Range(s) = Matches
  BY <1>2, ListingFacts
<1>4. PICK w \in Seq(Txn) :
      /\ w = Window(s) /\ Offset \in Nat
      /\ \A i \in 1..Len(w) : Offset + i \in 1..Len(s) /\ w[i] = s[Offset + i]
      /\ w = <<>> => Len(s) <= Offset
      /\ Offset <= Len(s) => Offset + Len(w) <= Len(s)
  BY <1>2, <1>3, WindowFacts
<1>5. /\ list'.part = IF w = <<>> THEN "answered" ELSE "entries"
      /\ list'.page = w /\ list' \in Walk
      /\ list'.query = list.query /\ list'.total = list.total /\ list'.shown = list.shown
      /\ list'.quiet = list.quiet /\ list'.late = list.late
  <2>1. (IF w = <<>> THEN "answered" ELSE "entries") \in Statements
    BY DEF Statements
  <2>2. list' = [list EXCEPT !.part = IF w = <<>> THEN "answered" ELSE "entries",
                             !.page = w, !.fetched = <<>>]
    BY <1>1, <1>4
  <2>3. <<>> \in Seq(Seq(Entry))
    OBVIOUS
  <2>4. QED
    BY <1>2, <2>1, <2>2, <2>3 DEF Walk
<1>6. PICK q \in Seq(Txn) : q = list.shown \o w /\ Seen' = q
  BY <1>2, <1>5, ConcatProperties DEF Seen, Walk
<1>7. \A i \in 1..Len(w) : Exists(w[i])
  BY <1>3, <1>4 DEF Matches, Range
<1>8. PageInv'
  <2>1. w = <<>> => DOMAIN w = {}
    OBVIOUS
  <2>2. DOMAIN w = 1..Len(w)
    BY <1>4
  <2>3. \A i \in DOMAIN w : Exists(w[i])'
    BY <1>7, <2>2 DEF Exists, datedVars
  <2>4. QED
    BY <1>5, <2>1, <2>3 DEF PageInv, ListAnswered, Paged
<1>9. Matches' = Matches /\ (NoTies' <=> NoTies) /\ \A p : InFront(p)' <=> InFront(p)
  BY <1>5, SameMatches
<1>10. Seen = list.shown
  BY <1>2, ConcatEmptySeq DEF Seen, PageInv, Walk, Paged
<1>11. ASSUME NoTies, InFront(list.shown) PROVE InFront(q)
  <2> DEFINE p == list.shown
  <2>1. p \in Seq(Txn) /\ Len(p) = Offset /\ q = p \o w
    BY <1>2, <1>6 DEF Walk, Offset
  <2>2. Len(p) <= Len(s) /\ \A i \in 1..Len(p) : p[i] = s[i]
    BY <1>2, <1>11, <2>1, InFrontIsFirstPart
  <2> HIDE DEF p
  <2>3. /\ Len(q) = Len(p) + Len(w)
        /\ \A i \in 1..Len(p) + Len(w) : q[i] = IF i <= Len(p) THEN p[i] ELSE w[i - Len(p)]
    BY <1>4, <2>1, ConcatProperties
  <2>4. Len(q) <= Len(s)
    BY <1>4, <2>1, <2>2, <2>3
  <2>5. ASSUME NEW i \in 1..Len(q) PROVE q[i] = s[i]
    <3>1. CASE i <= Len(p)
      BY <2>1, <2>2, <2>3, <2>5, <3>1
    <3>2. CASE ~(i <= Len(p))
      <4>1. i - Len(p) \in 1..Len(w) /\ Offset + (i - Len(p)) = i
        BY <1>4, <2>1, <2>3, <2>5, <3>2
      <4>2. QED
        BY <1>4, <2>3, <2>5, <3>2, <4>1
    <3>3. QED
      BY <3>1, <3>2
  <2>6. QED
    BY <1>2, <1>11, <2>4, <2>5, FirstPartInFront
<1>12. Undisturbed' /\ NoTies' => InFront(Seen)'
  <2>1. Undisturbed' <=> Undisturbed
    BY <1>5 DEF Undisturbed, Ascending
  <2>2. Undisturbed /\ NoTies => InFront(list.shown)
    BY <1>2, <1>10 DEF WalkInv
  <2>3. InFront(Seen)' <=> InFront(q)'
    BY <1>6
  <2>4. QED
    BY <1>9, <1>11, <2>1, <2>2, <2>3
<1>13. WalkInv'
  BY <1>2, <1>3, <1>4, <1>5, <1>9, <1>12 DEF WalkInv, Counted, Paged, Offset
<1>14. QED
  BY <1>5, <1>8, <1>13, BooksUnderWalk DEF ListInv

\* The entries of a page are those of its transactions.
LEMMA FetchEntriesSound ==
  ASSUME ListInv, UNCHANGED datedVars, FetchEntries
  PROVE  ListInv'
<1> DEFINE f == [i \in DOMAIN list.page |-> entries[list.page[i]]]
<1>1. /\ list.part = "entries" /\ list \in Walk /\ PageInv /\ WalkInv
      /\ list' = [list EXCEPT !.part = "answered", !.fetched = f]
  BY DEF FetchEntries, ListInv, EntriesOf
<1>2. f \in Seq(Seq(Entry)) /\ \A i \in DOMAIN list.page : f[i] = entries[list.page[i]]
  <2>1. list.page \in Seq(Txn) /\ entries \in [Txn -> Seq(Entry)]
    BY <1>1 DEF Walk, ListInv, BooksInv, TypeOK
  <2>2. DOMAIN list.page = 1..Len(list.page) /\ Len(list.page) \in Nat
    BY <2>1
  <2>3. \A i \in DOMAIN list.page : entries[list.page[i]] \in Seq(Entry)
    BY <2>1, <2>2
  <2>4. f \in [1..Len(list.page) -> Seq(Entry)]
    BY <2>2, <2>3
  <2>5. QED
    BY <2>2, <2>4
<1> HIDE DEF f
<1>3. /\ list'.part = "answered" /\ list'.fetched = f /\ list' \in Walk
      /\ list'.query = list.query /\ list'.page = list.page /\ list'.shown = list.shown
      /\ list'.total = list.total /\ list'.quiet = list.quiet /\ list'.late = list.late
  BY <1>1, <1>2 DEF Walk, Statements
<1>4. PageInv'
  BY <1>1, <1>2, <1>3 DEF PageInv, ListAnswered, Paged, Exists, datedVars
<1>5. Matches' = Matches /\ (NoTies' <=> NoTies) /\ (InFront(Seen)' <=> InFront(Seen))
  <2>1. Seen' = Seen
    BY <1>3 DEF Seen
  <2>2. \A s : InFront(s)' <=> InFront(s)
    BY <1>3, SameMatches
  <2>3. QED
    BY <1>3, <2>1, <2>2, SameMatches
<1>6. WalkInv'
  BY <1>1, <1>3, <1>5 DEF WalkInv, Counted, Paged, Undisturbed, Ascending
<1>7. QED
  BY <1>3, <1>4, <1>6, BooksUnderWalk DEF ListInv

\* What has been answered counts as shown.
LEMMA NextPageSound ==
  ASSUME ListInv, UNCHANGED datedVars, NextPage
  PROVE  ListInv'
<1>1. /\ list.part = "answered" /\ list \in Walk /\ WalkInv
      /\ list' = [list EXCEPT !.part = "count", !.shown = Seen, !.page = <<>>,
                              !.fetched = <<>>, !.total = 0]
  BY DEF NextPage, ListInv, Seen, Walk
<1>2. /\ <<>> \in Seq(Txn) /\ <<>> \in Seq(Seq(Entry)) /\ DOMAIN <<>> = {} /\ 0 \in Nat
      /\ Seen \in Seq(Txn)
  BY <1>1, ConcatProperties DEF Seen, Walk
<1>3. /\ list'.part = "count" /\ list'.page = <<>> /\ list'.shown = Seen /\ list' \in Walk
      /\ list'.query = list.query /\ list'.quiet = list.quiet /\ list'.late = list.late
  BY <1>1, <1>2 DEF Walk, Statements
<1>4. PageInv'
  BY <1>2, <1>3 DEF PageInv, ListAnswered, Paged
<1>5. NoTies' <=> NoTies
  BY <1>3, SameMatches
<1>6. Seen' = Seen
  <2>1. Seen' = Seen \o <<>>
    BY <1>3 DEF Seen
  <2>2. QED
    BY <1>2, <2>1, ConcatEmptySeq
<1>7. InFront(Seen)' <=> InFront(Seen)
  <2>1. \A s : InFront(s)' <=> InFront(s)
    BY <1>3, SameMatches
  <2>2. QED
    BY <1>6, <2>1
<1>8. WalkInv'
  BY <1>1, <1>3, <1>5, <1>7 DEF WalkInv, Counted, Paged, Undisturbed, Ascending
<1>9. QED
  BY <1>3, <1>4, <1>8, BooksUnderWalk DEF ListInv

\* No walk is under way.
LEMMA NoWalkSound ==
  BooksInv /\ postedAt \in [Txn -> Nat] /\ clock \in Nat /\ list = NoList => ListInv
<1> SUFFICES ASSUME BooksInv, postedAt \in [Txn -> Nat], clock \in Nat, list = NoList
             PROVE  ListInv
  OBVIOUS
<1>1. <<>> \in Seq(Txn) /\ <<>> \in Seq(Seq(Entry)) /\ DOMAIN <<>> = {} /\ 0 \in Nat
  OBVIOUS
<1>2. list \in Walk
  BY <1>1 DEF NoList, Walk, Statements
<1>3. PageInv /\ WalkInv
  BY <1>1 DEF NoList, PageInv, WalkInv, ListAnswered
<1>4. QED
  BY <1>2, <1>3 DEF ListInv

LEMMA NoWalkSoundNext ==
  (BooksInv /\ postedAt \in [Txn -> Nat] /\ clock \in Nat /\ list = NoList)' => ListInv'
BY NoWalkSound, PTL

\* Time passes.
LEMMA TickSound ==
  ASSUME ListInv, Tick, UNCHANGED list
  PROVE  ListInv'
<1>1. UNCHANGED <<ledger, entries, postedAt>> /\ BooksInv'
  BY BooksInvStep DEF Tick, ListInv, vars
<1>2. postedAt' \in [Txn -> Nat] /\ clock' \in Nat
  BY TimesStep DEF ListInv
<1>3. PageInv'
  BY <1>1 DEF ListInv, PageInv, ListAnswered, Exists
<1>4. Matches' = Matches
  BY <1>1 DEF Matches, Entered, Exists
<1>5. (NoTies' <=> NoTies) /\ (InFront(Seen)' <=> InFront(Seen))
  <2>1. NoTies' <=> NoTies
    BY <1>1, <1>4 DEF NoTies
  <2>2. Seen' = Seen
    BY DEF Seen
  <2>3. \A t, u : Before(t, u)' <=> Before(t, u)
    BY <1>1 DEF Before, Ascending, Older, Newer
  <2>4. QED
    BY <1>4, <2>1, <2>2, <2>3 DEF InFront
<1>6. WalkInv'
  BY <1>4, <1>5 DEF ListInv, WalkInv, Undisturbed, Ascending
<1>7. QED
  BY <1>1, <1>2, <1>3, <1>6 DEF ListInv

\* Without a filter on the state, an operation only adds to the matches, and
\* only transactions that were not there.
LEMMA MatchesGrow ==
  ASSUME ListInv, Operation, list'.query = list.query, list.query.state = Unset
  PROVE  /\ Matches \subseteq Matches'
         /\ \A t \in Matches : postedAt'[t] = postedAt[t]
         /\ \A t \in Matches' \ Matches : ~Exists(t) /\ ledger'[t].state # "absent"
<1>1. ASSUME NEW t \in Txn, Exists(t)
      PROVE  /\ Exists(t)' /\ entries'[t] = entries[t] /\ postedAt'[t] = postedAt[t]
  <2>1. TypeOK /\ LedgerTypeOK
    BY DEF ListInv, BooksInv, TypeOK
  <2>2. MovesOn(ledger[t].state, ledger'[t].state)
    BY <1>1, <2>1, OperationFacts
  <2>3. Exists(t)'
    BY <1>1, <2>2 DEF MovesOn, Exists, Posted
  <2>4. QED
    BY <1>1, <2>1, <2>3, OperationFacts, EntriesKept
<1>2. \A v : Fits(list.query.state, v)
  BY DEF Fits
<1>3. ASSUME NEW t \in Txn, Exists(t) PROVE t \in Matches' <=> t \in Matches
  BY <1>1, <1>2, <1>3 DEF Matches, Entered, Fits
<1>4. QED
  BY <1>1, <1>3 DEF Matches, Exists

\* An operation commits during a walk.
LEMMA OperationSound ==
  ASSUME ListInv, Operation, list.part # "none", Noticed
  PROVE  ListInv'
<1>1. PICK late \in BOOLEAN :
        /\ list' = [list EXCEPT !.quiet = FALSE, !.late = late]
        /\ ~late => /\ ~list.late
                    /\ \A t \in Txn, i \in DOMAIN Seen :
                         ~Exists(t) /\ ledger'[t].state # "absent" =>
                           ~(postedAt'[t] <= postedAt[Seen[i]])
  <2> DEFINE behind == \E t \in Txn, i \in DOMAIN Seen :
                         /\ ~Exists(t) /\ ledger'[t].state # "absent"
                         /\ postedAt'[t] <= postedAt[Seen[i]]
  <2>1. list' = [list EXCEPT !.quiet = FALSE, !.late = @ \/ behind] /\ list \in Walk
    BY DEF Noticed, ListInv
  <2>2. list.late \in BOOLEAN
    BY <2>1 DEF Walk
  <2>3. (list.late \/ behind) \in BOOLEAN
    OBVIOUS
  <2>4. list' = [list EXCEPT !.quiet = FALSE, !.late = list.late \/ behind]
    BY <2>1
  <2>5. QED
    BY <2>3, <2>4
<1>2. /\ list \in Walk /\ PageInv /\ WalkInv /\ BooksInv
      /\ postedAt \in [Txn -> Nat] /\ clock \in Nat
  BY DEF ListInv
<1>3. /\ list' \in Walk /\ list'.quiet = FALSE /\ list'.late = late
      /\ list'.part = list.part /\ list'.query = list.query /\ list'.total = list.total
      /\ list'.page = list.page /\ list'.fetched = list.fetched /\ list'.shown = list.shown
  BY <1>1, <1>2 DEF Walk
<1>4. BooksInv' /\ postedAt' \in [Txn -> Nat] /\ clock' \in Nat
  <2>1. [Next]_vars
    BY DEF Operation, Next, vars
  <2>2. QED
    BY <1>2, <2>1, BooksInvStep, TimesStep
<1>5. PageInv'
  <2>1. \A i \in DOMAIN list.page : list.page[i] \in Txn
    BY <1>2 DEF Walk
  <2>2. ASSUME NEW t \in Txn, Exists(t) PROVE Exists(t)' /\ entries'[t] = entries[t]
    <3>1. TypeOK /\ LedgerTypeOK
      BY <1>2 DEF BooksInv, TypeOK
    <3>2. MovesOn(ledger[t].state, ledger'[t].state)
      BY <3>1, OperationFacts
    <3>3. QED
      BY <2>2, <3>1, <3>2, EntriesKept DEF MovesOn, Exists, Posted
  <2>3. QED
    BY <1>2, <1>3, <2>1, <2>2 DEF PageInv, ListAnswered
<1>6. Seen' = Seen
  BY <1>3 DEF Seen
<1>7. IsFiniteSet(Matches') /\ Cardinality(Matches') \in Nat
  BY <1>4, MatchesFactsNext
<1>8. list.query.state = Unset => Cardinality(Matches) <= Cardinality(Matches')
  BY <1>3, <1>7, MatchesGrow, FS_Subset
<1>9. ASSUME Undisturbed', NoTies' PROVE InFront(Seen)'
  <2>1. ~late /\ Ascending /\ Ascending' /\ list.query.state = Unset
    BY <1>3, <1>9 DEF Undisturbed, Ascending
  <2>2. /\ Matches \subseteq Matches'
        /\ \A t \in Matches : postedAt'[t] = postedAt[t]
        /\ \A t \in Matches' \ Matches : ~Exists(t) /\ ledger'[t].state # "absent"
    BY <1>3, <2>1, MatchesGrow
  <2>3. NoTies
    BY <1>9, <2>2 DEF NoTies
  <2>4. InFront(Seen)
    BY <1>1, <1>2, <2>1, <2>3 DEF WalkInv, Undisturbed
  <2>5. /\ \A i \in DOMAIN Seen : Seen[i] \in Matches
        /\ \A t \in Matches' : t \in Txn /\ postedAt'[t] \in Nat
    BY <1>4, <2>4 DEF InFront, Range, Matches
  <2>6. ASSUME NEW i \in DOMAIN Seen, NEW j \in DOMAIN Seen, i < j
        PROVE  postedAt'[Seen[i]] < postedAt'[Seen[j]]
    BY <2>1, <2>2, <2>4, <2>5, <2>6 DEF InFront, Before, Older
  <2>7. ASSUME NEW t \in Matches' \ Range(Seen), NEW i \in DOMAIN Seen
        PROVE  postedAt'[Seen[i]] < postedAt'[t]
    <3>1. Seen[i] \in Matches /\ postedAt'[Seen[i]] = postedAt[Seen[i]]
      BY <2>2, <2>5
    <3>2. CASE t \in Matches
      BY <2>1, <2>2, <2>4, <2>7, <3>1, <3>2 DEF InFront, Before, Older
    <3>3. CASE t \notin Matches
      <4>1. ~(postedAt'[t] <= postedAt[Seen[i]])
        BY <1>1, <2>1, <2>2, <2>5, <2>7, <3>3
      <4>2. postedAt'[t] \in Nat /\ postedAt[Seen[i]] \in Nat
        BY <2>2, <2>5, <2>7, <3>1
      <4>3. QED
        BY <3>1, <4>1, <4>2
    <3>4. QED
      BY <3>2, <3>3
  <2>8. IsInjective(Seen) /\ Range(Seen) \subseteq Matches'
    BY <2>2, <2>4 DEF InFront
  <2>9. QED
    BY <1>6, <2>1, <2>6, <2>7, <2>8 DEF InFront, Before, Older
<1>10. WalkInv'
  <2>1. /\ list.query \in Lists
        /\ list.part \in Counted /\ list.query.state = Unset =>
             list.total <= Cardinality(Matches)
    BY <1>2 DEF WalkInv
  <2>2. list.total \in Nat /\ Cardinality(Matches) \in Nat
    BY <1>2, MatchesFacts DEF Walk
  <2>3. list.part \in Counted /\ list.query.state = Unset => list.total <= Cardinality(Matches')
    BY <1>7, <1>8, <2>1, <2>2
  <2>4. QED
    BY <1>3, <1>9, <2>1, <2>3 DEF WalkInv
<1>11. QED
  BY <1>3, <1>4, <1>5, <1>10 DEF ListInv

\* None is at the start.
LEMMA ListInvInit == ListInit => ListInv
<1> SUFFICES ASSUME ListInit PROVE ListInv
  OBVIOUS
<1>1. BooksInv
  BY BooksInvInit DEF ListInit, DatedInit
<1>2. QED
  BY <1>1, NoWalkSound DEF ListInit, DatedInit

\* Every step keeps the invariant.
LEMMA ListInvStep == ListInv /\ [ListNext]_listVars => ListInv'
<1> SUFFICES ASSUME ListInv, [ListNext]_listVars PROVE ListInv'
  OBVIOUS
<1>1. CASE Operation /\ Noticed
  <2>1. CASE list.part # "none"
    BY <1>1, <2>1, OperationSound
  <2>2. CASE list.part = "none"
    <3>1. BooksInv' /\ postedAt' \in [Txn -> Nat] /\ clock' \in Nat /\ UNCHANGED list
      <4>1. [Next]_vars
        BY <1>1 DEF Operation, Next, vars
      <4>2. QED
        BY <1>1, <2>2, <4>1, BooksInvStep, TimesStep DEF ListInv, Noticed
    <3>2. PageInv' /\ WalkInv'
      <4>1. list'.part = "none" /\ list'.page = <<>> /\ DOMAIN <<>> = {}
        BY <2>2, <3>1 DEF ListInv, PageInv, Paged
      <4>2. QED
        BY <4>1 DEF PageInv, WalkInv, ListAnswered
    <3>3. QED
      BY <3>1, <3>2 DEF ListInv
  <2>3. QED
    BY <2>1, <2>2
<1>2. CASE Tick /\ UNCHANGED list
  BY <1>2, TickSound
<1>3. CASE ListStep
  <2>1. UNCHANGED datedVars
    BY <1>3 DEF ListStep
  <2>2. ASSUME StopList PROVE ListInv'
    BY <2>1, <2>2, BooksUnderWalk, NoWalkSoundNext DEF StopList
  <2>3. QED
    BY <1>3, <2>1, <2>2, StartListSound, CountMatchesSound, SelectPageSound,
       FetchEntriesSound, NextPageSound DEF ListStep
<1>4. CASE UNCHANGED listVars
  <2>1. UNCHANGED datedVars /\ UNCHANGED list
    BY <1>4 DEF listVars, datedVars
  <2>2. BooksInv' /\ postedAt' \in [Txn -> Nat] /\ clock' \in Nat
    BY <2>1, BooksUnderWalk
  <2>3. PageInv'
    BY <2>1 DEF ListInv, PageInv, ListAnswered, Exists, datedVars
  <2>4. Matches' = Matches /\ (NoTies' <=> NoTies) /\ \A s : InFront(s)' <=> InFront(s)
    BY <2>1, SameMatches
  <2>5. Seen' = Seen
    BY <2>1 DEF Seen
  <2>6. WalkInv'
    BY <2>1, <2>4, <2>5 DEF ListInv, WalkInv, Undisturbed, Ascending
  <2>7. QED
    BY <2>1, <2>2, <2>3, <2>6 DEF ListInv
<1>5. QED
  BY <1>1, <1>2, <1>3, <1>4 DEF ListNext

-----------------------------------------------------------------------------
(* What a walk shows. *)

\* Whatever is settled, cancelled and posted between its statements, a page
\* comes with whole transactions: their debits and credits balance.
THEOREM ListsWhole == ListSpec => []ListedWhole
<1>1. ListInv => ListedWhole
  <2> SUFFICES ASSUME ListInv, ListAnswered, NEW i \in DOMAIN list.page
               PROVE  list.fetched[i] # <<>> /\ DoubleEntry(list.fetched[i])
    BY DEF ListedWhole
  <2>1. list.page[i] \in Txn /\ Exists(list.page[i])
    BY DEF ListInv, Walk, PageInv
  <2>2. list.fetched[i] = entries[list.page[i]]
    BY DEF ListInv, PageInv
  <2>3. QED
    BY <2>1, <2>2 DEF ListInv, BooksInv, TypeOK, Sound
<1>2. QED
  BY <1>1, ListInvInit, ListInvStep, PTL DEF ListSpec

\* How long what a walk has seen is.
LEMMA SeenCounted ==
  ASSUME ListInv
  PROVE  /\ Seen \in Seq(Txn) /\ Len(Seen) = Offset + Len(list.page)
         /\ Offset \in Nat /\ Len(list.page) \in Nat
<1>1. list.shown \in Seq(Txn) /\ list.page \in Seq(Txn)
  BY DEF ListInv, Walk
<1>2. QED
  BY <1>1, ConcatProperties DEF Seen, Offset

\* Without a filter on the state, has_more never promises a page that is not
\* there.
THEOREM ListsHaveMore == ListSpec => []MoreIsThere
<1>1. ListInv => MoreIsThere
  <2> SUFFICES ASSUME ListInv, ListAnswered, HasMore, list.query.state = Unset
               PROVE  Cardinality(Matches) > Len(Seen)
    BY DEF MoreIsThere
  <2>1. list.total <= Cardinality(Matches) /\ list.total \in Nat
    BY DEF ListInv, WalkInv, ListAnswered, Counted, Walk
  <2>2. Cardinality(Matches) \in Nat
    BY MatchesFacts DEF ListInv
  <2>3. QED
    BY <2>1, <2>2, SeenCounted DEF HasMore
<1>2. QED
  BY <1>1, ListInvInit, ListInvStep, PTL DEF ListSpec

\* What is in front is the first of the list, in its order.
LEMMA InFrontIsFirst ==
  ASSUME InFront(Seen)
  PROVE  IF list.query.order = "timestamp_asc" THEN FirstOf(Seen, Older) ELSE FirstOf(Seen, Newer)
BY DEF InFront, FirstOf, Before, Ascending

\* While nothing is committed, the pages are the list, cut.
THEOREM QuietWalksWhole == ListSpec => []QuietWalk
<1>1. ListInv => QuietWalk
  <2> SUFFICES ASSUME ListInv, ListAnswered, NoTies, list.quiet PROVE QuietWalk
    BY DEF QuietWalk
  <2>1. InFront(Seen) /\ list.total = Cardinality(Matches)
    BY DEF ListInv, WalkInv, ListAnswered, Undisturbed, Counted
  <2>2. IF list.query.order = "timestamp_asc" THEN FirstOf(Seen, Older) ELSE FirstOf(Seen, Newer)
    BY <2>1, InFrontIsFirst
  <2>3. Cardinality(Matches) \in Nat
    BY MatchesFacts DEF ListInv
  <2>4. HasMore <=> Range(Seen) # Matches
    <3>1. /\ Len(Seen) <= Cardinality(Matches)
          /\ Len(Seen) = Cardinality(Matches) <=> Range(Seen) = Matches
      BY <2>1, SeenCounted, InFrontCounted DEF ListInv
    <3>2. QED
      BY <2>1, <2>3, <3>1, SeenCounted DEF HasMore
  <2>5. HasMore => list.page # <<>>
    <3>1. list.page = <<>> => Cardinality(Matches) <= Offset
      BY DEF ListInv, WalkInv, ListAnswered, Paged, Offset
    <3>2. QED
      BY <2>1, <2>3, <3>1, SeenCounted DEF HasMore
  <2>6. QED
    BY <2>2, <2>4, <2>5 DEF QuietWalk
<1>2. QED
  BY <1>1, ListInvInit, ListInvStep, PTL DEF ListSpec

\* A walk oldest first is disturbed by nothing that is posted behind it.
THEOREM AscendingWalksWhole == ListSpec => []AscendingWalk
<1>1. ListInv => AscendingWalk
  <2> SUFFICES ASSUME ListInv, ListAnswered, NoTies, ~list.late,
                      list.query.order = "timestamp_asc", list.query.state = Unset
               PROVE  FirstOf(Seen, Older)
    BY DEF AscendingWalk
  <2>1. InFront(Seen)
    BY DEF ListInv, WalkInv, ListAnswered, Undisturbed, Ascending
  <2>2. QED
    BY <2>1, InFrontIsFirst
<1>2. QED
  BY <1>1, ListInvInit, ListInvStep, PTL DEF ListSpec

-----------------------------------------------------------------------------
(* The books under those who read them. *)

\* With their times the operations are still those of the books, a query changes
\* nothing and a walk neither: all that is proved of the books holds beside them.
THEOREM QueriesUseBooks == BalanceSpec => Spec
<1>1. [BalanceNext]_balanceVars => [Next]_vars
  <2>1. Operation => Next
    BY DEF Operation, Next
  <2>2. Tick \/ ReadStep \/ UNCHANGED balanceVars => UNCHANGED vars
    BY DEF Tick, ReadStep, balanceVars, datedVars, vars
  <2>3. QED
    BY <2>1, <2>2 DEF BalanceNext, DatedNext
<1>2. BalanceInit => Init
  BY DEF BalanceInit, DatedInit
<1>3. QED
  BY <1>1, <1>2, PTL DEF BalanceSpec, Spec

\* The same of the client that walks through the pages of a list.
THEOREM WalksUseBooks == ListSpec => Spec
<1>1. [ListNext]_listVars => [Next]_vars
  <2>1. Operation => Next
    BY DEF Operation, Next
  <2>2. Tick \/ ListStep \/ UNCHANGED listVars => UNCHANGED vars
    BY DEF Tick, ListStep, listVars, datedVars, vars
  <2>3. QED
    BY <2>1, <2>2 DEF ListNext
<1>2. ListInit => Init
  BY DEF ListInit, DatedInit
<1>3. QED
  BY <1>1, <1>2, PTL DEF ListSpec, Spec

=============================================================================
