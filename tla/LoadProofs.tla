----------------------------- MODULE LoadProofs -----------------------------
(***************************************************************************)
(* Proofs about the accounts and the load generator, for any number of     *)
(* accounts, currencies, workers and batches: what is read of an account   *)
(* is whole, a walk newest first misses no account it began with, the      *)
(* summary of the generator counts every batch once, and the load does to  *)
(* the accounts and to the server only what their specifications allow.    *)
(***************************************************************************)
EXTENDS TrafficGen, SequenceTheorems, FunctionTheorems, FiniteSetTheorems, TLAPS

-----------------------------------------------------------------------------
(* The invariant of the accounts. *)

\* What the statements of a creation have inserted: the first of the currencies
\* it names, each of them another one.
FirstWanted(a) == {Wanted[a][i] : i \in 1..Cardinality(creation[a].inserted)}

\* The commit has happened, whether or not the creator was told.
Stored == {"created", "unsure"}

Creating == [pc : {"none", "begun", "inserting", "failed"} \union Stored, at : Nat,
             inserted : SUBSET Currencies]

\* An account is there, with all its currencies, once its creation has
\* committed, and there is nothing of it before that.
CreationInv ==
  /\ clock \in Nat /\ creation \in [Acct -> Creating]
  /\ \A a \in Acct : /\ IsFiniteSet(creation[a].inserted)
                     /\ creation[a].inserted = FirstWanted(a)
                     /\ Cardinality(creation[a].inserted) <= Len(Wanted[a])
  /\ accounts = {a \in Acct : creation[a].pc \in Stored} /\ IsFiniteSet(accounts)
  /\ \A a \in Acct, c \in Currencies :
       <<a, c>> \in currencies <=> a \in accounts /\ c \in WantedBy(a)

-----------------------------------------------------------------------------
(* The invariant of a walk through the accounts. *)

Listed == {"currencies", "answered"}

Walk == [part : {"none", "accounts"} \union Listed, query : Reads \union {AnyValue},
         page : Seq(Acct), fetched : Seq(SUBSET Currencies), shown : Seq(Acct),
         before : SUBSET Acct]

Later(a) == {b \in Matching : CreatedAt(b) > CreatedAt(a)}

\* A page is one of accounts that are there.
PageInv ==
  /\ walk.part \notin Listed => walk.page = <<>>
  /\ \A i \in DOMAIN walk.page : walk.page[i] \in accounts
  /\ walk.part = "answered" =>
       \A i \in DOMAIN walk.page : walk.fetched[i] = WantedBy(walk.page[i])

\* An account the walk began with and has not seen yet has at least as many
\* newer ones before it as the walk has gone through: it cannot have slipped in
\* front of the next page.  Accounts are only added, so it can only go back.
BeforeInv ==
  /\ walk.before \subseteq Matching
  /\ NoTies =>
       /\ \A a \in walk.before \ Seen :
            Cardinality(Later(a)) >= Len(walk.shown) + Len(walk.page)
       /\ walk.part \in Listed /\ Len(walk.page) # Limit => walk.before \subseteq Seen

AcctInv ==
  /\ CreationInv /\ walk \in Walk /\ PageInv
  /\ walk.part # "none" => walk.query \in Reads /\ BeforeInv

-----------------------------------------------------------------------------
(* The creation of accounts. *)

\* The currencies an account is created with.
LEMMA WantedFacts ==
  ASSUME NEW a \in Acct
  PROVE  /\ Wanted[a] \in Seq(STRING) /\ DOMAIN Wanted[a] = 1..Len(Wanted[a])
         /\ Len(Wanted[a]) \in Nat /\ WantedBy(a) \subseteq Currencies
         /\ WantedBy(a) = {Wanted[a][i] : i \in 1..Len(Wanted[a])}
<1>1. Wanted[a] \in Seq(STRING)
  BY AcctAssumption
<1>2. DOMAIN Wanted[a] = 1..Len(Wanted[a]) /\ Len(Wanted[a]) \in Nat
  BY <1>1
<1>3. QED
  BY <1>1, <1>2 DEF WantedBy, Currencies, Range

\* One creation gets on; only its commit shows anything of it.
LEMMA OneCreation ==
  ASSUME CreationInv, NEW a \in Acct, creation[a].pc \notin Stored,
         NEW c \in Creating, creation' = [creation EXCEPT ![a] = c], clock' \in Nat,
         IsFiniteSet(c.inserted), Cardinality(c.inserted) <= Len(Wanted[a]),
         c.inserted = {Wanted[a][i] : i \in 1..Cardinality(c.inserted)},
         \/ c.pc \notin Stored /\ UNCHANGED <<accounts, currencies>>
         \/ /\ c.pc \in Stored /\ c.inserted = WantedBy(a)
            /\ accounts' = accounts \union {a}
            /\ currencies' = currencies \union ({a} \X c.inserted)
  PROVE  CreationInv'
<1>1. /\ creation \in [Acct -> Creating] /\ accounts = {b \in Acct : creation[b].pc \in Stored}
      /\ IsFiniteSet(accounts)
  BY DEF CreationInv
<1>2. /\ creation' \in [Acct -> Creating] /\ creation'[a] = c
      /\ \A b \in Acct : b # a => creation'[b] = creation[b]
  BY <1>1
<1>3. \A b \in Acct : /\ IsFiniteSet(creation'[b].inserted)
                      /\ creation'[b].inserted = FirstWanted(b)'
                      /\ Cardinality(creation'[b].inserted) <= Len(Wanted[b])
  BY <1>2 DEF CreationInv, FirstWanted
<1>4. accounts' = {b \in Acct : creation'[b].pc \in Stored}
  BY <1>1, <1>2
<1>5. IsFiniteSet(accounts')
  <2>1. IsFiniteSet(accounts \union {a})
    BY <1>1, FS_AddElement
  <2>2. QED
    BY <1>1, <2>1
<1>6. ASSUME NEW b \in Acct, NEW d \in Currencies
      PROVE  <<b, d>> \in currencies' <=> b \in accounts' /\ d \in WantedBy(b)
  <2>1. <<b, d>> \in currencies <=> b \in accounts /\ d \in WantedBy(b)
    BY <1>6 DEF CreationInv
  <2>2. a \notin accounts
    BY <1>1
  <2>3. QED
    BY <2>1, <2>2
<1>7. QED
  BY <1>2, <1>3, <1>4, <1>5, <1>6 DEF CreationInv

\* What the walk relies on: accounts and currencies are only added, and the
\* time of an account that is there does not change.
Growing ==
  /\ accounts \subseteq accounts' /\ currencies \subseteq currencies'
  /\ \A a \in accounts : creation'[a].at = creation[a].at

\* Every step keeps the accounts whole.
LEMMA CreationStep ==
  ASSUME CreationInv, [AcctNext]_acctVars
  PROVE  CreationInv' /\ Growing
<1>1. /\ creation \in [Acct -> Creating] /\ accounts = {a \in Acct : creation[a].pc \in Stored}
      /\ clock \in Nat
  BY DEF CreationInv
<1>2. /\ IsFiniteSet({}) /\ Cardinality({}) = 0
      /\ \A a \in Acct : {} = {Wanted[a][i] : i \in 1..0}
  BY FS_EmptySet
<1>3. ASSUME NEW a \in Acct, BeginCreate(a) PROVE CreationInv' /\ Growing
  <2> DEFINE c == [creation[a] EXCEPT !.pc = "begun", !.at = clock]
  <2>1. c \in Creating /\ c.pc = "begun" /\ c.inserted = creation[a].inserted
    BY <1>1 DEF Creating
  <2>2. creation' = [creation EXCEPT ![a] = c] /\ UNCHANGED <<clock, accounts, currencies>>
    BY <1>1, <1>3 DEF BeginCreate, Creating
  <2> HIDE DEF c
  <2>3. CreationInv'
    <3>1. c.pc \notin Stored /\ creation[a].pc \notin Stored
      BY <1>3, <2>1 DEF BeginCreate, Stored
    <3>2. /\ IsFiniteSet(c.inserted) /\ Cardinality(c.inserted) <= Len(Wanted[a])
          /\ c.inserted = {Wanted[a][i] : i \in 1..Cardinality(c.inserted)}
          /\ clock' \in Nat
      BY <2>1, <2>2 DEF CreationInv, FirstWanted
    <3>3. c \in Creating /\ creation' = [creation EXCEPT ![a] = c]
          /\ UNCHANGED accounts /\ UNCHANGED currencies
      BY <2>1, <2>2
    <3>4. QED
      BY <3>1, <3>2, <3>3, OneCreation
  <2>4. QED
    BY <1>1, <1>3, <2>2, <2>3 DEF BeginCreate, Growing, Stored
<1>4. ASSUME NEW a \in Acct, InsertAccount(a) PROVE CreationInv' /\ Growing
  <2> DEFINE c == [creation[a] EXCEPT !.pc = "inserting"]
  <2>1. c \in Creating /\ c.pc = "inserting" /\ c.inserted = creation[a].inserted
        /\ c.at = creation[a].at
    BY <1>1 DEF Creating
  <2>2. creation' = [creation EXCEPT ![a] = c] /\ UNCHANGED <<clock, accounts, currencies>>
    BY <1>1, <1>4 DEF InsertAccount, AfterInsert, Creating
  <2> HIDE DEF c
  <2>3. CreationInv'
    BY <1>1, <1>4, <2>1, <2>2, OneCreation DEF InsertAccount, CreationInv, FirstWanted, Stored
  <2>4. QED
    BY <1>1, <2>1, <2>2, <2>3 DEF Growing
<1>5. ASSUME NEW a \in Acct, InsertCurrency(a) PROVE CreationInv' /\ Growing
  <2> DEFINE old  == creation[a].inserted
             n    == Cardinality(old)
             next == Wanted[a][n + 1]
  <2>1. /\ creation[a].pc = "inserting" /\ n < Len(Wanted[a])
        /\ creation' = IF next \in old
                       THEN [creation EXCEPT ![a].pc = "failed", ![a].inserted = {}]
                       ELSE [creation EXCEPT ![a].inserted = old \union {next}]
        /\ UNCHANGED <<clock, accounts, currencies>>
    BY <1>5 DEF InsertCurrency
  <2>2. IsFiniteSet(old) /\ old = {Wanted[a][i] : i \in 1..n} /\ n \in Nat
    BY FS_CardinalityType DEF CreationInv, FirstWanted
  <2>3. n + 1 \in 1..Len(Wanted[a]) /\ next \in Currencies
    <3>1. n + 1 \in 1..Len(Wanted[a])
      BY <2>1, <2>2, WantedFacts
    <3>2. QED
      BY <3>1, WantedFacts
  <2>4. CASE next \in old
    <3> DEFINE c == [creation[a] EXCEPT !.pc = "failed", !.inserted = {}]
    <3>1. c \in Creating /\ c.pc = "failed" /\ c.inserted = {} /\ c.at = creation[a].at
      BY <1>1 DEF Creating
    <3>2. creation' = [creation EXCEPT ![a] = c]
      BY <1>1, <2>1, <2>4 DEF Creating
    <3> HIDE DEF c
    <3>3. CreationInv'
      <4>1. /\ IsFiniteSet(c.inserted) /\ Cardinality(c.inserted) <= Len(Wanted[a])
            /\ c.inserted = {Wanted[a][i] : i \in 1..Cardinality(c.inserted)}
        BY <1>2, <3>1, WantedFacts
      <4>2. creation[a].pc \notin Stored /\ c.pc \notin Stored /\ clock' \in Nat
        BY <1>1, <2>1, <3>1 DEF Stored
      <4>3. QED
        BY <2>1, <3>1, <3>2, <4>1, <4>2, OneCreation
    <3>4. QED
      BY <1>1, <2>1, <3>1, <3>2, <3>3 DEF Growing
  <2>5. CASE next \notin old
    <3> DEFINE new == old \union {next}
               c   == [creation[a] EXCEPT !.inserted = new]
    <3>1. IsFiniteSet(new) /\ Cardinality(new) = n + 1
      BY <2>2, <2>5, FS_AddElement
    <3>2. new = {Wanted[a][i] : i \in 1..(n + 1)}
      <4>1. 1..(n + 1) = (1..n) \union {n + 1}
        BY <2>2
      <4>2. QED
        BY <2>2, <4>1
    <3>3. c \in Creating /\ c.pc = "inserting" /\ c.inserted = new /\ c.at = creation[a].at
      <4>1. new \in SUBSET Currencies
        BY <1>1, <2>3 DEF Creating
      <4>2. QED
        BY <1>1, <2>1, <4>1 DEF Creating
    <3>4. creation' = [creation EXCEPT ![a] = c]
      BY <1>1, <2>1, <2>5 DEF Creating
    <3>5. n + 1 <= Len(Wanted[a])
      BY <2>3
    <3> HIDE DEF c, new
    <3>6. CreationInv'
      <4>1. /\ IsFiniteSet(c.inserted) /\ Cardinality(c.inserted) <= Len(Wanted[a])
            /\ c.inserted = {Wanted[a][i] : i \in 1..Cardinality(c.inserted)}
        BY <3>1, <3>2, <3>3, <3>5
      <4>2. creation[a].pc \notin Stored /\ c.pc \notin Stored /\ clock' \in Nat
        BY <1>1, <2>1, <3>3 DEF Stored
      <4>3. QED
        BY <2>1, <3>3, <3>4, <4>1, <4>2, OneCreation
    <3>7. QED
      BY <1>1, <2>1, <3>3, <3>4, <3>6 DEF Growing
  <2>6. QED
    BY <2>4, <2>5
<1>6. ASSUME NEW a \in Acct, CommitCreate(a) PROVE CreationInv' /\ Growing
  <2> PICK pc \in Stored : creation' = [creation EXCEPT ![a].pc = pc]
    BY <1>6 DEF CommitCreate, Stored
  <2> DEFINE c == [creation[a] EXCEPT !.pc = pc]
  <2>1. c \in Creating /\ c.pc \in Stored /\ c.inserted = creation[a].inserted
        /\ c.at = creation[a].at
    BY <1>1 DEF Creating
  <2>2. /\ creation' = [creation EXCEPT ![a] = c] /\ UNCHANGED clock
        /\ accounts' = accounts \union {a}
        /\ currencies' = currencies \union ({a} \X c.inserted)
        /\ creation[a].pc \notin Stored /\ Cardinality(c.inserted) = Len(Wanted[a])
    BY <1>1, <1>6, <2>1 DEF CommitCreate, Creating, Stored
  <2>3. c.inserted = WantedBy(a)
    <3>1. c.inserted = {Wanted[a][i] : i \in 1..Len(Wanted[a])}
      BY <2>1, <2>2 DEF CreationInv, FirstWanted
    <3>2. QED
      BY <3>1, WantedFacts
  <2> HIDE DEF c
  <2>4. CreationInv'
    <3>1. /\ IsFiniteSet(c.inserted) /\ Cardinality(c.inserted) <= Len(Wanted[a])
          /\ c.inserted = {Wanted[a][i] : i \in 1..Cardinality(c.inserted)}
          /\ clock' \in Nat
      BY <2>1, <2>2 DEF CreationInv, FirstWanted
    <3>2. QED
      BY <2>1, <2>2, <2>3, <3>1, OneCreation
  <2>5. QED
    BY <1>1, <2>1, <2>2, <2>4 DEF Growing
<1>7. ASSUME NEW a \in Acct, RollBackCreate(a) PROVE CreationInv' /\ Growing
  <2> DEFINE c == [creation[a] EXCEPT !.pc = "failed", !.inserted = {}]
  <2>1. c \in Creating /\ c.pc = "failed" /\ c.inserted = {} /\ c.at = creation[a].at
    BY <1>1 DEF Creating
  <2>2. /\ creation' = [creation EXCEPT ![a] = c] /\ creation[a].pc \notin Stored
        /\ UNCHANGED <<clock, accounts, currencies>>
    BY <1>1, <1>7 DEF RollBackCreate, Creating, Stored
  <2> HIDE DEF c
  <2>3. CreationInv'
    <3>1. /\ IsFiniteSet(c.inserted) /\ Cardinality(c.inserted) <= Len(Wanted[a])
          /\ c.inserted = {Wanted[a][i] : i \in 1..Cardinality(c.inserted)}
      BY <1>2, <2>1, WantedFacts
    <3>2. c.pc \notin Stored /\ clock' \in Nat
      BY <1>1, <2>1, <2>2 DEF Stored
    <3>3. QED
      BY <2>1, <2>2, <3>1, <3>2, OneCreation
  <2>4. QED
    BY <1>1, <2>1, <2>2, <2>3 DEF Growing
<1>8. ASSUME UNCHANGED <<creation, accounts, currencies>>, clock' \in Nat
      PROVE  CreationInv' /\ Growing
  BY <1>8 DEF CreationInv, FirstWanted, Growing
<1>9. AcctTick => UNCHANGED <<creation, accounts, currencies>> /\ clock' \in Nat
  BY <1>1 DEF AcctTick
<1>10. \A a \in Acct : UpdateAccountMetadata(a) =>
         UNCHANGED <<creation, accounts, currencies>> /\ clock' \in Nat
  BY <1>1 DEF UpdateAccountMetadata
<1>11. Walking \/ UNCHANGED acctVars =>
         UNCHANGED <<creation, accounts, currencies>> /\ clock' \in Nat
  BY <1>1 DEF Walking, StartRead, SelectAccounts, FetchCurrencies, ReadOn, StopRead, acctVars
<1>12. QED
  BY <1>3, <1>4, <1>5, <1>6, <1>7, <1>8, <1>9, <1>10, <1>11 DEF AcctNext, Creation

-----------------------------------------------------------------------------
(* The walk beside the creations. *)

\* The matching accounts, and those of them that are newer than another, are
\* finitely many.
LEMMA MatchingFacts ==
  CreationInv =>
    /\ Matching \subseteq accounts /\ accounts \subseteq Acct /\ IsFiniteSet(Matching)
    /\ Cardinality(Matching) \in Nat
    /\ \A a : IsFiniteSet(Later(a)) /\ Cardinality(Later(a)) \in Nat
<1> SUFFICES ASSUME CreationInv
             PROVE  /\ Matching \subseteq accounts /\ accounts \subseteq Acct
                    /\ IsFiniteSet(Matching) /\ Cardinality(Matching) \in Nat
                    /\ \A a : IsFiniteSet(Later(a)) /\ Cardinality(Later(a)) \in Nat
  OBVIOUS
<1>1. Matching \subseteq accounts /\ accounts \subseteq Acct /\ IsFiniteSet(accounts)
  BY DEF Matching, CreationInv
<1>2. IsFiniteSet(Matching)
  BY <1>1, FS_Subset
<1>3. \A a : Later(a) \subseteq Matching
  BY DEF Later
<1>4. QED
  BY <1>1, <1>2, <1>3, FS_Subset, FS_CardinalityType

\* So they are after a step.
LEMMA MatchingFactsNext ==
  CreationInv' =>
    (/\ Matching \subseteq accounts /\ accounts \subseteq Acct /\ IsFiniteSet(Matching)
     /\ Cardinality(Matching) \in Nat
     /\ \A a : IsFiniteSet(Later(a)) /\ Cardinality(Later(a)) \in Nat)'
BY MatchingFacts, PTL

\* Accounts that come up meanwhile take nothing from a walk.
LEMMA GrowthSound ==
  ASSUME AcctInv, CreationInv', Growing, UNCHANGED walk
  PROVE  AcctInv'
<1>1. walk \in Walk /\ PageInv /\ CreationInv
  BY DEF AcctInv
<1>2. Matching \subseteq Matching'
  BY DEF Growing, Matching, Selected, Fits
<1>3. \A a \in accounts : CreatedAt(a)' = CreatedAt(a)
  BY DEF Growing, CreatedAt
<1>4. NoTies' => NoTies
  BY <1>3 DEF Growing, NoTies
<1>5. Seen' = Seen /\ Limit' = Limit
  BY DEF Seen, Limit
<1>6. ASSUME NEW a \in Matching
      PROVE  /\ Cardinality(Later(a)) \in Nat /\ Cardinality(Later(a)') \in Nat
             /\ Cardinality(Later(a)) <= Cardinality(Later(a)')
  <2>1. a \in accounts /\ \A b \in Matching : b \in accounts
    BY <1>1, MatchingFacts
  <2>2. Later(a) \subseteq Later(a)'
    BY <1>2, <1>3, <1>6, <2>1 DEF Later
  <2>3. IsFiniteSet(Later(a)')
    BY MatchingFactsNext
  <2>4. QED
    BY <1>1, <2>2, <2>3, FS_Subset, FS_CardinalityType, MatchingFacts
<1>7. PageInv'
  BY <1>1 DEF PageInv, Growing
<1>8. ASSUME BeforeInv PROVE BeforeInv'
  <2>1. Len(walk.shown) \in Nat /\ Len(walk.page) \in Nat
    BY <1>1 DEF Walk
  <2>2. walk.before \subseteq Matching
    BY <1>8 DEF BeforeInv
  <2>3. ASSUME NoTies', NEW a \in walk.before \ Seen
        PROVE  Cardinality(Later(a)') >= Len(walk.shown) + Len(walk.page)
    <3>1. Cardinality(Later(a)) >= Len(walk.shown) + Len(walk.page)
      BY <1>4, <1>8, <2>3 DEF BeforeInv
    <3>2. a \in Matching
      BY <2>2, <2>3
    <3>3. /\ Cardinality(Later(a)) \in Nat /\ Cardinality(Later(a)') \in Nat
          /\ Cardinality(Later(a)) <= Cardinality(Later(a)')
      BY <1>6, <3>2
    <3>4. PICK n \in Nat : n = Len(walk.shown) + Len(walk.page)
      <4>1. \A i, j \in Nat : i + j \in Nat
        OBVIOUS
      <4>2. Len(walk.shown) + Len(walk.page) \in Nat
        BY <2>1, <4>1
      <4>3. QED
        BY <4>2
    <3>5. \A i, j \in Nat : i >= n /\ i <= j => j >= n
      OBVIOUS
    <3>6. QED
      BY <3>1, <3>3, <3>4, <3>5
  <2>4. walk.before \subseteq Matching'
    BY <1>2, <2>2
  <2>5. NoTies' /\ walk.part \in Listed /\ Len(walk.page) # Limit => walk.before \subseteq Seen
    BY <1>4, <1>8 DEF BeforeInv
  <2>6. QED
    BY <1>5, <2>3, <2>4, <2>5 DEF BeforeInv
<1>9. QED
  BY <1>1, <1>7, <1>8 DEF AcctInv

\* While the accounts stand still, so does what a walk matches.
LEMMA SameMatching ==
  ASSUME UNCHANGED <<creation, accounts, currencies>>, walk'.query = walk.query
  PROVE  /\ Matching' = Matching /\ (NoTies' <=> NoTies) /\ Limit' = Limit
         /\ \A a : Later(a)' = Later(a)
<1>1. Matching' = Matching
  BY DEF Matching, Selected
<1>2. QED
  BY <1>1 DEF NoTies, CreatedAt, Limit, Later

\* A read begins with nothing shown.
LEMMA StartReadSound ==
  ASSUME CreationInv', NEW q \in Reads, StartRead(q)
  PROVE  AcctInv'
<1>1. /\ walk' = [part |-> "accounts", query |-> q, page |-> <<>>, fetched |-> <<>>,
                  shown |-> <<>>, before |-> {}]
  BY DEF StartRead, NoWalk
<1>2. <<>> \in Seq(Acct) /\ <<>> \in Seq(SUBSET Currencies) /\ DOMAIN <<>> = {}
  OBVIOUS
<1>3. walk' \in Walk /\ PageInv'
  BY <1>1, <1>2 DEF Walk, PageInv, Listed
<1>4. BeforeInv'
  BY <1>1 DEF BeforeInv, Listed
<1>5. QED
  BY <1>1, <1>3, <1>4 DEF AcctInv

\* A listing has the matching accounts, each of them once, and at every place
\* without equal times those that are newer are in front of it.
LEMMA ListingFacts ==
  ASSUME CreationInv, NEW s \in Listings
  PROVE  /\ s \in Seq(Acct) /\ Len(s) = Cardinality(Matching) /\ DOMAIN s = 1..Len(s)
         /\ Range(s) = Matching
         /\ NoTies => \A r \in DOMAIN s : Cardinality(Later(s[r])) = r - 1
<1> DEFINE n == Cardinality(Matching)
<1>1. n \in Nat /\ Matching \subseteq Acct /\ Matching \subseteq accounts
  BY MatchingFacts
<1>2. s \in Bijection(1..n, Matching) /\ \A i, j \in DOMAIN s : i < j => NotBefore(s[i], s[j])
  BY Zenon DEF Listings
<1> HIDE DEF n
<1>3. s \in [1..n -> Matching] /\ IsInjective(s) /\ Range(s) = Matching
  BY <1>2 DEF Bijection, Injection, Surjection, IsInjective, Range
<1>4. s \in Seq(Acct) /\ Len(s) = n /\ DOMAIN s = 1..Len(s)
  <2>1. s \in [1..n -> Acct]
    BY <1>1, <1>3
  <2>2. QED
    BY <1>1, <2>1
<1>5. ASSUME NoTies, NEW r \in DOMAIN s PROVE Cardinality(Later(s[r])) = r - 1
  <2>1. ASSUME NEW i \in DOMAIN s, NEW j \in DOMAIN s, i < j
        PROVE  CreatedAt(s[i]) > CreatedAt(s[j])
    <3>1. s[i] \in accounts /\ s[j] \in accounts /\ s[i] # s[j]
      BY <1>1, <1>3, <2>1 DEF IsInjective
    <3>2. CreatedAt(s[i]) # CreatedAt(s[j])
      BY <1>5, <3>1 DEF NoTies
    <3>3. CreatedAt(s[i]) \in Nat /\ CreatedAt(s[j]) \in Nat
      BY <3>1 DEF CreationInv, Creating, CreatedAt
    <3>4. CreatedAt(s[i]) >= CreatedAt(s[j])
      BY <1>2, <2>1 DEF NotBefore
    <3>5. QED
      BY <3>2, <3>3, <3>4
  <2>2. r \in Nat /\ 1..(r - 1) \subseteq DOMAIN s
    BY <1>1, <1>4
  <2> DEFINE f == [i \in 1..(r - 1) |-> s[i]]
  <2>3. f \in Bijection(1..(r - 1), Later(s[r]))
    <3>1. \A i \in 1..(r - 1) : f[i] \in Later(s[r])
      BY <1>3, <2>1, <2>2 DEF Later
    <3>2. \A i, j \in 1..(r - 1) : f[i] = f[j] => i = j
      BY <1>3, <2>2 DEF IsInjective
    <3>3. ASSUME NEW b \in Later(s[r]) PROVE \E i \in 1..(r - 1) : f[i] = b
      <4>1. PICK k \in DOMAIN s : s[k] = b
        BY <1>3 DEF Later, Range
      <4>2. CreatedAt(s[k]) > CreatedAt(s[r])
        BY <4>1 DEF Later
      <4>3. CreatedAt(s[k]) \in Nat /\ CreatedAt(s[r]) \in Nat
        BY <1>1, <1>3 DEF CreationInv, Creating, CreatedAt
      <4>4. ~(r < k) /\ r # k
        BY <2>1, <4>2, <4>3
      <4>5. k \in 1..(r - 1)
        BY <1>1, <1>4, <2>2, <4>4
      <4>6. QED
        BY <4>1, <4>5
    <3>4. f \in [1..(r - 1) -> Later(s[r])]
      BY <3>1
    <3> HIDE DEF f
    <3>5. QED
      BY <3>2, <3>3, <3>4 DEF Bijection, Injection, Surjection, IsInjective
  <2>4. ExistsBijection(1..(r - 1), Later(s[r])) /\ r - 1 \in Nat
    <3>1. r - 1 \in Nat
      BY <1>1, <1>4, <2>2
    <3>2. QED
      BY <2>3, <3>1 DEF ExistsBijection
  <2>5. QED
    BY <2>4, FS_CountingElements
<1>6. QED
  BY <1>3, <1>4, <1>5 DEF n

\* The next page has all the accounts the walk has not seen, as far as it goes:
\* each of them is still behind what was shown.
LEMMA SelectAccountsSound ==
  ASSUME AcctInv, CreationInv', SelectAccounts
  PROVE  AcctInv'
<1> DEFINE offset == Len(walk.shown)
<1>1. /\ walk.part = "accounts" /\ walk \in Walk /\ PageInv /\ CreationInv
      /\ walk.query \in Reads /\ BeforeInv
      /\ UNCHANGED <<creation, accounts, currencies>>
  BY DEF SelectAccounts, AcctInv
<1>2. PICK s \in Listings :
        LET page == SubSeq(s, offset + 1, IF offset + Limit < Len(s) THEN offset + Limit
                                                                     ELSE Len(s))
        IN  walk' = [walk EXCEPT !.part = IF page = <<>> THEN "answered" ELSE "currencies",
                                 !.page = page, !.fetched = <<>>,
                                 !.before = IF offset = 0 THEN Matching ELSE @]
  BY DEF SelectAccounts
<1> DEFINE e == IF offset + Limit < Len(s) THEN offset + Limit ELSE Len(s)
<1>3. /\ s \in Seq(Acct) /\ DOMAIN s = 1..Len(s) /\ Range(s) = Matching /\ Len(s) \in Nat
      /\ NoTies => \A r \in DOMAIN s : Cardinality(Later(s[r])) = r - 1
  BY <1>1, ListingFacts
<1>4. offset \in Nat /\ Limit \in Nat \ {0}
  BY <1>1, AcctAssumption DEF Walk, Limit
<1>5. PICK page \in Seq(Acct) :
        /\ page = SubSeq(s, offset + 1, e)
        /\ Len(page) = IF offset + 1 <= e THEN e - offset ELSE 0
        /\ \A i \in 1..Len(page) : offset + i \in 1..e /\ page[i] = s[offset + i]
  <2>1. e \in Nat /\ e <= Len(s)
    BY <1>3, <1>4
  <2> HIDE DEF e, offset
  <2>2. \A i \in (offset + 1)..e : s[i] \in Acct
    BY <1>3, <1>4, <2>1
  <2>3. offset + 1 \in Int /\ e \in Int
    BY <1>4, <2>1
  <2> DEFINE page == SubSeq(s, offset + 1, e)
  <2>4. /\ page \in Seq(Acct)
        /\ Len(page) = IF offset + 1 <= e THEN e - (offset + 1) + 1 ELSE 0
        /\ \A i \in 1..(e - (offset + 1) + 1) : page[i] = s[(offset + 1) + i - 1]
    BY <2>2, <2>3, SubSeqProperties
  <2> HIDE DEF page
  <2>5. ASSUME NEW i \in 1..Len(page) PROVE offset + i \in 1..e /\ page[i] = s[offset + i]
    <3>1. i \in 1..(e - (offset + 1) + 1) /\ (offset + 1) + i - 1 = offset + i
      BY <1>4, <2>1, <2>4
    <3>2. QED
      BY <1>4, <2>1, <2>4, <3>1
  <2>6. Len(page) = IF offset + 1 <= e THEN e - offset ELSE 0
    BY <1>4, <2>1, <2>4
  <2>7. QED
    BY <2>4, <2>5, <2>6 DEF page
<1>6. e \in Nat /\ e <= Len(s) /\ (e < Len(s) => e = offset + Limit)
  BY <1>3, <1>4
<1> HIDE DEF e, offset
<1>7. PICK before \in SUBSET Matching :
        /\ before = IF offset = 0 THEN Matching ELSE walk.before
        /\ walk' = [walk EXCEPT !.part = IF page = <<>> THEN "answered" ELSE "currencies",
                                !.page = page, !.fetched = <<>>, !.before = before]
  BY <1>1, <1>2, <1>5 DEF e, offset, BeforeInv
<1>8. /\ walk'.part = IF page = <<>> THEN "answered" ELSE "currencies"
      /\ walk'.page = page /\ walk'.shown = walk.shown /\ walk'.query = walk.query
      /\ walk'.before = before /\ walk' \in Walk
  <2>1. (IF page = <<>> THEN "answered" ELSE "currencies") \in Listed
    BY DEF Listed
  <2>2. Matching \subseteq Acct /\ <<>> \in Seq(SUBSET Currencies)
    BY <1>1, MatchingFacts
  <2>3. QED
    BY <1>1, <1>7, <2>1, <2>2 DEF Walk
<1>9. PageInv'
  <2>1. \A i \in 1..Len(page) : page[i] \in accounts
    BY <1>1, <1>3, <1>5, <1>6, MatchingFacts DEF Range
  <2>2. DOMAIN page = 1..Len(page) /\ (page = <<>> => DOMAIN page = {})
    OBVIOUS
  <2>3. QED
    BY <1>1, <1>8, <2>1, <2>2 DEF PageInv, Listed
<1>10. /\ Matching' = Matching /\ (NoTies' <=> NoTies) /\ Limit' = Limit
       /\ \A a : Later(a)' = Later(a)
  BY <1>1, <1>8, SameMatching
<1>11. Seen' = Range(walk.shown) \union Range(page)
  BY <1>8 DEF Seen
<1>12. ASSUME NoTies, NEW a \in before, a \notin Range(walk.shown), a \notin Range(page)
       PROVE  Cardinality(Later(a)) >= offset + Len(page) /\ Len(page) = Limit
  <2>1. PICK r \in DOMAIN s : s[r] = a
    BY <1>3 DEF Range
  <2>2. Cardinality(Later(a)) = r - 1 /\ r \in Nat /\ r \in 1..Len(s)
    BY <1>3, <1>12, <2>1
  <2>3. offset < r
    <3>1. CASE offset = 0
      BY <2>2, <3>1
    <3>2. CASE offset # 0
      <4>1. a \in walk.before \ Seen
        <5>1. walk.page = <<>> /\ Range(<<>>) = {}
          BY <1>1 DEF PageInv, Listed, Range
        <5>2. QED
          BY <1>7, <1>12, <3>2, <5>1 DEF Seen
      <4>2. Cardinality(Later(a)) >= offset + Len(walk.page)
        BY <1>1, <1>12, <4>1 DEF BeforeInv, offset
      <4>3. Len(walk.page) = 0
        BY <1>1 DEF PageInv, Listed
      <4>4. QED
        BY <1>4, <2>2, <4>2, <4>3
    <3>3. QED
      BY <3>1, <3>2
  <2>4. e < r
    <3>1. SUFFICES ASSUME ~(e < r) PROVE FALSE
      OBVIOUS
    <3>2. r - offset \in 1..Len(page) /\ offset + (r - offset) = r
      BY <1>4, <1>5, <1>6, <2>2, <2>3, <3>1
    <3>3. page[r - offset] = a
      BY <1>5, <2>1, <3>2
    <3>4. QED
      BY <1>12, <3>2, <3>3 DEF Range
  <2>5. e = offset + Limit
    BY <1>3, <1>6, <2>2, <2>4
  <2>6. Len(page) = Limit
    BY <1>4, <1>5, <2>5
  <2>7. QED
    BY <1>4, <2>2, <2>4, <2>5, <2>6
<1>13. BeforeInv'
  <2>1. NoTies => /\ \A a \in before \ Seen' : Cardinality(Later(a)) >= offset + Len(page)
                  /\ Len(page) # Limit => before \subseteq Seen'
    BY <1>11, <1>12
  <2>2. walk'.before \subseteq Matching'
    BY <1>8, <1>10
  <2>3. Len(walk'.shown) + Len(walk'.page) = offset + Len(page)
    BY <1>8 DEF offset
  <2>4. QED
    BY <1>8, <1>10, <2>1, <2>2, <2>3 DEF BeforeInv
<1>14. QED
  BY <1>1, <1>8, <1>9, <1>13 DEF AcctInv

\* The currencies of a page are those its accounts were created with.
LEMMA FetchCurrenciesSound ==
  ASSUME AcctInv, CreationInv', FetchCurrencies
  PROVE  AcctInv'
<1> DEFINE f == [i \in DOMAIN walk.page |->
                   {c \in Currencies : <<walk.page[i], c>> \in currencies}]
<1>1. /\ walk.part = "currencies" /\ walk \in Walk /\ PageInv /\ CreationInv
      /\ walk.query \in Reads /\ BeforeInv
      /\ walk' = [walk EXCEPT !.part = "answered", !.fetched = f]
      /\ UNCHANGED <<creation, accounts, currencies>>
  BY DEF FetchCurrencies, AcctInv
<1>2. walk.page \in Seq(Acct)
  BY <1>1 DEF Walk
<1>3. f \in Seq(SUBSET Currencies) /\ \A i \in DOMAIN walk.page : f[i] = WantedBy(walk.page[i])
  <2>1. DOMAIN walk.page = 1..Len(walk.page) /\ Len(walk.page) \in Nat
    BY <1>2
  <2>2. f \in [1..Len(walk.page) -> SUBSET Currencies]
    BY <2>1
  <2>3. ASSUME NEW i \in DOMAIN walk.page PROVE f[i] = WantedBy(walk.page[i])
    <3> DEFINE a == walk.page[i]
    <3>1. a \in Acct /\ a \in accounts /\ WantedBy(a) \subseteq Currencies
      BY <1>1, <1>2, <2>1, <2>3, WantedFacts DEF PageInv
    <3>2. \A c \in Currencies : <<a, c>> \in currencies <=> c \in WantedBy(a)
      BY <1>1, <3>1 DEF CreationInv
    <3>3. f[i] = {c \in Currencies : <<a, c>> \in currencies}
      BY <2>3
    <3>4. QED
      BY <3>1, <3>2, <3>3
  <2> HIDE DEF f
  <2>4. f \in Seq(SUBSET Currencies)
    BY <2>1, <2>2
  <2>5. QED
    BY <2>3, <2>4
<1> HIDE DEF f
<1>4. /\ walk'.part = "answered" /\ walk'.fetched = f /\ walk' \in Walk
      /\ walk'.query = walk.query /\ walk'.page = walk.page /\ walk'.shown = walk.shown
      /\ walk'.before = walk.before
  BY <1>1, <1>3 DEF Walk, Listed
<1>5. PageInv'
  BY <1>1, <1>3, <1>4 DEF PageInv, Listed
<1>6. /\ Matching' = Matching /\ (NoTies' <=> NoTies) /\ Limit' = Limit
      /\ \A a : Later(a)' = Later(a)
  BY <1>1, <1>4, SameMatching
<1>7. BeforeInv'
  BY <1>1, <1>4, <1>6 DEF BeforeInv, Seen, Listed
<1>8. QED
  BY <1>1, <1>4, <1>5, <1>7 DEF AcctInv

\* What has been answered counts as shown.
LEMMA ReadOnSound ==
  ASSUME AcctInv, CreationInv', ReadOn
  PROVE  AcctInv'
<1>1. /\ walk.part = "answered" /\ walk \in Walk /\ CreationInv
      /\ walk.query \in Reads /\ BeforeInv
      /\ walk.shown \in Seq(Acct) /\ walk.page \in Seq(Acct)
      /\ UNCHANGED <<creation, accounts, currencies>>
  BY DEF ReadOn, FullPage, AcctInv, Walk
<1>2. PICK s \in Seq(Acct) :
        /\ s = walk.shown \o walk.page /\ Len(s) = Len(walk.shown) + Len(walk.page)
        /\ Range(s) = Range(walk.shown) \union Range(walk.page)
  <2> DEFINE s == walk.shown \o walk.page
  <2>1. s \in Seq(Acct) /\ Len(s) = Len(walk.shown) + Len(walk.page)
    BY <1>1, ConcatProperties
  <2>2. Range(s) = Range(walk.shown) \union Range(walk.page)
    BY <1>1, RangeConcatenation
  <2> HIDE DEF s
  <2>3. QED
    BY <2>1, <2>2 DEF s
<1>3. walk' = [walk EXCEPT !.part = "accounts", !.shown = s, !.page = <<>>, !.fetched = <<>>]
  BY <1>1, <1>2 DEF ReadOn
<1>4. /\ <<>> \in Seq(Acct) /\ <<>> \in Seq(SUBSET Currencies) /\ DOMAIN <<>> = {}
      /\ Len(<<>>) = 0
  OBVIOUS
<1>5. /\ walk'.part = "accounts" /\ walk'.page = <<>> /\ walk'.shown = s /\ walk' \in Walk
      /\ walk'.query = walk.query /\ walk'.before = walk.before
  BY <1>1, <1>3, <1>4 DEF Walk
<1>6. PageInv'
  BY <1>4, <1>5 DEF PageInv, Listed
<1>7. /\ Matching' = Matching /\ (NoTies' <=> NoTies)
      /\ \A a : Later(a)' = Later(a)
  BY <1>1, <1>5, SameMatching
<1>8. Seen' = Seen
  <2>1. Range(<<>>) = {}
    BY <1>4 DEF Range
  <2>2. QED
    BY <1>2, <1>5, <2>1 DEF Seen
<1>9. BeforeInv'
  <2>1. Len(walk'.shown) + Len(walk'.page) = Len(walk.shown) + Len(walk.page)
    <3>1. Len(s) \in Nat
      OBVIOUS
    <3>2. QED
      BY <1>2, <1>4, <1>5, <3>1
  <2>2. walk'.part \notin Listed
    BY <1>5 DEF Listed
  <2>3. QED
    BY <1>1, <1>5, <1>7, <1>8, <2>1, <2>2 DEF BeforeInv
<1>10. QED
  BY <1>1, <1>5, <1>6, <1>9 DEF AcctInv

\* No walk is under way.
LEMMA NoWalkSound == CreationInv /\ walk = NoWalk => AcctInv
<1> SUFFICES ASSUME CreationInv, walk = NoWalk PROVE AcctInv
  OBVIOUS
<1>1. <<>> \in Seq(Acct) /\ <<>> \in Seq(SUBSET Currencies) /\ DOMAIN <<>> = {}
  OBVIOUS
<1>2. walk \in Walk /\ PageInv /\ walk.part = "none"
  BY <1>1 DEF NoWalk, Walk, PageInv, Listed
<1>3. QED
  BY <1>2 DEF AcctInv

LEMMA NoWalkSoundNext == (CreationInv /\ walk = NoWalk)' => AcctInv'
BY NoWalkSound, PTL

\* No account is there at the start.
LEMMA AcctInvInit == AcctInit => AcctInv
<1> SUFFICES ASSUME AcctInit PROVE AcctInv
  OBVIOUS
<1>1. /\ IsFiniteSet({}) /\ Cardinality({}) = 0
      /\ \A a \in Acct : {} = {Wanted[a][i] : i \in 1..0}
  BY FS_EmptySet
<1>2. CreationInv
  <2>1. /\ creation = [a \in Acct |-> [pc |-> "none", at |-> 0, inserted |-> {}]]
        /\ accounts = {} /\ currencies = {} /\ clock = 0
    BY DEF AcctInit
  <2>2. ASSUME NEW a \in Acct
        PROVE  /\ IsFiniteSet(creation[a].inserted)
               /\ creation[a].inserted = FirstWanted(a)
               /\ Cardinality(creation[a].inserted) <= Len(Wanted[a])
    <3>1. creation[a].inserted = {}
      BY <2>1
    <3>2. QED
      BY <1>1, <3>1, WantedFacts DEF FirstWanted
  <2>3. creation \in [Acct -> Creating] /\ accounts = {a \in Acct : creation[a].pc \in Stored}
    BY <2>1 DEF Creating, Stored
  <2>4. QED
    BY <1>1, <2>1, <2>2, <2>3 DEF CreationInv
<1>3. QED
  BY <1>2, NoWalkSound DEF AcctInit

\* Every step keeps the invariant.
LEMMA AcctInvStep == AcctInv /\ [AcctNext]_acctVars => AcctInv'
<1> SUFFICES ASSUME AcctInv, [AcctNext]_acctVars PROVE AcctInv'
  OBVIOUS
<1>1. CreationInv' /\ Growing
  BY CreationStep DEF AcctInv
<1>2. CASE UNCHANGED walk
  BY <1>1, <1>2, GrowthSound
<1>3. CASE Walking
  <2>1. StopRead => AcctInv'
    BY <1>1, NoWalkSoundNext DEF StopRead
  <2>2. QED
    BY <1>1, <1>3, <2>1, StartReadSound, SelectAccountsSound, FetchCurrenciesSound,
       ReadOnSound DEF Walking
<1>4. QED
  BY <1>2, <1>3 DEF AcctNext, BeginCreate, Creation, InsertAccount, InsertCurrency,
     CommitCreate, RollBackCreate, UpdateAccountMetadata, AcctTick, acctVars

\* What is read of an account is whole, whatever is created between the two
\* statements that read it, and so is an account its creator was told of.
THEOREM AccountsReadWhole == AcctSpec => []AccountsWhole
<1>1. AcctInv => AccountsWhole
  <2> SUFFICES ASSUME AcctInv PROVE AccountsWhole
    OBVIOUS
  <2>1. walk.part = "answered" =>
          \A i \in DOMAIN walk.page : walk.fetched[i] = WantedBy(walk.page[i])
    BY DEF AcctInv, PageInv
  <2>2. ASSUME NEW a \in Acct, creation[a].pc = "created"
        PROVE  a \in accounts /\ \A c \in WantedBy(a) : <<a, c>> \in currencies
    BY <2>2, WantedFacts DEF AcctInv, CreationInv, Stored
  <2>3. QED
    BY <2>1, <2>2 DEF AccountsWhole
<1>2. QED
  BY <1>1, AcctInvInit, AcctInvStep, PTL DEF AcctSpec

\* A walk newest first misses none of the accounts it began with.
THEOREM WalksMissNone == AcctSpec => []WalkComplete
<1>1. AcctInv => WalkComplete
  BY DEF AcctInv, BeforeInv, WalkComplete, FullPage, Listed
<1>2. QED
  BY <1>1, AcctInvInit, AcctInvStep, PTL DEF AcctSpec

-----------------------------------------------------------------------------
(* The invariant of the load. *)

At(pcs) == {w \in Worker : worker[w].pc \in pcs}

\* The workers that have a token whose batch is not counted yet, those that are
\* about to count a success, and the batches whose answers are waited for.
Pending    == {"token", "sent", "result"}
Busy       == At(Pending)
Succeeding == {w \in At({"result"}) : worker[w].ok}
WaitedFor  == {worker[w].batch : w \in At({"sent"})}

Job == [pc : {"none", "idle", "token", "sent", "result", "done"},
        ok : BOOLEAN, batch : Batches \union {"none"}]

Figures == [pc : {"none", "idle", "loaded", "done"}, loaded : Nat, prevSuccess : Nat,
            prevFailed : Nat, success : Nat, failed : Nat]

LoadTypeOK ==
  /\ state \in [Batches -> {"new", "open"} \union Cycle!Outcomes]
  /\ committed \subseteq Batches
  /\ produced \in Nat /\ taken \in Nat /\ success \in Nat /\ failed \in Nat
  /\ worker \in [Worker -> Job]
  /\ live \in Figures

\* What the server has committed is what it was sent, no batch is sent by two
\* workers, and what is a success is committed.
BatchesInv ==
  /\ \A b \in Batches : /\ state[b] = "new" => b \notin committed
                        /\ state[b] = "ok" => b \in committed
  /\ \A w \in At({"sent"}) : worker[w].batch \in Batches /\ state[worker[w].batch] # "new"
  /\ \A v, w \in At({"sent"}) : worker[v].batch = worker[w].batch => v = w

\* Every token that was taken is counted or in the hands of a worker, and every
\* success is that of a committed batch nobody waits for any more.
CountInv ==
  /\ taken = success + failed + Cardinality(Busy)
  /\ success + Cardinality(Succeeding) <= Cardinality(committed \ WaitedFor)

\* No worker runs before the accounts are there, and none is done before the
\* channel is closed and empty; from then on no token is produced.
DoneInv ==
  /\ producer = "seed" => \A w \in Worker : worker[w].pc = "none"
  /\ \A w \in At({"done"}) : producer \in {"wait", "exit"} /\ taken = produced

\* The live statistics are behind the counters.
LiveInv ==
  /\ live.success = live.prevSuccess /\ live.failed = live.prevFailed
  /\ live.loaded <= success /\ live.prevSuccess <= success /\ live.prevFailed <= failed

\* The summary says what the counters are when everything stands still.
SummaryInv ==
  summary.printed =>
    /\ producer = "exit" /\ success + failed = produced
    /\ summary.success = success /\ summary.failed = failed

LoadInv == LoadTypeOK /\ BatchesInv /\ CountInv /\ DoneInv /\ LiveInv /\ SummaryInv

-----------------------------------------------------------------------------
(* What the workers do to the counts. *)

\* The workers are finitely many.
LEMMA AtFacts ==
  \A S : IsFiniteSet(At(S)) /\ Cardinality(At(S)) \in Nat
<1>1. \A S : At(S) \subseteq Worker
  BY DEF At
<1>2. IsFiniteSet(Worker)
  BY TrafficAssumption
<1>3. \A S : IsFiniteSet(At(S))
  BY <1>1, <1>2, FS_Subset
<1>4. QED
  BY <1>3, FS_CardinalityType

LEMMA SucceedingFacts == IsFiniteSet(Succeeding) /\ Cardinality(Succeeding) \in Nat
<1>1. Succeeding \in SUBSET At({"result"})
  BY DEF Succeeding
<1>2. IsFiniteSet(Succeeding)
  BY <1>1, AtFacts, FS_Subset
<1>3. QED
  BY <1>2, FS_CardinalityType

\* A worker gets on with its batch.
LEMMA WorkFacts ==
  ASSUME LoadTypeOK, NEW w \in Worker, NEW j \in Job, worker' = [worker EXCEPT ![w] = j]
  PROVE  /\ worker' \in [Worker -> Job] /\ worker'[w] = j
         /\ \A v \in Worker : v # w => worker'[v] = worker[v]
         /\ \A S : At(S)' = IF j.pc \in S THEN At(S) \union {w} ELSE At(S) \ {w}
         /\ Succeeding' = IF j.pc = "result" /\ j.ok THEN Succeeding \union {w}
                                                     ELSE Succeeding \ {w}
<1>1. /\ worker' \in [Worker -> Job] /\ worker'[w] = j
      /\ \A v \in Worker : v # w => worker'[v] = worker[v]
  BY DEF LoadTypeOK
<1>2. ASSUME NEW S
      PROVE  At(S)' = IF j.pc \in S THEN At(S) \union {w} ELSE At(S) \ {w}
  BY <1>1 DEF At
<1>3. Succeeding' = IF j.pc = "result" /\ j.ok THEN Succeeding \union {w} ELSE Succeeding \ {w}
  BY <1>1 DEF Succeeding, At
<1>4. QED
  BY <1>1, <1>2, <1>3

\* How many workers are busy, and about to count a success, after that.
Succeeds(j) == j.pc = "result" /\ j.ok

LEMMA WorkCounts ==
  ASSUME LoadTypeOK, NEW w \in Worker, NEW j \in Job, worker' = [worker EXCEPT ![w] = j]
  PROVE  /\ Cardinality(Busy) \in Nat /\ Cardinality(Busy') \in Nat
         /\ w \in Busy /\ j.pc \in Pending => Cardinality(Busy') = Cardinality(Busy)
         /\ w \notin Busy /\ j.pc \in Pending => Cardinality(Busy') = Cardinality(Busy) + 1
         /\ w \in Busy /\ j.pc \notin Pending => Cardinality(Busy) = Cardinality(Busy') + 1
         /\ w \notin Busy /\ j.pc \notin Pending => Cardinality(Busy') = Cardinality(Busy)
         /\ Cardinality(Succeeding) \in Nat /\ Cardinality(Succeeding') \in Nat
         /\ w \notin Succeeding /\ ~Succeeds(j) =>
              Cardinality(Succeeding') = Cardinality(Succeeding)
         /\ w \notin Succeeding /\ Succeeds(j) =>
              Cardinality(Succeeding') = Cardinality(Succeeding) + 1
         /\ w \in Succeeding /\ ~Succeeds(j) =>
              Cardinality(Succeeding) = Cardinality(Succeeding') + 1
<1>1. ASSUME NEW A, IsFiniteSet(A)
      PROVE  /\ Cardinality(A) \in Nat
             /\ Cardinality(A \union {w}) \in Nat /\ Cardinality(A \ {w}) \in Nat
             /\ w \notin A => Cardinality(A \union {w}) = Cardinality(A) + 1
             /\ w \in A => Cardinality(A) = Cardinality(A \ {w}) + 1
             /\ w \in A => A \union {w} = A
             /\ w \notin A => A \ {w} = A
  <2> DEFINE C == A \ {w}
             D == A \union {w}
  <2>1. /\ IsFiniteSet(C) /\ IsFiniteSet(D)
        /\ w \notin A => Cardinality(D) = Cardinality(A) + 1
        /\ w \in A => Cardinality(C) = Cardinality(A) - 1
    BY <1>1, FS_AddElement, FS_RemoveElement
  <2> HIDE DEF C, D
  <2>2. Cardinality(A) \in Nat /\ Cardinality(C) \in Nat /\ Cardinality(D) \in Nat
    BY <1>1, <2>1, FS_CardinalityType
  <2>3. w \in A => Cardinality(A) = Cardinality(C) + 1
    BY <2>1, <2>2
  <2>4. QED
    BY <2>1, <2>2, <2>3 DEF C, D
<1>2. IsFiniteSet(Busy) /\ IsFiniteSet(Succeeding)
  BY AtFacts, SucceedingFacts DEF Busy
<1>3. /\ j.pc \in Pending => Busy' = Busy \union {w}
      /\ j.pc \notin Pending => Busy' = Busy \ {w}
  BY WorkFacts DEF Busy, Pending
<1>4. /\ Succeeds(j) => Succeeding' = Succeeding \union {w}
      /\ ~Succeeds(j) => Succeeding' = Succeeding \ {w}
  BY WorkFacts DEF Succeeds
<1>5. /\ Cardinality(Busy) \in Nat /\ Cardinality(Busy') \in Nat
      /\ w \in Busy /\ j.pc \in Pending => Cardinality(Busy') = Cardinality(Busy)
      /\ w \notin Busy /\ j.pc \in Pending => Cardinality(Busy') = Cardinality(Busy) + 1
      /\ w \in Busy /\ j.pc \notin Pending => Cardinality(Busy) = Cardinality(Busy') + 1
      /\ w \notin Busy /\ j.pc \notin Pending => Cardinality(Busy') = Cardinality(Busy)
  BY <1>1, <1>2, <1>3
<1>6. /\ Cardinality(Succeeding) \in Nat /\ Cardinality(Succeeding') \in Nat
      /\ w \notin Succeeding /\ ~Succeeds(j) =>
           Cardinality(Succeeding') = Cardinality(Succeeding)
      /\ w \notin Succeeding /\ Succeeds(j) =>
           Cardinality(Succeeding') = Cardinality(Succeeding) + 1
      /\ w \in Succeeding /\ ~Succeeds(j) =>
           Cardinality(Succeeding) = Cardinality(Succeeding') + 1
  BY <1>1, <1>2, <1>4
<1>7. QED
  BY <1>5, <1>6

\* A worker that neither sends a batch nor waits for one.
LEMMA NotWaiting ==
  ASSUME LoadTypeOK, BatchesInv, NEW w \in Worker, NEW j \in Job,
         worker' = [worker EXCEPT ![w] = j],
         worker[w].pc # "sent", j.pc # "sent", UNCHANGED <<state, committed>>
  PROVE  BatchesInv' /\ WaitedFor' = WaitedFor
<1>1. At({"sent"})' = At({"sent"}) /\ w \notin At({"sent"})
  BY WorkFacts DEF At
<1>2. \A v \in At({"sent"}) : worker'[v] = worker[v]
  BY <1>1, WorkFacts DEF At
<1>3. QED
  BY <1>1, <1>2 DEF BatchesInv, WaitedFor

\* A worker whose batch has been answered, or that gives up.
LEMMA NoLongerWaiting ==
  ASSUME LoadTypeOK, BatchesInv, NEW w \in Worker, NEW j \in Job,
         worker' = [worker EXCEPT ![w] = j],
         worker[w].pc = "sent", j.pc # "sent", UNCHANGED <<state, committed>>
  PROVE  BatchesInv' /\ WaitedFor' = WaitedFor \ {worker[w].batch}
<1>1. At({"sent"})' = At({"sent"}) \ {w} /\ w \in At({"sent"})
  BY WorkFacts DEF At
<1>2. \A v \in At({"sent"}) \ {w} : worker'[v] = worker[v]
  BY <1>1, WorkFacts DEF At
<1>3. BatchesInv'
  BY <1>1, <1>2 DEF BatchesInv
<1>4. \A v \in At({"sent"}) \ {w} : worker[v].batch # worker[w].batch
  BY <1>1 DEF BatchesInv
<1>5. QED
  BY <1>1, <1>2, <1>3, <1>4 DEF WaitedFor

-----------------------------------------------------------------------------
(* The steps of the workers. *)

\* What a worker does while the generator runs, apart from the three counts.
LEMMA WorkerKeeps ==
  ASSUME LoadInv, LoadTypeOK', BatchesInv', CountInv', DoneInv', Running,
         UNCHANGED mainVars, UNCHANGED live, success' >= success, failed' >= failed
  PROVE  LoadInv'
<1>1. /\ success \in Nat /\ failed \in Nat /\ success' \in Nat /\ failed' \in Nat
      /\ live.loaded \in Nat /\ live.prevSuccess \in Nat /\ live.prevFailed \in Nat
  BY DEF LoadInv, LoadTypeOK, Figures
<1>2. LiveInv'
  BY <1>1 DEF LoadInv, LiveInv
<1>3. SummaryInv'
  BY DEF LoadInv, SummaryInv, Running, mainVars
<1>4. QED
  BY <1>2, <1>3 DEF LoadInv

\* A worker that is neither done nor becomes it.
LEMMA NotDone ==
  ASSUME LoadTypeOK, DoneInv, NEW w \in Worker, NEW j \in Job,
         worker' = [worker EXCEPT ![w] = j], worker[w].pc # "none",
         j.pc # "done", UNCHANGED <<producer, produced>>,
         taken' = taken \/ taken # produced
  PROVE  DoneInv'
<1>1. producer # "seed"
  BY DEF DoneInv
<1>2. At({"done"})' \subseteq At({"done"})
  <2>1. At({"done"})' = At({"done"}) \ {w}
    BY WorkFacts
  <2>2. QED
    BY <2>1
<1>3. QED
  BY <1>1, <1>2 DEF DoneInv

\* The batches that are committed and not waited for are finitely many, and more
\* of them are no fewer.
LEMMA CommittedFacts ==
  ASSUME LoadTypeOK
  PROVE  /\ IsFiniteSet(committed) /\ Cardinality(committed) \in Nat
         /\ \A W : /\ IsFiniteSet(committed \ W) /\ Cardinality(committed \ W) \in Nat
                   /\ Cardinality(committed \ W) <= Cardinality(committed)
<1>1. IsFiniteSet(committed)
  BY TrafficAssumption, FS_Subset DEF LoadTypeOK
<1>2. \A W : committed \ W \in SUBSET committed
  OBVIOUS
<1>3. QED
  BY <1>1, <1>2, FS_Subset, FS_CardinalityType

\* A worker takes a token.
LEMMA TakeSound ==
  ASSUME LoadInv, NEW w \in Worker, Take(w)
  PROVE  LoadInv'
<1> DEFINE j == [pc |-> "token", ok |-> FALSE, batch |-> "none"]
<1>1. /\ Running /\ worker[w].pc = "idle" /\ taken < produced /\ taken' = taken + 1
      /\ worker' = [worker EXCEPT ![w] = j] /\ j \in Job /\ j.pc = "token"
      /\ UNCHANGED <<serverVars, mainVars, success, failed, live>>
  BY DEF Take, Work, Job
<1>2. LoadTypeOK /\ BatchesInv /\ CountInv /\ DoneInv
  BY DEF LoadInv
<1> HIDE DEF j
<1>3. BatchesInv' /\ WaitedFor' = WaitedFor
  BY <1>1, <1>2, NotWaiting DEF serverVars
<1>4. w \notin Busy /\ w \notin Succeeding
  BY <1>1 DEF Busy, Pending, Succeeding, At
<1>5. CountInv'
  <2>0. j.pc \in Pending /\ ~Succeeds(j)
    BY <1>1 DEF Pending, Succeeds
  <2>1. Cardinality(Busy') = Cardinality(Busy) + 1
    BY <1>1, <1>2, <1>4, <2>0, WorkCounts
  <2>2. Cardinality(Succeeding') = Cardinality(Succeeding)
    BY <1>1, <1>2, <1>4, <2>0, WorkCounts
  <2>3. Cardinality(Busy) \in Nat
    BY AtFacts DEF Busy
  <2>4. success' = success /\ failed' = failed /\ committed' = committed
    BY <1>1 DEF serverVars
  <2>5. taken' = success' + failed' + Cardinality(Busy')
    BY <1>1, <1>2, <2>1, <2>3, <2>4 DEF LoadTypeOK, CountInv
  <2>6. QED
    BY <1>2, <1>3, <2>2, <2>4, <2>5 DEF CountInv
<1>6. DoneInv'
  <2>1. taken # produced
    BY <1>1, <1>2 DEF LoadTypeOK
  <2>2. worker[w].pc # "none" /\ j.pc # "done" /\ UNCHANGED <<producer, produced>>
    BY <1>1 DEF mainVars
  <2>3. QED
    BY <1>1, <1>2, <2>1, <2>2, NotDone
<1>7. LoadTypeOK'
  BY <1>1, <1>2, WorkFacts DEF LoadTypeOK, serverVars, mainVars
<1>8. QED
  BY <1>1, <1>2, <1>3, <1>5, <1>6, <1>7, WorkerKeeps DEF LoadTypeOK

\* A worker finds the channel closed and empty.
LEMMA LeaveLoopSound ==
  ASSUME LoadInv, NEW w \in Worker, LeaveLoop(w)
  PROVE  LoadInv'
<1> DEFINE j == [pc |-> "done", ok |-> FALSE, batch |-> "none"]
<1>1. /\ Running /\ worker[w].pc = "idle" /\ taken = produced /\ producer = "wait"
      /\ worker' = [worker EXCEPT ![w] = j] /\ j \in Job /\ j.pc = "done"
      /\ UNCHANGED <<serverVars, mainVars, taken, success, failed, live>>
  BY DEF LeaveLoop, Work, Job
<1>2. LoadTypeOK /\ BatchesInv /\ CountInv /\ DoneInv
  BY DEF LoadInv
<1> HIDE DEF j
<1>3. BatchesInv' /\ WaitedFor' = WaitedFor
  BY <1>1, <1>2, NotWaiting DEF serverVars
<1>4. w \notin Busy /\ w \notin Succeeding
  BY <1>1 DEF Busy, Pending, Succeeding, At
<1>5. CountInv'
  <2>0. j.pc \notin Pending /\ ~Succeeds(j)
    BY <1>1 DEF Pending, Succeeds
  <2>1. Cardinality(Busy') = Cardinality(Busy)
    BY <1>1, <1>2, <1>4, <2>0, WorkCounts
  <2>2. Cardinality(Succeeding') = Cardinality(Succeeding)
    BY <1>1, <1>2, <1>4, <2>0, WorkCounts
  <2>3. QED
    BY <1>1, <1>2, <1>3, <2>1, <2>2 DEF CountInv, serverVars
<1>6. DoneInv'
  BY <1>1 DEF DoneInv, mainVars
<1>7. LoadTypeOK'
  BY <1>1, <1>2, WorkFacts DEF LoadTypeOK, serverVars, mainVars
<1>8. QED
  BY <1>1, <1>2, <1>3, <1>5, <1>6, <1>7, WorkerKeeps DEF LoadTypeOK

\* A worker sends a batch nobody has sent.
LEMMA SendBatchSound ==
  ASSUME LoadInv, NEW w \in Worker, SendBatch(w)
  PROVE  LoadInv'
<1>1. PICK b \in Batches : b = NewBatch
  BY DEF SendBatch
<1> DEFINE j == [pc |-> "sent", ok |-> FALSE, batch |-> b]
<1>2. /\ Running /\ worker[w].pc = "token" /\ Cycle!Open(b)
      /\ worker' = [worker EXCEPT ![w] = j] /\ j \in Job /\ j.pc = "sent" /\ j.batch = b
      /\ UNCHANGED <<mainVars, taken, success, failed, live>>
  BY <1>1 DEF SendBatch, Work, Job
<1>3. /\ state[b] = "new" /\ state' = [state EXCEPT ![b] = "open"] /\ committed' = committed
  BY <1>2 DEF Cycle!Open
<1>4. LoadTypeOK /\ BatchesInv /\ CountInv /\ DoneInv
  BY DEF LoadInv
<1> HIDE DEF j
<1>5. /\ At({"sent"})' = At({"sent"}) \union {w} /\ worker'[w].batch = b
      /\ \A v \in At({"sent"}) : v # w /\ worker'[v] = worker[v] /\ worker[v].batch # b
  <2>1. At({"sent"})' = At({"sent"}) \union {w}
    BY <1>2, <1>4, WorkFacts
  <2>2. worker'[w].batch = b
    BY <1>2, <1>4, WorkFacts
  <2>3. \A v \in At({"sent"}) : v # w /\ v \in Worker
    BY <1>2 DEF At
  <2>4. \A v \in At({"sent"}) : worker[v].batch # b
    BY <1>3, <1>4 DEF BatchesInv
  <2>5. QED
    BY <1>2, <1>4, <2>1, <2>2, <2>3, <2>4, WorkFacts
<1>6. \A c \in Batches : state'[c] = IF c = b THEN "open" ELSE state[c]
  BY <1>3, <1>4 DEF LoadTypeOK
<1>7. BatchesInv'
  <2>1. \A c \in Batches : /\ state'[c] = "new" => c \notin committed'
                           /\ state'[c] = "ok" => c \in committed'
    BY <1>3, <1>4, <1>6 DEF BatchesInv
  <2>2. \A v \in At({"sent"})' : worker'[v].batch \in Batches /\ state'[worker'[v].batch] # "new"
    BY <1>4, <1>5, <1>6 DEF BatchesInv
  <2>3. \A v, u \in At({"sent"})' : worker'[v].batch = worker'[u].batch => v = u
    BY <1>4, <1>5 DEF BatchesInv
  <2>4. QED
    BY <2>1, <2>2, <2>3 DEF BatchesInv
<1>8. committed' \ WaitedFor' = committed \ WaitedFor
  <2>1. b \notin committed
    BY <1>3, <1>4 DEF BatchesInv
  <2>2. WaitedFor' = WaitedFor \union {b}
    BY <1>5 DEF WaitedFor
  <2>3. QED
    BY <1>3, <2>1, <2>2
<1>9. CountInv'
  <2>1. w \in Busy /\ w \notin Succeeding /\ j.pc \in Pending /\ ~Succeeds(j)
    BY <1>2 DEF Busy, Pending, Succeeding, Succeeds, At
  <2>2. Cardinality(Busy') = Cardinality(Busy)
    BY <1>2, <1>4, <2>1, WorkCounts
  <2>3. Cardinality(Succeeding') = Cardinality(Succeeding)
    BY <1>2, <1>4, <2>1, WorkCounts
  <2>4. QED
    BY <1>2, <1>4, <1>8, <2>2, <2>3 DEF CountInv
<1>10. DoneInv'
  BY <1>2, <1>4, NotDone DEF mainVars
<1>11. LoadTypeOK'
  BY <1>2, <1>3, <1>4, WorkFacts DEF LoadTypeOK, mainVars
<1>12. QED
  BY <1>2, <1>4, <1>7, <1>9, <1>10, <1>11, WorkerKeeps DEF LoadTypeOK

\* A worker has what it counts as an error: it could send nothing, it waited
\* long enough, or its batch has failed.
Refused(w) == Answered(w) /\ state[worker[w].batch] # "ok"

LEMMA ErrorSound ==
  ASSUME LoadInv, NEW w \in Worker, Unreachable(w) \/ GiveUp(w) \/ Refused(w)
  PROVE  LoadInv'
<1> DEFINE j == [pc |-> "result", ok |-> FALSE, batch |-> "none"]
<1>1. /\ Running /\ worker[w].pc \in {"token", "sent"}
      /\ worker' = [worker EXCEPT ![w] = j] /\ j \in Job /\ j.pc = "result" /\ ~j.ok
      /\ UNCHANGED <<serverVars, mainVars, taken, success, failed, live>>
  BY DEF Unreachable, GiveUp, Refused, Answered, Succeeded, Work, Job
<1>2. LoadTypeOK /\ BatchesInv /\ CountInv /\ DoneInv
  BY DEF LoadInv
<1> HIDE DEF j
<1>3. BatchesInv' /\ WaitedFor' \subseteq WaitedFor
  BY <1>1, <1>2, NotWaiting, NoLongerWaiting DEF serverVars
<1>4. w \in Busy /\ w \notin Succeeding
  BY <1>1 DEF Busy, Pending, Succeeding, At
<1>5. CountInv'
  <2>0. j.pc \in Pending /\ ~Succeeds(j)
    BY <1>1 DEF Pending, Succeeds
  <2>1. Cardinality(Busy') = Cardinality(Busy)
    BY <1>1, <1>2, <1>4, <2>0, WorkCounts
  <2>2. Cardinality(Succeeding') = Cardinality(Succeeding)
    BY <1>1, <1>2, <1>4, <2>0, WorkCounts
  <2>3. /\ committed' = committed
        /\ Cardinality(committed \ WaitedFor) <= Cardinality(committed \ WaitedFor')
        /\ Cardinality(committed \ WaitedFor) \in Nat
        /\ Cardinality(committed \ WaitedFor') \in Nat
    <3>1. committed \ WaitedFor \in SUBSET (committed \ WaitedFor')
      BY <1>3
    <3>2. QED
      BY <1>1, <1>2, <3>1, CommittedFacts, FS_Subset DEF serverVars
  <2>4. Cardinality(Succeeding) \in Nat
    BY SucceedingFacts
  <2>5. success + Cardinality(Succeeding) <= Cardinality(committed \ WaitedFor')
    BY <1>2, <2>3, <2>4 DEF CountInv, LoadTypeOK
  <2>6. QED
    BY <1>1, <1>2, <2>1, <2>2, <2>3, <2>5 DEF CountInv
<1>6. DoneInv'
  BY <1>1, <1>2, NotDone DEF mainVars
<1>7. LoadTypeOK'
  BY <1>1, <1>2, WorkFacts DEF LoadTypeOK, serverVars, mainVars
<1>8. QED
  BY <1>1, <1>2, <1>3, <1>5, <1>6, <1>7, WorkerKeeps DEF LoadTypeOK

\* A worker learns that its batch is committed: one more success to count, and
\* one more committed batch that nobody waits for.
Accepted(w) == Answered(w) /\ state[worker[w].batch] = "ok"

LEMMA AcceptedSound ==
  ASSUME LoadInv, NEW w \in Worker, Accepted(w)
  PROVE  LoadInv'
<1> DEFINE j == [pc |-> "result", ok |-> TRUE, batch |-> "none"]
<1>1. /\ Running /\ worker[w].pc = "sent" /\ state[worker[w].batch] = "ok"
      /\ worker' = [worker EXCEPT ![w] = j] /\ j \in Job /\ j.pc = "result" /\ j.ok
      /\ UNCHANGED <<serverVars, mainVars, taken, success, failed, live>>
  BY DEF Accepted, Answered, Succeeded, Work, Job
<1>2. LoadTypeOK /\ BatchesInv /\ CountInv /\ DoneInv
  BY DEF LoadInv
<1> HIDE DEF j
<1>3. PICK b \in Batches : b = worker[w].batch
  BY <1>1, <1>2 DEF BatchesInv, At
<1>4. BatchesInv' /\ WaitedFor' = WaitedFor \ {b}
  BY <1>1, <1>2, <1>3, NoLongerWaiting DEF serverVars
<1>5. b \in WaitedFor /\ b \in committed
  BY <1>1, <1>2, <1>3 DEF BatchesInv, WaitedFor, At
<1>6. CountInv'
  <2>1. w \in Busy /\ w \notin Succeeding /\ j.pc \in Pending /\ Succeeds(j)
    BY <1>1 DEF Busy, Pending, Succeeding, Succeeds, At
  <2>2. Cardinality(Busy') = Cardinality(Busy)
    BY <1>1, <1>2, <2>1, WorkCounts
  <2>3. Cardinality(Succeeding') = Cardinality(Succeeding) + 1
    BY <1>1, <1>2, <2>1, WorkCounts
  <2> DEFINE C == committed \ WaitedFor
  <2>4. committed' \ WaitedFor' = C \union {b} /\ b \notin C
    BY <1>1, <1>4, <1>5 DEF serverVars
  <2>5. IsFiniteSet(C) /\ Cardinality(C) \in Nat
    BY <1>2, CommittedFacts
  <2> HIDE DEF C
  <2>6. Cardinality(C \union {b}) = Cardinality(C) + 1
    BY <2>4, <2>5, FS_AddElement
  <2>7. Cardinality(Succeeding) \in Nat
    BY SucceedingFacts
  <2>8. success + Cardinality(Succeeding) <= Cardinality(C)
    BY <1>2 DEF CountInv, C
  <2>9. success + (Cardinality(Succeeding) + 1) <= Cardinality(C) + 1
    BY <1>2, <2>5, <2>7, <2>8 DEF LoadTypeOK
  <2>10. QED
    BY <1>1, <1>2, <2>2, <2>3, <2>4, <2>6, <2>9 DEF CountInv
<1>7. DoneInv'
  BY <1>1, <1>2, NotDone DEF mainVars
<1>8. LoadTypeOK'
  BY <1>1, <1>2, WorkFacts DEF LoadTypeOK, serverVars, mainVars
<1>9. QED
  BY <1>1, <1>2, <1>4, <1>6, <1>7, <1>8, WorkerKeeps DEF LoadTypeOK

\* A worker counts what it has.
LEMMA RecordSound ==
  ASSUME LoadInv, NEW w \in Worker, Record(w)
  PROVE  LoadInv'
<1> DEFINE j == [pc |-> "idle", ok |-> FALSE, batch |-> "none"]
<1>1. /\ Running /\ worker[w].pc = "result"
      /\ worker' = [worker EXCEPT ![w] = j] /\ j \in Job /\ j.pc = "idle"
      /\ worker[w].ok => success' = success + 1 /\ failed' = failed
      /\ ~worker[w].ok => failed' = failed + 1 /\ success' = success
      /\ UNCHANGED <<serverVars, mainVars, taken, live>>
  BY DEF Record, Work, Job, AfterRecord
<1>2. LoadTypeOK /\ BatchesInv /\ CountInv /\ DoneInv
  BY DEF LoadInv
<1> HIDE DEF j
<1>3. BatchesInv' /\ WaitedFor' = WaitedFor
  BY <1>1, <1>2, NotWaiting DEF serverVars
<1>4. CountInv'
  <2>1. /\ w \in Busy /\ j.pc \notin Pending /\ ~Succeeds(j)
        /\ worker[w].ok <=> w \in Succeeding
    BY <1>1 DEF Busy, Pending, Succeeding, Succeeds, At
  <2>2. /\ Cardinality(Busy) = Cardinality(Busy') + 1
        /\ Cardinality(Busy) \in Nat /\ Cardinality(Busy') \in Nat
    BY <1>1, <1>2, <2>1, WorkCounts
  <2>3. /\ w \in Succeeding => Cardinality(Succeeding) = Cardinality(Succeeding') + 1
        /\ w \notin Succeeding => Cardinality(Succeeding') = Cardinality(Succeeding)
        /\ Cardinality(Succeeding) \in Nat /\ Cardinality(Succeeding') \in Nat
    BY <1>1, <1>2, <2>1, WorkCounts
  <2>4. success \in Nat /\ failed \in Nat /\ taken \in Nat
    BY <1>2 DEF LoadTypeOK
  <2>5. taken = success + failed + Cardinality(Busy)
    BY <1>2 DEF CountInv
  <2>6. taken' = success' + failed' + Cardinality(Busy')
    BY <1>1, <2>2, <2>4, <2>5
  <2>7. success' + Cardinality(Succeeding') = success + Cardinality(Succeeding)
    BY <1>1, <2>1, <2>3, <2>4
  <2>8. QED
    BY <1>1, <1>2, <1>3, <2>6, <2>7 DEF CountInv, serverVars
<1>5. DoneInv'
  BY <1>1, <1>2, NotDone DEF mainVars
<1>6. success' \in Nat /\ failed' \in Nat /\ success' >= success /\ failed' >= failed
  BY <1>1, <1>2 DEF LoadTypeOK
<1>7. LoadTypeOK'
  BY <1>1, <1>2, <1>6, WorkFacts DEF LoadTypeOK, serverVars, mainVars
<1>8. QED
  BY <1>1, <1>3, <1>4, <1>5, <1>6, <1>7, WorkerKeeps

LEMMA WorkerStepSound ==
  ASSUME LoadInv, NEW w \in Worker, WorkerStep(w)
  PROVE  LoadInv'
<1>1. Answered(w) => Accepted(w) \/ Refused(w)
  BY DEF Accepted, Refused
<1>2. QED
  BY <1>1, TakeSound, LeaveLoopSound, SendBatchSound, ErrorSound, AcceptedSound, RecordSound
     DEF WorkerStep

-----------------------------------------------------------------------------
(* The steps of main, of printLiveStats and of the server. *)

\* What does not touch the workers, the counters or the server.
LEMMA MainKeeps ==
  ASSUME LoadInv, UNCHANGED <<serverVars, workVars>>, produced' \in Nat,
         live' = live, DoneInv', SummaryInv'
  PROVE  LoadInv'
<1>1. LoadTypeOK'
  BY DEF LoadInv, LoadTypeOK, serverVars, workVars
<1>2. BatchesInv'
  BY DEF LoadInv, BatchesInv, At, serverVars, workVars
<1>3. CountInv'
  <2>1. Busy' = Busy /\ Succeeding' = Succeeding /\ WaitedFor' = WaitedFor
    BY DEF Busy, Succeeding, WaitedFor, At, workVars
  <2>2. QED
    BY <2>1 DEF LoadInv, CountInv, serverVars, workVars
<1>4. LiveInv'
  BY DEF LoadInv, LiveInv, workVars
<1>5. QED
  BY <1>1, <1>2, <1>3, <1>4 DEF LoadInv

LEMMA StartLoadSound ==
  ASSUME LoadInv, StartLoad
  PROVE  LoadInv'
<1>1. /\ producer = "seed" /\ producer' = "select"
      /\ worker' = [w \in Worker |-> [worker[w] EXCEPT !.pc = "idle"]]
      /\ live' = [live EXCEPT !.pc = "idle"]
      /\ UNCHANGED <<serverVars, produced, summary, taken, success, failed>>
  BY DEF StartLoad
<1>2. \A w \in Worker : worker[w].pc = "none"
  BY <1>1 DEF LoadInv, DoneInv
<1>3. worker' \in [Worker -> Job] /\ \A w \in Worker : worker'[w].pc = "idle"
  BY <1>1 DEF LoadInv, LoadTypeOK, Job
<1>4. /\ Busy' = Busy /\ Succeeding' = Succeeding /\ WaitedFor' = WaitedFor
      /\ At({"sent"})' = {} /\ At({"done"})' = {}
  BY <1>2, <1>3 DEF Busy, Pending, Succeeding, WaitedFor, At
<1>5. LoadTypeOK'
  BY <1>1, <1>3 DEF LoadInv, LoadTypeOK, Figures, serverVars
<1>6. BatchesInv'
  BY <1>1, <1>4 DEF LoadInv, BatchesInv, serverVars
<1>7. CountInv'
  BY <1>1, <1>4 DEF LoadInv, CountInv, serverVars
<1>8. DoneInv'
  BY <1>1, <1>4 DEF DoneInv
<1>9. LiveInv'
  BY <1>1 DEF LoadInv, LoadTypeOK, LiveInv, Figures
<1>10. SummaryInv'
  BY <1>1 DEF LoadInv, SummaryInv
<1>11. QED
  BY <1>5, <1>6, <1>7, <1>8, <1>9, <1>10 DEF LoadInv

\* The workers are done, so every token has been taken and none is pending.
LEMMA PrintSummarySound ==
  ASSUME LoadInv, PrintSummary
  PROVE  LoadInv'
<1>1. PICK w \in Worker : w \in At({"done"})
  BY TrafficAssumption DEF PrintSummary, WorkersDone, At
<1>2. taken = produced
  BY <1>1 DEF LoadInv, DoneInv
<1>3. Busy = {}
  BY DEF PrintSummary, WorkersDone, Busy, Pending, At
<1>4. Cardinality(Busy) = 0
  BY <1>3, FS_EmptySet
<1>5. success + failed = produced
  BY <1>2, <1>4 DEF LoadInv, LoadTypeOK, CountInv
<1>6. SummaryInv'
  BY <1>5 DEF PrintSummary, SummaryInv, workVars
<1>7. DoneInv'
  BY <1>2 DEF PrintSummary, DoneInv, At, workVars
<1>8. QED
  BY <1>6, <1>7, MainKeeps DEF PrintSummary, LoadInv, LoadTypeOK

LEMMA MainSound ==
  ASSUME LoadInv, Main \/ TimeIsUp \/ CloseChannel
  PROVE  LoadInv'
<1>1. CASE SeedFails
  <2>1. DoneInv' /\ SummaryInv'
    BY <1>1 DEF SeedFails, LoadInv, DoneInv, SummaryInv, At, workVars
  <2>2. QED
    BY <1>1, <2>1, MainKeeps DEF SeedFails, LoadInv, LoadTypeOK
<1>2. CASE TimeIsUp
  <2>1. DoneInv' /\ SummaryInv'
    BY <1>2 DEF TimeIsUp, LoadInv, DoneInv, SummaryInv, At, workVars
  <2>2. QED
    BY <1>2, <2>1, MainKeeps DEF TimeIsUp, LoadInv, LoadTypeOK
<1>3. CASE Tick
  <2>1. DoneInv' /\ SummaryInv'
    BY <1>3 DEF Tick, LoadInv, DoneInv, SummaryInv, At, workVars
  <2>2. QED
    BY <1>3, <2>1, MainKeeps DEF Tick, LoadInv, LoadTypeOK
<1>4. CASE SendToken
  <2>1. producer \in {"send", "select"} /\ producer' = "select" /\ produced' = produced + 1
    BY <1>4 DEF SendToken
  <2>2. DoneInv' /\ SummaryInv'
    BY <1>4, <2>1 DEF SendToken, LoadInv, DoneInv, SummaryInv, At, workVars
  <2>3. produced' \in Nat
    BY <2>1 DEF LoadInv, LoadTypeOK
  <2>4. QED
    BY <1>4, <2>2, <2>3, MainKeeps DEF SendToken
<1>5. CASE CloseChannel
  <2>1. DoneInv' /\ SummaryInv'
    BY <1>5 DEF CloseChannel, LoadInv, DoneInv, SummaryInv, At, workVars
  <2>2. QED
    BY <1>5, <2>1, MainKeeps DEF CloseChannel, LoadInv, LoadTypeOK
<1>6. QED
  BY <1>1, <1>2, <1>3, <1>4, <1>5, StartLoadSound, PrintSummarySound DEF Main

\* The live statistics load first the one counter and then the other: both are
\* what the counter was at some time.
LEMMA LiveSound ==
  ASSUME LoadInv, LoadSuccess \/ AddRow \/ EndLive
  PROVE  LoadInv'
<1>1. UNCHANGED <<serverVars, mainVars, workVars>>
  BY DEF LoadSuccess, AddRow, EndLive
<1>2. live' \in Figures /\ LiveInv'
  <2>1. /\ success \in Nat /\ failed \in Nat /\ success' = success /\ failed' = failed
        /\ live \in Figures
        /\ live.success = live.prevSuccess /\ live.failed = live.prevFailed
        /\ live.loaded <= success /\ live.prevSuccess <= success /\ live.prevFailed <= failed
    BY <1>1 DEF LoadInv, LoadTypeOK, LiveInv, workVars
  <2>2. CASE LoadSuccess
    <3>1. live' = [live EXCEPT !.pc = "loaded", !.loaded = success] /\ live' \in Figures
      BY <2>1, <2>2 DEF LoadSuccess, Figures
    <3>2. /\ live'.loaded = success
          /\ live'.prevSuccess = live.prevSuccess /\ live'.prevFailed = live.prevFailed
          /\ live'.success = live.success /\ live'.failed = live.failed
      BY <2>1, <3>1 DEF Figures
    <3>3. QED
      BY <2>1, <3>1, <3>2 DEF LiveInv
  <2>3. CASE AddRow
    <3>1. /\ live.success + (live.loaded - live.prevSuccess) = live.loaded
          /\ live.failed + (failed - live.prevFailed) = failed
      BY <2>1 DEF Figures
    <3>2. live' = [live EXCEPT !.pc = "idle", !.loaded = 0, !.success = live.loaded,
                               !.failed = failed, !.prevSuccess = live.loaded,
                               !.prevFailed = failed]
      BY <2>1, <2>3, <3>1 DEF AddRow
    <3>3. /\ live' \in Figures
          /\ live'.loaded = 0 /\ live'.prevSuccess = live.loaded /\ live'.prevFailed = failed
          /\ live'.success = live.loaded /\ live'.failed = failed
      BY <2>1, <3>2 DEF Figures
    <3>4. QED
      BY <2>1, <3>3 DEF LiveInv
  <2>4. CASE EndLive
    <3>1. live' = [live EXCEPT !.pc = "done"] /\ live' \in Figures
      BY <2>1, <2>4 DEF EndLive, Figures
    <3>2. /\ live'.loaded = live.loaded
          /\ live'.prevSuccess = live.prevSuccess /\ live'.prevFailed = live.prevFailed
          /\ live'.success = live.success /\ live'.failed = live.failed
      BY <2>1, <3>1 DEF Figures
    <3>3. QED
      BY <2>1, <3>1, <3>2 DEF LiveInv
  <2>5. QED
    BY <2>2, <2>3, <2>4
<1>3. Busy' = Busy /\ Succeeding' = Succeeding /\ WaitedFor' = WaitedFor
  BY <1>1 DEF Busy, Succeeding, WaitedFor, At, workVars
<1>4. LoadTypeOK'
  BY <1>1, <1>2 DEF LoadInv, LoadTypeOK, serverVars, mainVars, workVars
<1>5. BatchesInv' /\ DoneInv' /\ SummaryInv'
  BY <1>1 DEF LoadInv, BatchesInv, DoneInv, SummaryInv, At, serverVars, mainVars, workVars
<1>6. CountInv'
  BY <1>1, <1>3 DEF LoadInv, CountInv, serverVars, workVars
<1>7. QED
  BY <1>2, <1>4, <1>5, <1>6 DEF LoadInv

\* The server commits more, and what it answers with success is committed.
LEMMA ServerStepSound ==
  ASSUME LoadInv, ServerStep
  PROVE  LoadInv'
<1>1. UNCHANGED <<mainVars, workVars, live>>
  BY DEF ServerStep
<1>2. LoadTypeOK /\ BatchesInv /\ CountInv
  BY DEF LoadInv
<1>3. /\ state' \in [Batches -> {"new", "open"} \union Cycle!Outcomes]
      /\ committed' \subseteq Batches /\ committed \subseteq committed'
      /\ \A b \in Batches : /\ state'[b] = "new" => state[b] = "new" /\ b \notin committed'
                            /\ state'[b] = "ok" => b \in committed'
  <2>1. CASE Cycle!Stop
    BY <1>2, <2>1 DEF Cycle!Stop, LoadTypeOK, BatchesInv, Cycle!Outcomes
  <2>2. ASSUME NEW b \in Awaited, Cycle!Commit(b)
        PROVE  <1>3
    BY <1>2, <2>2 DEF Cycle!Commit, Awaited, LoadTypeOK, BatchesInv
  <2>3. ASSUME NEW b \in Awaited, NEW outcome \in {"ok", "failed"}, Cycle!Answer(b, outcome)
        PROVE  <1>3
    BY <1>2, <2>3 DEF Cycle!Answer, Awaited, LoadTypeOK, BatchesInv, Cycle!Outcomes
  <2>4. QED
    BY <2>1, <2>2, <2>3 DEF ServerStep
<1>4. /\ Busy' = Busy /\ Succeeding' = Succeeding /\ WaitedFor' = WaitedFor
      /\ At({"sent"})' = At({"sent"})
  BY <1>1 DEF Busy, Succeeding, WaitedFor, At, workVars
<1>5. LoadTypeOK'
  BY <1>1, <1>2, <1>3 DEF LoadTypeOK, mainVars, workVars
<1>6. BatchesInv'
  BY <1>1, <1>2, <1>3, <1>4 DEF BatchesInv, workVars
<1>7. CountInv'
  <2>1. /\ Cardinality(committed \ WaitedFor) <= Cardinality(committed' \ WaitedFor)
        /\ Cardinality(committed \ WaitedFor) \in Nat
        /\ Cardinality(committed' \ WaitedFor) \in Nat
    <3>1. committed \ WaitedFor \in SUBSET (committed' \ WaitedFor)
      BY <1>3
    <3>2. IsFiniteSet(committed' \ WaitedFor)
      BY <1>3, TrafficAssumption, FS_Subset
    <3>3. QED
      BY <3>1, <3>2, FS_Subset, FS_CardinalityType
  <2>2. Cardinality(Succeeding) \in Nat
    BY SucceedingFacts
  <2>3. success + Cardinality(Succeeding) <= Cardinality(committed' \ WaitedFor)
    BY <1>2, <2>1, <2>2 DEF CountInv, LoadTypeOK
  <2>4. QED
    BY <1>1, <1>2, <1>4, <2>3 DEF CountInv, workVars
<1>8. DoneInv' /\ LiveInv' /\ SummaryInv'
  BY <1>1 DEF LoadInv, DoneInv, LiveInv, SummaryInv, At, mainVars, workVars
<1>9. QED
  BY <1>5, <1>6, <1>7, <1>8 DEF LoadInv

-----------------------------------------------------------------------------
(* The theorems of the load. *)

LEMMA LoadInvInit == LoadInit => LoadInv
<1> SUFFICES ASSUME LoadInit PROVE LoadInv
  OBVIOUS
<1>1. \A w \in Worker : worker[w].pc = "none"
  BY DEF LoadInit
<1>2. Busy = {} /\ Succeeding = {} /\ WaitedFor = {} /\ At({"sent"}) = {} /\ At({"done"}) = {}
  BY <1>1 DEF Busy, Pending, Succeeding, WaitedFor, At
<1>3. LoadTypeOK
  BY DEF LoadInit, Cycle!Init, LoadTypeOK, Job, Figures
<1>4. BatchesInv
  BY <1>2 DEF LoadInit, Cycle!Init, BatchesInv
<1>5. CountInv
  <2>1. committed \ WaitedFor = {} /\ success = 0 /\ failed = 0 /\ taken = 0
    BY DEF LoadInit, Cycle!Init
  <2>2. Cardinality({}) = 0
    BY FS_EmptySet
  <2>3. QED
    BY <1>2, <2>1, <2>2 DEF CountInv
<1>6. DoneInv /\ LiveInv /\ SummaryInv
  BY <1>1, <1>2 DEF LoadInit, DoneInv, LiveInv, SummaryInv, NoSummary
<1>7. QED
  BY <1>3, <1>4, <1>5, <1>6 DEF LoadInv

LEMMA LoadInvStep == LoadInv /\ [LoadNext]_allVars => LoadInv'
<1> SUFFICES ASSUME LoadInv, [LoadNext]_allVars PROVE LoadInv'
  OBVIOUS
<1>1. CASE UNCHANGED loadVars
  BY <1>1 DEF LoadInv, LoadTypeOK, BatchesInv, CountInv, DoneInv, LiveInv, SummaryInv,
     Busy, Succeeding, WaitedFor, At, loadVars, serverVars, mainVars, workVars
<1>2. SeedNext \/ AccountsStep \/ UNCHANGED allVars => UNCHANGED loadVars
  BY DEF SeedNext, AccountsStep, allVars
<1>3. QED
  BY <1>1, <1>2, WorkerStepSound, MainSound, LiveSound, ServerStepSound
     DEF LoadNext, LoadStep

\* What printSummary prints adds up to the batches that were handed out, and no
\* more of them are called a success than the server has committed.
THEOREM LoadSummaryTrue == LoadSpec => []SummaryTrue
<1>1. LoadInv => SummaryTrue
  <2> SUFFICES ASSUME LoadInv, summary.printed PROVE SummaryTrue
    BY DEF SummaryTrue
  <2>1. /\ success \in Nat /\ failed \in Nat /\ live.success <= success
        /\ live.failed <= failed
    BY DEF LoadInv, LoadTypeOK, LiveInv, Figures
  <2>2. /\ summary.success = success /\ summary.failed = failed
        /\ success + failed = produced
    BY DEF LoadInv, SummaryInv
  <2>3. success <= Cardinality(committed)
    <3>1. /\ Cardinality(committed \ WaitedFor) \in Nat /\ Cardinality(committed) \in Nat
          /\ Cardinality(committed \ WaitedFor) <= Cardinality(committed)
      BY CommittedFacts DEF LoadInv
    <3>2. Cardinality(Succeeding) \in Nat
      BY SucceedingFacts
    <3>3. success + Cardinality(Succeeding) <= Cardinality(committed \ WaitedFor)
      BY DEF LoadInv, CountInv
    <3>4. QED
      BY <2>1, <3>1, <3>2, <3>3
  <2>4. QED
    BY <2>1, <2>2, <2>3 DEF SummaryTrue
<1>2. QED
  BY <1>1, LoadInvInit, LoadInvStep, PTL DEF LoadSpec

\* The load does nothing to the accounts that a client of the server may not do,
\* so what is proved of them holds under the load as well.
THEOREM LoadUsesAccounts == LoadSpec => AcctSpec
<1>1. [LoadNext]_allVars => [AcctNext]_acctVars
  <2> SUFFICES ASSUME LoadNext, ~UNCHANGED acctVars PROVE AcctNext
    BY DEF allVars
  <2>1. CASE SeedNext
    <3>1. Cardinality(Seeded) \in Nat /\ Cardinality(Seeded) < Len(Seeds)
      <4>1. Len(Seeds) \in Nat /\ DOMAIN Seeds = 1..Len(Seeds)
        BY TrafficAssumption, LenProperties
      <4>2. Seeded \in SUBSET (1..Len(Seeds)) /\ IsFiniteSet(1..Len(Seeds))
        BY <4>1, FS_Interval DEF Seeded
      <4>3. QED
        BY <2>1, <4>2, FS_Subset, FS_CardinalityType DEF SeedNext
    <3>2. Seeds[Cardinality(Seeded) + 1] \in Acct
      <4>1. Len(Seeds) \in Nat /\ DOMAIN Seeds = 1..Len(Seeds)
        BY TrafficAssumption, LenProperties
      <4>2. Cardinality(Seeded) + 1 \in 1..Len(Seeds)
        BY <3>1, <4>1
      <4>3. QED
        BY <4>1, <4>2, TrafficAssumption, ElementOfSeq
    <3>3. QED
      BY <2>1, <3>2 DEF SeedNext, AcctNext
  <2>2. CASE AccountsStep
    BY <2>2 DEF AccountsStep, AcctNext
  <2>3. CASE LoadStep /\ ~SeedNext
    BY <2>3 DEF LoadStep, TimeIsUp, CloseChannel, Main, SeedFails, StartLoad, Tick, SendToken,
       PrintSummary, WorkerStep, Take, LeaveLoop, SendBatch, Unreachable, Answered, GiveUp,
       Record, LoadSuccess, AddRow, EndLive, ServerStep
  <2>4. QED
    BY <2>1, <2>2, <2>3 DEF LoadNext
<1>2. QED
  BY <1>1, PTL DEF LoadSpec, AcctSpec

\* The server the load is sent to is any server that keeps the promises of
\* RequestCycle, which the Server with its pool and its shutdown implements.
THEOREM LoadUsesRequestCycle == LoadSpec => Cycle!Spec
<1>1. LoadInit => Cycle!Init
  BY DEF LoadInit
<1>2. [LoadNext]_allVars => [Cycle!Next]_(Cycle!cycleVars)
  <2> SUFFICES ASSUME LoadNext, ~UNCHANGED <<up, state, committed>> PROVE Cycle!Next
    BY DEF allVars, loadVars, serverVars, Cycle!cycleVars
  <2>1. CASE \E w \in Worker : SendBatch(w)
    BY <2>1 DEF SendBatch, Cycle!Next, Cycle!CycleStep
  <2>2. CASE ServerStep
    BY <2>2 DEF ServerStep, Awaited, Cycle!Next, Cycle!CycleStep, Cycle!Outcomes
  <2>3. CASE LoadNext /\ ~ServerStep /\ ~\E w \in Worker : SendBatch(w)
    BY <2>3 DEF LoadNext, AccountsStep, LoadStep, SeedNext, TimeIsUp, CloseChannel, Main,
       SeedFails, StartLoad, Tick, SendToken, PrintSummary, WorkerStep, Take, LeaveLoop,
       Unreachable, Answered, GiveUp, Record, LoadSuccess, AddRow, EndLive, loadVars, serverVars
  <2>4. QED
    BY <2>1, <2>2, <2>3
<1>3. QED
  BY <1>1, <1>2, PTL DEF LoadSpec, Cycle!Spec

=============================================================================
