------------------- MODULE TransactionProcessorProofs -------------------
(***************************************************************************)
(* Proofs about the transaction processor, for any sessions, requests,     *)
(* transactions, keys and number of retries: it is well typed; it          *)
(* implements the atomic ledger, whose theorems it therefore inherits; and *)
(* what it tells its clients and the publisher is true.                    *)
(***************************************************************************)
EXTENDS TransactionProcessor, SequenceTheorems, TLAPS

LP == INSTANCE LedgerProofs

-----------------------------------------------------------------------------
(* Requests and sessions. *)

Inserting == {"post", "batch", "reverse"}
OnTarget  == {"settle", "cancel", "reverse"}

\* What a request is: which operations have items and which have a target.
LEMMA RequestFacts ==
  ASSUME NEW r \in Requests \union {NoRequest}
  PROVE  /\ r.op \in {"none"} \union Inserting \union OnTarget
         /\ r.items \in Seq(Item)
         /\ r.target \in Txn \union {NoTxn}
         /\ r.op \in Inserting => Len(r.items) \in Nat \ {0}
         /\ r.op \in {"post", "reverse"} => Len(r.items) = 1
         /\ r.op \in OnTarget <=> r.target \in Txn
         /\ r.op = "none" <=> r = NoRequest
<1> USE NullsAssumption DEF Inserting, OnTarget
<1>1. CASE r = NoRequest
  BY <1>1, EmptySeq DEF NoRequest
<1>2. CASE r \in Requests
  <2>1. r \in ValidRequests
    BY <1>2, RequestsAssumption
  <2>2. \A s \in OneItem \union SomeItems : s \in Seq(Item) /\ Len(s) \in Nat \ {0}
    <3>1. \A s \in Seq(Item) : Len(s) \in Nat
      BY LenProperties
    <3>2. QED
      BY <3>1 DEF OneItem, SomeItems
  <2>3. \A s \in OneItem : Len(s) = 1
    BY DEF OneItem
  <2>4. <<>> \in Seq(Item)
    BY EmptySeq
  <2>5. r.op # "none" /\ r # NoRequest
    BY <2>1 DEF ValidRequests, NoRequest
  <2>6. QED
    BY <2>1, <2>2, <2>3, <2>4, <2>5 DEF ValidRequests
<1>3. QED
  BY <1>1, <1>2

\* How far a session's fields have come when it stands at a statement: loops
\* stay within their items, and every item has its transaction once inserted.
Shape(s) ==
  /\ s.pc # "idle" => s.req.op # "none"
  /\ s.pc \in {"check", "delete", "insert", "record"} => s.req.op \in Inserting
  /\ s.pc = "lock" => s.req.op \in OnTarget
  /\ s.pc \in {"check", "delete", "record"} => s.idx <= Len(s.req.items)
  /\ s.pc \in {"begin", "lock", "insert", "commit"} => s.idx = 1
  /\ s.pc \notin {"insert", "publish", "commit", "record"} => s.ids = <<>>
  /\ s.pc \notin Writing => s.work = NothingWritten
  /\ s.pc = "insert" => Len(s.ids) < Len(s.req.items)
  /\ s.pc \in {"publish", "commit", "record"} /\ s.req.op \in Inserting =>
       Len(s.ids) = Len(s.req.items)
  /\ s.pc = "publish" =>
       s.idx <= IF s.req.op \in {"settle", "cancel"} THEN 1 ELSE Len(s.ids)

TypeInv == TypeOK /\ \A p \in Proc : Shape(session[p])

\* The constant rows and the empty sequences are typed.
LEMMA RowConstants ==
  /\ NoRow \in Row
  /\ NothingWritten \in [Txn -> Row]
  /\ \A k \in Key \union {NoKey}, st \in Posted, t \in Txn \union {NoTxn} :
       NewRow(k, st, t) \in Row
  /\ \A row \in Row : SettledRow(row) \in Row /\ CancelledRow(row) \in Row
  /\ \A row \in Row, t \in Txn : ReversedRow(row, t) \in Row
BY DEF NoRow, Row, NothingWritten, NewRow, SettledRow, CancelledRow, ReversedRow, States, Posted

\* An idle session is typed and shaped.
LEMMA IdleShape == Idle \in Session /\ Shape(Idle)
BY RowConstants, EmptySeq DEF Idle, Session, Pc, Shape, NoRequest, Writing

\* A step of one session touches its own record only.
LEMMA BecomeShape ==
  ASSUME TypeInv, NEW p \in Proc, NEW s \in Session, Shape(s), Become(p, s)
  PROVE  session' \in [Proc -> Session] /\ \A q \in Proc : Shape(session'[q])
BY DEF TypeInv, TypeOK, Become

\* The end of a request leaves the session idle.
LEMMA EndShape ==
  ASSUME TypeInv, NEW p \in Proc, End(p)
  PROVE  session' \in [Proc -> Session] /\ \A q \in Proc : Shape(session'[q])
BY IdleShape, BecomeShape DEF End

\* The facts about the session of p that every step below starts from.
LEMMA SessionFacts ==
  ASSUME TypeInv, NEW p \in Proc
  PROVE  /\ session[p] \in Session /\ Shape(session[p])
         /\ Op(p) \in {"none"} \union Inserting \union OnTarget
         /\ Items(p) \in Seq(Item)
         /\ Target(p) \in Txn \union {NoTxn}
         /\ Op(p) \in Inserting => Len(Items(p)) \in Nat \ {0}
         /\ Op(p) \in {"post", "reverse"} => Len(Items(p)) = 1
         /\ Op(p) \in OnTarget <=> Target(p) \in Txn
         /\ session[p].ids \in Seq(Txn) /\ Len(session[p].ids) \in Nat
         /\ \A i \in 1..Len(Items(p)) : Items(p)[i] \in Item
         /\ \A i \in 1..Len(session[p].ids) : session[p].ids[i] \in Txn
<1>1. session[p] \in Session /\ Shape(session[p])
  BY DEF TypeInv, TypeOK
<1>2. session[p].req \in Requests \union {NoRequest}
  BY <1>1 DEF Session
<1>3. session[p].ids \in Seq(Txn)
  BY <1>1 DEF Session
<1>4. QED
  BY <1>1, <1>2, <1>3, RequestFacts, ElementOfSeq, LenProperties DEF Op, Items, Target

-----------------------------------------------------------------------------
(* Each action keeps TypeInv. *)

\* A new request is typed.
LEMMA ReceiveType ==
  ASSUME TypeInv, NEW p \in Proc, Receive(p) PROVE TypeInv'
<1> PICK r \in Requests :
      Become(p, [Idle EXCEPT !.req = r,
                   !.pc = IF r.op \in {"settle", "cancel"} THEN "begin" ELSE "check"])
  BY DEF Receive
<1> DEFINE s == [Idle EXCEPT !.req = r,
                   !.pc = IF r.op \in {"settle", "cancel"} THEN "begin" ELSE "check"]
<1>1. /\ r.op \in Inserting \union OnTarget
      /\ r.op \in Inserting => Len(r.items) \in Nat \ {0}
  BY RequestFacts, RequestsAssumption DEF ValidRequests, Inserting, OnTarget
<1>2. s \in Session /\ Shape(s)
  <2>1. Idle \in Session /\ s.idx = 1 /\ s.ids = <<>> /\ s.work = NothingWritten
    BY IdleShape DEF Idle
  <2>2. s \in Session
    BY <2>1 DEF Session, Pc
  <2>3. s.req = r /\ s.pc = IF r.op \in {"settle", "cancel"} THEN "begin" ELSE "check"
    BY <2>1 DEF Idle
  <2>4. s.pc = "check" => r.op \in Inserting /\ 1 <= Len(r.items)
    BY <1>1, <2>3 DEF Inserting, OnTarget
  <2>5. QED
    BY <1>1, <2>1, <2>2, <2>3, <2>4 DEF Shape, Writing, Inserting, OnTarget
<1>3. session' \in [Proc -> Session] /\ \A q \in Proc : Shape(session'[q])
  BY <1>2, BecomeShape
<1>4. QED
  BY <1>3 DEF Receive, TypeInv, TypeOK, LedgerTypeOK

\* A session stays one under a change of its statement and its loop's item.
LEMMA MovedSession ==
  ASSUME NEW s \in Session, NEW pc \in Pc, NEW i \in Nat \ {0}
  PROVE  [s EXCEPT !.pc = pc, !.idx = i] \in Session
BY DEF Session

\* Going on to the next key, or to the transaction, is shaped.
LEMMA NextCheckShape ==
  ASSUME TypeInv, NEW p \in Proc, session[p].pc \in {"check", "delete"}, NextCheck(p)
  PROVE  session' \in [Proc -> Session] /\ \A q \in Proc : Shape(session'[q])
<1>1. /\ session[p].idx \in Nat \ {0} /\ Len(Items(p)) \in Nat \ {0}
      /\ session[p] \in Session /\ Op(p) \in Inserting
  BY SessionFacts DEF Session, Shape, Op
<1>2. CASE session[p].idx < Len(Items(p))
  <2> DEFINE s == [session[p] EXCEPT !.pc = "check", !.idx = @ + 1]
  <2>1. s \in Session
    BY <1>1, session[p].idx + 1 \in Nat \ {0}, MovedSession DEF Pc
  <2>2. Shape(s)
    BY <1>1, <1>2, SessionFacts DEF Session, Shape, Items, Op, Writing
  <2>3. QED
    BY <1>2, <2>1, <2>2, BecomeShape DEF NextCheck
<1>3. CASE ~(session[p].idx < Len(Items(p)))
  <2> DEFINE s == [session[p] EXCEPT !.pc = "begin", !.idx = 1]
  <2>1. s \in Session
    BY <1>1, 1 \in Nat \ {0}, MovedSession DEF Pc
  <2>2. Shape(s)
    BY <1>1, SessionFacts DEF Session, Shape, Items, Op, Writing, Inserting
  <2>3. QED
    BY <1>3, <2>1, <2>2, BecomeShape DEF NextCheck
<1>4. QED
  BY <1>2, <1>3

\* The item a loop over the items stands at.
LEMMA CurrentItem ==
  ASSUME TypeInv, NEW p \in Proc, session[p].pc \in {"check", "delete", "record"}
  PROVE  /\ session[p].idx \in 1..Len(Items(p))
         /\ KeyAt(p) \in Key \union {NoKey}
<1>1. session[p].idx \in Nat \ {0} /\ session[p].idx <= Len(Items(p))
  BY SessionFacts DEF Session, Shape, Items
<1>2. Len(Items(p)) \in Nat
  BY SessionFacts, LenProperties
<1>3. session[p].idx \in 1..Len(Items(p))
  BY <1>1, <1>2
<1>4. Items(p)[session[p].idx] \in Item
  BY <1>3, SessionFacts
<1>5. QED
  BY <1>3, <1>4 DEF KeyAt, Item

\* CheckAndReserve keeps the types.
LEMMA CheckKeyType ==
  ASSUME TypeInv, NEW p \in Proc, CheckKey(p) PROVE TypeInv'
<1>1. session[p].pc = "check" /\ KeyAt(p) \in Key \union {NoKey}
  BY CurrentItem DEF CheckKey, At
<1>2. session' \in [Proc -> Session] /\ \A q \in Proc : Shape(session'[q])
  <2>1. CASE NextCheck(p)
    BY <1>1, <2>1, NextCheckShape
  <2>2. CASE Goto(p, "delete")
    <3> DEFINE s == [session[p] EXCEPT !.pc = "delete"]
    <3>1. s \in Session /\ Shape(s)
      BY <1>1, SessionFacts DEF Session, Pc, Shape, Writing
    <3>2. QED
      BY <2>2, <3>1, BecomeShape DEF Goto
  <2>3. CASE End(p)
    BY <2>3, EndShape
  <2>4. QED
    BY <2>1, <2>2, <2>3 DEF CheckKey
<1>3. answers' \subseteq Key \X Txn
  <2>1. CASE UNCHANGED answers
    BY <2>1 DEF TypeInv, TypeOK
  <2>2. CASE /\ HasKey(KeyAt(p))
             /\ idem[KeyAt(p)] # NoRecord
             /\ answers' = answers \union {<<KeyAt(p), idem[KeyAt(p)].txn>>}
    <3>1. KeyAt(p) \in Key
      BY <1>1, <2>2 DEF HasKey
    <3>2. idem[KeyAt(p)].txn \in Txn
      BY <2>2, <3>1 DEF TypeInv, TypeOK
    <3>3. QED
      BY <2>2, <3>1, <3>2 DEF TypeInv, TypeOK
  <2>3. QED
    BY <2>1, <2>2 DEF CheckKey
<1>4. QED
  BY <1>2, <1>3 DEF CheckKey, TypeInv, TypeOK, LedgerTypeOK

\* The deletion of an expired record keeps the types.
LEMMA DeleteExpiredType ==
  ASSUME TypeInv, NEW p \in Proc, DeleteExpired(p) PROVE TypeInv'
<1>1. session' \in [Proc -> Session] /\ \A q \in Proc : Shape(session'[q])
  BY NextCheckShape DEF DeleteExpired, At
<1>2. idem' \in [Key -> [txn : Txn, expired : BOOLEAN] \union {NoRecord}]
  BY DEF DeleteExpired, TypeInv, TypeOK
<1>3. QED
  BY <1>1, <1>2 DEF DeleteExpired, TypeInv, TypeOK, LedgerTypeOK

\* The begin of a transaction keeps the types.
LEMMA BeginType ==
  ASSUME TypeInv, NEW p \in Proc, Begin(p) PROVE TypeInv'
<1>1. session[p].pc = "begin"
  BY DEF Begin, At
<1>2. session' \in [Proc -> Session] /\ \A q \in Proc : Shape(session'[q])
  <2>1. CASE Op(p) \in {"post", "batch"} /\ Goto(p, "insert")
    <3> DEFINE s == [session[p] EXCEPT !.pc = "insert"]
    <3>1. s \in Session
      BY SessionFacts DEF Session, Pc
    <3>2. Len(Items(p)) \in Nat \ {0} /\ session[p].ids = <<>> /\ Len(<<>>) = 0
      BY <1>1, <2>1, SessionFacts, EmptySeq DEF Shape, Inserting
    <3>3. Shape(s)
      BY <1>1, <2>1, <3>2, SessionFacts DEF Session, Shape, Op, Items, Inserting, Writing
    <3>4. QED
      BY <2>1, <3>1, <3>3, BecomeShape DEF Goto
  <2>2. CASE /\ Op(p) \notin {"post", "batch"}
             /\ Become(p, [session[p] EXCEPT !.pc = "lock", !.seen = ledger[Target(p)]])
             /\ Exists(Target(p))
    <3> DEFINE s == [session[p] EXCEPT !.pc = "lock", !.seen = ledger[Target(p)]]
    <3>1. Op(p) \in OnTarget
      BY <1>1, <2>2, SessionFacts DEF Shape, Op, Inserting, OnTarget
    <3>2. ledger[Target(p)] \in Row
      BY <3>1, SessionFacts DEF TypeInv, TypeOK, LedgerTypeOK
    <3>3. s \in Session
      BY <3>2, SessionFacts DEF Session, Pc
    <3>4. Shape(s)
      BY <1>1, <3>1, SessionFacts DEF Session, Shape, Op, Writing
    <3>5. QED
      BY <2>2, <3>3, <3>4, BecomeShape
  <2>3. CASE End(p)
    BY <2>3, EndShape
  <2>4. QED
    BY <2>1, <2>2, <2>3 DEF Begin
<1>3. QED
  BY <1>2 DEF Begin, TypeInv, TypeOK, LedgerTypeOK

\* The row lock and the update of settle and cancel keep the types.
LEMMA LockTargetType ==
  ASSUME TypeInv, NEW p \in Proc, LockTarget(p) PROVE TypeInv'
<1>1. /\ session[p].pc = "lock" /\ Op(p) \in OnTarget /\ Target(p) \in Txn
      /\ session[p] \in Session
  BY SessionFacts DEF LockTarget, At, Shape, Op
<1>2. session' \in [Proc -> Session] /\ \A q \in Proc : Shape(session'[q])
  <2>1. CASE Op(p) = "reverse" /\ Goto(p, "insert")
    <3> DEFINE s == [session[p] EXCEPT !.pc = "insert"]
    <3>1. s \in Session
      BY <1>1 DEF Session, Pc
    <3>2. Len(Items(p)) = 1 /\ session[p].ids = <<>> /\ Len(<<>>) = 0
      BY <1>1, <2>1, SessionFacts, EmptySeq DEF Shape
    <3>3. Shape(s)
      BY <1>1, <2>1, <3>2, SessionFacts DEF Session, Shape, Op, Items, Inserting, Writing
    <3>4. QED
      BY <2>1, <3>1, <3>3, BecomeShape DEF Goto
  <2>2. CASE /\ Op(p) # "reverse"
             /\ Become(p, [session[p] EXCEPT !.pc = "publish",
                                             !.work[Target(p)] = NewTarget(p)])
    <3> DEFINE s == [session[p] EXCEPT !.pc = "publish",
                                       !.work[Target(p)] = NewTarget(p)]
    <3>1. NewTarget(p) \in Row
      BY <1>1, RowConstants DEF NewTarget, Session
    <3>2. s \in Session
      BY <1>1, <3>1 DEF Session, Pc
    <3>3. Shape(s)
      BY <1>1, <2>2, SessionFacts DEF Session, Shape, Op, OnTarget, Inserting, Writing
    <3>4. QED
      BY <2>2, <3>2, <3>3, BecomeShape
  <2>3. CASE End(p)
    BY <2>3, EndShape
  <2>4. QED
    BY <2>1, <2>2, <2>3 DEF LockTarget
<1>3. QED
  BY <1>2 DEF LockTarget, TypeInv, TypeOK, LedgerTypeOK

\* Refusals and failures keep the types.
LEMMA RefusalType ==
  ASSUME TypeInv, NEW p \in Proc, Refuse(p) \/ OutOfIds(p) \/ Fail(p)
  PROVE  TypeInv'
BY EndShape DEF Refuse, OutOfIds, Fail, TypeInv, TypeOK, LedgerTypeOK

\* What Insert makes of a session.
LEMMA InsertedShape ==
  ASSUME TypeInv, NEW p \in Proc, session[p].pc = "insert", NEW t \in Txn
  PROVE  Inserted(p, t) \in Session /\ Shape(Inserted(p, t))
<1> DEFINE s == session[p]
           row == NewRow(NextItem(p).key, NextItem(p).state, Target(p))
           work == IF Op(p) = "reverse"
                   THEN [[s.work EXCEPT ![t] = row]
                           EXCEPT ![Target(p)] = ReversedRow(s.seen, t)]
                   ELSE [s.work EXCEPT ![t] = row]
           ids == Append(s.ids, t)
           pc == IF Len(s.ids) + 1 = Len(Items(p)) THEN "publish" ELSE "insert"
<1>1. s \in Session /\ Shape(s) /\ Op(p) \in Inserting
  BY SessionFacts DEF Shape, Op
<1>2. /\ Len(s.ids) \in Nat /\ Len(Items(p)) \in Nat /\ Len(s.ids) < Len(Items(p))
      /\ s.idx = 1
  BY <1>1, SessionFacts DEF Shape, Items
<1>3. row \in Row
  <2>1. Len(s.ids) + 1 \in 1..Len(Items(p))
    BY <1>2
  <2>2. NextItem(p) \in Item
    BY <2>1, SessionFacts DEF NextItem
  <2>3. QED
    BY <2>2, SessionFacts, RowConstants DEF Item
<1>4. work \in [Txn -> Row]
  BY <1>1, <1>3, RowConstants DEF Session
<1>5. ids \in Seq(Txn) /\ Len(ids) = Len(s.ids) + 1
  BY <1>1, AppendProperties DEF Session
<1>6. Inserted(p, t) = [s EXCEPT !.ids = ids, !.work = work, !.pc = pc]
  BY DEF Inserted
<1> HIDE DEF work, ids, row
<1>7. Inserted(p, t) \in Session
  BY <1>1, <1>4, <1>5, <1>6 DEF Session, Pc
<1>8. Shape(Inserted(p, t))
  <2> DEFINE s2 == Inserted(p, t)
  <2>1. /\ s2.req = s.req /\ s2.idx = 1 /\ s2.pc \in {"publish", "insert"}
        /\ Len(s2.ids) = Len(s.ids) + 1
        /\ s2.pc = "publish" <=> Len(s2.ids) = Len(s.req.items)
    BY <1>1, <1>2, <1>5, <1>6 DEF Session, Items
  <2>2. Len(s2.ids) \in 1..Len(s.req.items)
    BY <1>2, <2>1 DEF Items
  <2>3. s.req.op \in Inserting
    BY <1>1 DEF Op
  <2> HIDE DEF s2
  <2>4. s2.pc = "insert" => Len(s2.ids) < Len(s.req.items)
    BY <1>2, <2>1, <2>2 DEF Items
  <2>5. Shape(s2)
    BY <1>2, <2>1, <2>2, <2>3, <2>4 DEF Shape, Inserting, Writing
  <2>6. QED
    BY <2>5 DEF s2
<1>9. QED
  BY <1>7, <1>8

\* An insertion keeps the types.
LEMMA InsertType ==
  ASSUME TypeInv, NEW p \in Proc, Insert(p) PROVE TypeInv'
<1>1. session' \in [Proc -> Session] /\ \A q \in Proc : Shape(session'[q])
  <2>1. CASE End(p)
    BY <2>1, EndShape
  <2>2. CASE \E t \in Fresh : Become(p, Inserted(p, t))
    <3> PICK t \in Txn : Become(p, Inserted(p, t))
      BY <2>2 DEF Fresh
    <3> QED
      BY InsertedShape, BecomeShape DEF Insert, At
  <2>3. QED
    BY <2>1, <2>2 DEF Insert
<1>2. QED
  BY <1>1 DEF Insert, TypeInv, TypeOK, LedgerTypeOK

\* The transactions a request has events for.
LEMMA SubjectFacts ==
  ASSUME TypeInv, NEW p \in Proc, session[p].pc = "publish"
  PROVE  /\ session[p].idx \in 1..Len(Subjects(p)) /\ Len(Subjects(p)) \in Nat
         /\ Subjects(p)[session[p].idx] \in Txn
         /\ Op(p) \in OnTarget \union Inserting
         /\ Op(p) \in Inserting <=> Op(p) \notin {"settle", "cancel"}
         /\ Op(p) \in Inserting => Subjects(p) = session[p].ids
         /\ Op(p) \notin Inserting => Subjects(p) = <<Target(p)>>
<1>1. session[p].idx \in Nat \ {0} /\ Op(p) \in OnTarget \union Inserting
  BY SessionFacts DEF Session, Shape, Op
<1>2. CASE Op(p) \in {"settle", "cancel"}
  <2>1. Subjects(p) = <<Target(p)>> /\ Target(p) \in Txn
    BY <1>2, SessionFacts DEF Subjects, OnTarget
  <2>2. session[p].idx = 1
    BY <1>1, <1>2, SessionFacts DEF Shape, Op
  <2>3. QED
    BY <1>1, <1>2, <2>1, <2>2 DEF Inserting
<1>3. CASE Op(p) \notin {"settle", "cancel"}
  <2>1. Subjects(p) = session[p].ids /\ session[p].idx <= Len(session[p].ids)
    BY <1>3, SessionFacts DEF Subjects, Shape, Op
  <2>2. Len(session[p].ids) \in Nat
    BY SessionFacts
  <2>3. session[p].idx \in 1..Len(session[p].ids)
    BY <1>1, <2>1, <2>2
  <2>4. session[p].ids[session[p].idx] \in Txn
    BY <2>3, SessionFacts
  <2>5. QED
    BY <1>1, <1>3, <2>1, <2>2, <2>3, <2>4 DEF Inserting, OnTarget
<1>4. QED
  BY <1>2, <1>3

\* A publication keeps the types.
LEMMA PublishType ==
  ASSUME TypeInv, NEW p \in Proc, Publish(p) PROVE TypeInv'
<1>1. session[p].pc = "publish" /\ session[p] \in Session /\ session[p].idx \in Nat \ {0}
  BY SessionFacts DEF Publish, At, Session
<1>2. session' \in [Proc -> Session] /\ \A q \in Proc : Shape(session'[q])
  <2>1. CASE session[p].idx < Len(Subjects(p))
    <3> DEFINE s == [session[p] EXCEPT !.idx = session[p].idx + 1]
    <3>1. s \in Session
      BY <1>1 DEF Session
    <3>2. s.idx <= Len(Subjects(p))
      BY <1>1, <2>1, SubjectFacts DEF Session
    <3>3. Op(p) \in {"settle", "cancel"} => Len(Subjects(p)) = 1
      BY <1>1, SubjectFacts
    <3>4. Shape(s)
      BY <1>1, <3>2, <3>3, SubjectFacts, SessionFacts
      DEF Session, Shape, Op, Items, Inserting, Writing
    <3>5. QED
      BY <2>1, <3>1, <3>4, BecomeShape DEF Publish
  <2>2. CASE ~(session[p].idx < Len(Subjects(p)))
    <3> DEFINE s == [session[p] EXCEPT !.pc = "commit", !.idx = 1]
    <3>1. s \in Session
      BY <1>1, 1 \in Nat \ {0}, MovedSession DEF Pc
    <3>2. Shape(s)
      BY <1>1, SessionFacts DEF Session, Shape, Op, Items, Inserting, Writing
    <3>3. QED
      BY <2>2, <3>1, <3>2, BecomeShape DEF Publish
  <2>3. QED
    BY <2>1, <2>2
<1>3. published' \subseteq
        [type : {"posted", "settled", "cancelled", "reversed"}, txn : Txn]
  <2>1. EventType(Op(p)) \in {"posted", "settled", "cancelled", "reversed"}
    BY <1>1, SubjectFacts DEF EventType, OnTarget, Inserting
  <2>2. Subjects(p)[session[p].idx] \in Txn
    BY <1>1, SubjectFacts
  <2>3. QED
    BY <2>1, <2>2 DEF Publish, TypeInv, TypeOK
<1>4. QED
  BY <1>2, <1>3 DEF Publish, TypeInv, TypeOK, LedgerTypeOK

\* A commit keeps the types.
LEMMA CommitType ==
  ASSUME TypeInv, NEW p \in Proc, Commit(p) PROVE TypeInv'
<1>1. session[p].pc = "commit" /\ session[p] \in Session
  BY SessionFacts DEF Commit, At
<1>2. LedgerTypeOK'
  BY <1>1 DEF Commit, Committed, Session, TypeInv, TypeOK, LedgerTypeOK
<1>3. session' \in [Proc -> Session] /\ \A q \in Proc : Shape(session'[q])
  <2>1. CASE End(p)
    BY <2>1, EndShape
  <2>2. CASE /\ Op(p) \notin {"settle", "cancel"}
             /\ Become(p, [session[p] EXCEPT !.pc = "record", !.work = NothingWritten])
    <3> DEFINE s == [session[p] EXCEPT !.pc = "record", !.work = NothingWritten]
    <3>1. s \in Session
      BY <1>1, RowConstants DEF Session, Pc
    <3>2. /\ s.pc = "record" /\ s.work = NothingWritten
          /\ s.req = session[p].req /\ s.ids = session[p].ids /\ s.idx = session[p].idx
      BY <1>1 DEF Session
    <3>3. Op(p) \in Inserting /\ session[p].idx = 1 /\ Len(session[p].ids) = Len(Items(p))
      BY <1>1, <2>2, SessionFacts DEF Shape, Op, Items, Inserting, OnTarget
    <3>4. Len(Items(p)) \in Nat \ {0}
      BY <3>3, SessionFacts
    <3>5. Shape(s)
      BY <3>2, <3>3, <3>4 DEF Shape, Op, Items, Inserting
    <3>6. QED
      BY <2>2, <3>1, <3>5, BecomeShape
  <2>3. QED
    BY <2>1, <2>2 DEF Commit
<1>4. QED
  BY <1>2, <1>3 DEF Commit, TypeInv, TypeOK

\* RecordSuccess keeps the types.
LEMMA RecordSuccessType ==
  ASSUME TypeInv, NEW p \in Proc, RecordSuccess(p) PROVE TypeInv'
<1>1. /\ session[p].pc = "record" /\ session[p] \in Session
      /\ session[p].idx \in 1..Len(Items(p)) /\ session[p].idx \in Nat \ {0}
      /\ KeyAt(p) \in Key \union {NoKey} /\ Len(Items(p)) \in Nat
      /\ Len(session[p].ids) = Len(Items(p)) /\ Op(p) \in Inserting
  BY SessionFacts, CurrentItem DEF RecordSuccess, At, Shape, Items, Op, Session
<1>2. \A i \in 1..Len(Items(p)) : session[p].ids[i] \in Txn /\ Items(p)[i] \in Item
  BY <1>1, SessionFacts
<1>3. session' \in [Proc -> Session] /\ \A q \in Proc : Shape(session'[q])
  <2>1. CASE /\ session[p].idx < Len(Items(p))
             /\ Become(p, [session[p] EXCEPT !.idx = @ + 1])
    <3> DEFINE s == [session[p] EXCEPT !.idx = @ + 1]
    <3>1. s \in Session
      BY <1>1, session[p].idx + 1 \in Nat \ {0} DEF Session
    <3>2. s.idx <= Len(Items(p))
      BY <1>1, <2>1 DEF Session
    <3>3. Shape(s)
      BY <1>1, <3>2, SessionFacts DEF Session, Shape, Op, Items, Inserting, Writing
    <3>4. QED
      BY <2>1, <3>1, <3>3, BecomeShape
  <2>2. CASE End(p)
    BY <2>2, EndShape
  <2>3. QED
    BY <2>1, <2>2 DEF RecordSuccess
<1>4. idem' \in [Key -> [txn : Txn, expired : BOOLEAN] \union {NoRecord}]
  <2>1. HasKey(KeyAt(p)) => KeyAt(p) \in Key
    BY <1>1 DEF HasKey
  <2>2. session[p].ids[session[p].idx] \in Txn
    BY <1>1, <1>2
  <2>3. CASE HasKey(KeyAt(p)) /\ idem' = Recorded(p)
    <3>1. [txn |-> session[p].ids[session[p].idx], expired |-> FALSE]
            \in [txn : Txn, expired : BOOLEAN]
      BY <2>2
    <3>2. QED
      BY <2>1, <2>3, <3>1 DEF Recorded, TypeInv, TypeOK
  <2>4. QED
    BY <2>3 DEF RecordSuccess, TypeInv, TypeOK
<1>5. answers' \subseteq Key \X Txn
  <2>1. Answered(p) \subseteq Key \X Txn
    <3>1. DOMAIN Items(p) = 1..Len(Items(p))
      BY SessionFacts, LenProperties
    <3>2. \A i \in DOMAIN Items(p) : HasKey(Items(p)[i].key) => Items(p)[i].key \in Key
      BY <1>2, <3>1 DEF HasKey, Item
    <3>3. QED
      BY <1>2, <3>1, <3>2 DEF Answered
  <2>2. QED
    BY <2>1 DEF RecordSuccess, TypeInv, TypeOK
<1>6. QED
  BY <1>3, <1>4, <1>5 DEF RecordSuccess, TypeInv, TypeOK, LedgerTypeOK

\* An abort, with the retry of a post, keeps the types.
LEMMA DbAbortType ==
  ASSUME TypeInv, NEW p \in Proc, DbAbort(p) PROVE TypeInv'
<1>1. session[p] \in Session /\ Op(p) # "none"
  BY SessionFacts DEF DbAbort, InTransaction, Shape, Op
<1>2. session' \in [Proc -> Session] /\ \A q \in Proc : Shape(session'[q])
  <2>1. CASE Become(p, [Idle EXCEPT !.req = session[p].req, !.pc = "begin",
                                    !.attempts = NextAttempt(p)])
    <3> DEFINE n == NextAttempt(p)
               s == [Idle EXCEPT !.req = session[p].req, !.pc = "begin", !.attempts = n]
    <3>1. n \in Nat
      BY <1>1 DEF NextAttempt, Session
    <3>2. Idle \in Session
      BY IdleShape
    <3> HIDE DEF n
    <3>3. s \in Session
      BY <1>1, <3>1, <3>2 DEF Session, Pc
    <3>4. Shape(s)
      BY <1>1 DEF Idle, Shape, Op, Writing
    <3>5. QED
      BY <2>1, <3>3, <3>4, BecomeShape DEF n
  <2>2. CASE Become(p, Idle)
    BY <2>2, EndShape DEF End
  <2>3. QED
    BY <2>1, <2>2 DEF DbAbort
<1>3. QED
  BY <1>2 DEF DbAbort, TypeInv, TypeOK, LedgerTypeOK

\* An expiry keeps the types.
LEMMA ExpireType ==
  ASSUME TypeInv, NEW k \in Key, Expire(k) PROVE TypeInv'
<1>1. idem' \in [Key -> [txn : Txn, expired : BOOLEAN] \union {NoRecord}]
  BY DEF Expire, TypeInv, TypeOK
<1>2. QED
  BY <1>1 DEF Expire, TypeInv, TypeOK, LedgerTypeOK

\* The initial state is typed and shaped.
LEMMA TypeInit == Init => TypeInv
<1> SUFFICES ASSUME Init PROVE TypeInv
  OBVIOUS
<1>1. LedgerTypeOK
  BY RowConstants DEF Init, LedgerTypeOK
<1>2. QED
  BY <1>1, IdleShape DEF Init, TypeInv, TypeOK

\* Every statement of every session keeps types and shapes.
LEMMA TypeStep == TypeInv /\ [Next]_vars => TypeInv'
<1> SUFFICES ASSUME TypeInv, [Next]_vars PROVE TypeInv'
  OBVIOUS
<1>1. CASE UNCHANGED vars
  BY <1>1 DEF vars, TypeInv, TypeOK, LedgerTypeOK
<1>2. ASSUME NEW p \in Proc, Step(p) PROVE TypeInv'
  BY <1>2, CheckKeyType, DeleteExpiredType, BeginType, LockTargetType, RefusalType,
     InsertType, PublishType, CommitType, RecordSuccessType DEF Step
<1>3. QED
  BY <1>1, <1>2, ReceiveType, DbAbortType, RefusalType, ExpireType DEF Next

\* Whatever sessions do, the tables, events and answers stay well typed.
THEOREM ProcessorTyped == Spec => []TypeOK
<1>1. TypeInv => TypeOK
  BY DEF TypeInv
<1>2. QED
  BY <1>1, TypeInit, TypeStep, PTL DEF Spec

-----------------------------------------------------------------------------
(* The refinement.  Only Commit changes the ledger.  That it does what one *)
(* step of Ledger does rests on what the sessions have prepared meanwhile: *)
(* the inductive invariant says what the uncommitted writes of a session   *)
(* are, that the ledger has not moved under them, and that no two sessions *)
(* prepare the same row or key.                                            *)

Own(s)      == {s.ids[i] : i \in DOMAIN s.ids}
Locks(s, t) == s.pc \in Writing /\ s.req.target = t
Keyed(s, k) == k # NoKey /\ \E t \in Own(s) : s.work[t].key = k

IsNewRow(row, original) ==
  row.state \in Posted /\ row.reverses = original /\ row.reversedBy = NoTxn

\* The writes of a post or a batch, of a settle or a cancel, of a reversal.
PostWork(s) ==
  \A t \in Txn : IF t \in Own(s) THEN IsNewRow(s.work[t], NoTxn) ELSE s.work[t] = NoRow

ChangeWork(s) ==
  /\ s.seen.state = "pending"
  /\ \A t \in Txn : s.work[t] = IF t # s.req.target THEN NoRow
                                ELSE IF s.req.op = "settle" THEN SettledRow(s.seen)
                                ELSE CancelledRow(s.seen)

ReverseWork(s) ==
  /\ Reversible(s.seen)
  /\ s.ids = <<>> => s.work = NothingWritten
  /\ s.ids # <<>> =>
       \E r \in Txn \ {s.req.target} :
         /\ Own(s) = {r}
         /\ IsNewRow(s.work[r], s.req.target)
         /\ s.work[s.req.target] = ReversedRow(s.seen, r)
         /\ \A t \in Txn \ {r, s.req.target} : s.work[t] = NoRow

\* What an open transaction has written.
WorkOK(s) ==
  /\ \A t, u \in Own(s) : s.work[t].key = s.work[u].key /\ s.work[t].key # NoKey => t = u
  /\ s.pc \in Writing =>
       /\ s.req.op \in {"post", "batch"}   => PostWork(s)
       /\ s.req.op \in {"settle", "cancel"} => ChangeWork(s)
       /\ s.req.op = "reverse"             => ReverseWork(s)

\* The committed rows an open transaction relies on.
Fits(rows, s) ==
  s.pc \in Writing =>
    /\ \A t \in Own(s) : rows[t].state = "absent"
    /\ s.req.target \in Txn => rows[s.req.target] = s.seen /\ s.seen.state # "absent"
    /\ \A k \in Key, t \in Txn : Keyed(s, k) => rows[t].key # k

\* Two sessions prepare different rows and keys.
Apart(s, u) ==
  /\ Own(s) \intersect Own(u) = {}
  /\ \A t \in Txn : ~(Locks(s, t) /\ Locks(u, t))
  /\ \A k \in Key : ~(Keyed(s, k) /\ Keyed(u, k))

Prepared ==
  /\ TypeInv
  /\ \A p \in Proc : WorkOK(session[p]) /\ Fits(ledger, session[p])
  /\ \A p, q \in Proc : p # q => Apart(session[p], session[q])

-----------------------------------------------------------------------------
(* Steps that leave the ledger alone. *)

\* A step of p that changes p's session only keeps the invariant if the new
\* session fits beside the others.
LEMMA SessionStep ==
  ASSUME Prepared, TypeInv', NEW p \in Proc, UNCHANGED ledger,
         \A q \in Proc \ {p} : session'[q] = session[q],
         WorkOK(session'[p]), Fits(ledger, session'[p]),
         \A q \in Proc \ {p} : Apart(session'[p], session[q])
  PROVE  Prepared'
<1>1. \A s, u : Apart(s, u) <=> Apart(u, s)
  BY DEF Apart
<1>2. \A q, r \in Proc : q # r => Apart(session'[q], session'[r])
  BY <1>1 DEF Prepared
<1>3. \A q \in Proc : WorkOK(session'[q]) /\ Fits(ledger', session'[q])
  BY DEF Prepared
<1>4. QED
  BY <1>2, <1>3 DEF Prepared

\* A step touches one session.
LEMMA OthersStay ==
  ASSUME TypeInv, NEW p \in Proc, NEW s, Become(p, s)
  PROVE  session'[p] = s /\ \A q \in Proc \ {p} : session'[q] = session[q]
BY DEF Become, TypeInv, TypeOK

\* A session that has inserted nothing owns nothing.
LEMMA EmptyOwn == ASSUME NEW s, s.ids = <<>> PROVE Own(s) = {}
BY EmptySeq DEF Own

\* A session that is not writing and has no identifiers is beside any other.
LEMMA QuietStep ==
  ASSUME Prepared, TypeInv', NEW p \in Proc, UNCHANGED ledger,
         \A q \in Proc \ {p} : session'[q] = session[q],
         session'[p].pc \notin Writing, session'[p].pc # "record"
  PROVE  Prepared'
<1>1. Shape(session'[p])
  BY DEF TypeInv
<1>2. Own(session'[p]) = {}
  BY <1>1, EmptyOwn DEF Shape, Writing
<1>3. WorkOK(session'[p]) /\ Fits(ledger, session'[p])
  BY <1>2 DEF WorkOK, Fits
<1>4. \A q \in Proc \ {p} : Apart(session'[p], session[q])
  BY <1>2 DEF Apart, Locks, Keyed
<1>5. QED
  BY <1>3, <1>4, SessionStep

\* Nothing but the statement and the item of the session changes.
LEMMA SameWorkStep ==
  ASSUME Prepared, TypeInv', NEW p \in Proc, UNCHANGED ledger,
         \A q \in Proc \ {p} : session'[q] = session[q],
         session'[p].pc \in Writing <=> session[p].pc \in Writing,
         session'[p].req = session[p].req, session'[p].ids = session[p].ids,
         session'[p].work = session[p].work, session'[p].seen = session[p].seen
  PROVE  Prepared'
<1>1. Own(session'[p]) = Own(session[p])
  BY DEF Own
<1>2. WorkOK(session'[p]) /\ Fits(ledger, session'[p])
  BY <1>1 DEF Prepared, WorkOK, Fits, Keyed, PostWork, ChangeWork, ReverseWork
<1>3. \A q \in Proc \ {p} : Apart(session'[p], session[q])
  BY <1>1 DEF Prepared, Apart, Locks, Keyed
<1>4. QED
  BY <1>2, <1>3, SessionStep

\* A post or a batch opens its transaction.
LEMMA OpenStep ==
  ASSUME Prepared, TypeInv', NEW p \in Proc, UNCHANGED ledger,
         session[p].pc = "begin", Op(p) \in {"post", "batch"}, Goto(p, "insert")
  PROVE  Prepared'
<1> DEFINE s == [session[p] EXCEPT !.pc = "insert"]
<1>1. TypeInv /\ session[p] \in Session /\ Shape(session[p]) /\ s = session'[p]
      /\ \A q \in Proc \ {p} : session'[q] = session[q]
  BY SessionFacts, OthersStay DEF Prepared, Goto
<1>2. /\ s.ids = <<>> /\ s.work = NothingWritten /\ s.pc = "insert"
      /\ s.req.op \in {"post", "batch"} /\ s.req.target \notin Txn
  BY <1>1, SessionFacts DEF Session, Shape, Op, Target, Writing, OnTarget
<1>3. Own(s) = {}
  BY <1>2, EmptyOwn
<1> HIDE DEF s
<1>4. WorkOK(s)
  BY <1>2, <1>3 DEF WorkOK, PostWork, NothingWritten
<1>5. Fits(ledger, s)
  BY <1>2, <1>3 DEF Fits, Keyed
<1>6. \A q \in Proc \ {p} : Apart(s, session[q])
  BY <1>2, <1>3 DEF Apart, Locks, Keyed
<1>7. QED
  BY <1>1, <1>4, <1>5, <1>6, SessionStep

\* A settle, a cancel or a reversal has its row: nobody else holds it and it
\* is what the session saw.
LEMMA LockStep ==
  ASSUME Prepared, TypeInv', NEW p \in Proc, LockTarget(p)
  PROVE  Prepared'
<1>1. /\ TypeInv /\ session[p] \in Session /\ Shape(session[p]) /\ UNCHANGED ledger
      /\ session[p].pc = "lock" /\ Op(p) \in OnTarget /\ Target(p) \in Txn
      /\ session[p].ids = <<>> /\ session[p].work = NothingWritten
  BY SessionFacts DEF Prepared, LockTarget, At, Shape, Op, Writing
<1>2. CASE End(p)
  <2>1. session'[p] = Idle /\ \A q \in Proc \ {p} : session'[q] = session[q]
    BY <1>1, <1>2, OthersStay DEF End
  <2>2. QED
    BY <1>1, <2>1, QuietStep DEF Idle, Writing
<1>3. CASE Suitable(p) /\ ~End(p)
  <2>1. /\ ledger[Target(p)] = session[p].seen /\ session[p].seen.state # "absent"
        /\ \A q \in Proc \ {p} : ~Locks(session[q], Target(p))
        /\ IF Op(p) = "reverse" THEN Reversible(session[p].seen)
                                ELSE session[p].seen.state = "pending"
    BY <1>3 DEF LockTarget, Suitable, RowUnchanged, RowLocked, HoldsRow, Locks, Target, Reversible
  <2>2. PICK s : /\ session'[p] = s /\ \A q \in Proc \ {p} : session'[q] = session[q]
                 /\ s.req = session[p].req /\ s.ids = <<>> /\ s.seen = session[p].seen
                 /\ s.pc \in Writing
                 /\ Op(p) = "reverse" => s.work = NothingWritten
                 /\ Op(p) # "reverse" =>
                      s.work = [NothingWritten EXCEPT ![Target(p)] = NewTarget(p)]
    <3>1. CASE Op(p) = "reverse" /\ Goto(p, "insert")
      BY <1>1, <3>1, OthersStay DEF Goto, Session, Writing
    <3>2. CASE /\ Op(p) # "reverse"
               /\ Become(p, [session[p] EXCEPT !.pc = "publish",
                                               !.work[Target(p)] = NewTarget(p)])
      <4> DEFINE u == [session[p] EXCEPT !.pc = "publish",
                                         !.work[Target(p)] = NewTarget(p)]
      <4>1. /\ u.req = session[p].req /\ u.ids = <<>> /\ u.seen = session[p].seen
            /\ u.pc = "publish"
            /\ u.work = [NothingWritten EXCEPT ![Target(p)] = NewTarget(p)]
        BY <1>1 DEF Session
      <4>2. session'[p] = u /\ \A q \in Proc \ {p} : session'[q] = session[q]
        BY <1>1, <3>2, OthersStay
      <4> HIDE DEF u
      <4>3. QED
        BY <3>2, <4>1, <4>2 DEF Writing
    <3>3. QED
      BY <1>3, <3>1, <3>2 DEF LockTarget
  <2>3. Own(s) = {}
    BY <2>2, EmptyOwn
  <2>4. WorkOK(s)
    <3>1. s.req.op = Op(p) /\ s.req.target = Target(p)
      BY <2>2 DEF Op, Target
    <3>2. CASE Op(p) = "reverse"
      BY <2>1, <2>2, <2>3, <3>1, <3>2 DEF WorkOK, ReverseWork
    <3>3. CASE Op(p) \in {"settle", "cancel"}
      <4>1. ChangeWork(s)
        BY <1>1, <2>1, <2>2, <3>1, <3>3 DEF ChangeWork, NothingWritten, NewTarget
      <4>2. QED
        BY <2>3, <3>1, <3>3, <4>1 DEF WorkOK
    <3>4. QED
      BY <1>1, <3>2, <3>3 DEF OnTarget
  <2>5. Fits(ledger, s)
    BY <2>1, <2>2, <2>3 DEF Fits, Keyed, Target
  <2>6. \A q \in Proc \ {p} : Apart(s, session[q])
    BY <2>1, <2>2, <2>3 DEF Apart, Locks, Keyed, Target
  <2>7. QED
    BY <1>1, <2>2, <2>4, <2>5, <2>6, SessionStep
<1>4. QED
  BY <1>2, <1>3 DEF LockTarget

\* An identifier nobody has used, with a key nobody has inserted.
LEMMA InsertStep ==
  ASSUME Prepared, TypeInv', NEW p \in Proc, Insert(p)
  PROVE  Prepared'
<1>1. /\ TypeInv /\ session[p] \in Session /\ Shape(session[p]) /\ UNCHANGED ledger
      /\ session[p].pc = "insert" /\ Op(p) \in Inserting
      /\ Target(p) \in Txn <=> Op(p) = "reverse"
      /\ Target(p) \in Txn \union {NoTxn}
      /\ session[p].ids \in Seq(Txn)
  BY SessionFacts, NullsAssumption
  DEF Prepared, Insert, At, Shape, Op, Inserting, OnTarget
<1>2. CASE End(p)
  <2>1. session'[p] = Idle /\ \A q \in Proc \ {p} : session'[q] = session[q]
    BY <1>1, <1>2, OthersStay DEF End
  <2>2. QED
    BY <1>1, <2>1, QuietStep DEF Idle, Writing
<1>3. CASE ~End(p)
  <2> DEFINE old == session[p]
             k == NextItem(p).key
             row == NewRow(k, NextItem(p).state, Target(p))
  <2>1. ~KeyClash(p, k) /\ ~KeyAwaited(p, k)
    BY <1>3 DEF Insert
  <2>2. PICK t \in Fresh : Become(p, Inserted(p, t))
    BY <1>3 DEF Insert
  <2>3. t \in Txn /\ ~Exists(t) /\ \A q \in Proc : t \notin Own(session[q])
    BY <2>2 DEF Fresh, InFlight, Own
  <2>4. NextItem(p) \in Item
    <3>1. Len(old.ids) \in Nat /\ Len(Items(p)) \in Nat /\ Len(old.ids) < Len(Items(p))
      BY <1>1, SessionFacts DEF Shape, Items
    <3>2. Len(old.ids) + 1 \in 1..Len(Items(p))
      BY <3>1
    <3>3. QED
      BY <1>1, <3>2, SessionFacts DEF NextItem
  <2>5. k \in Key \union {NoKey} /\ IsNewRow(row, Target(p)) /\ row.key = k
    BY <2>4 DEF Item, NewRow, IsNewRow
  <2> DEFINE work == [old.work EXCEPT ![t] = row]
             s == session'[p]
  <2>6. /\ s = Inserted(p, t) /\ \A q \in Proc \ {p} : session'[q] = session[q]
    BY <1>1, <2>2, OthersStay
  <2>7. /\ s.req = old.req /\ s.seen = old.seen /\ s.ids = Append(old.ids, t)
        /\ s.pc \in Writing
        /\ Op(p) # "reverse" => s.work = work
        /\ Op(p) = "reverse" => s.work = [work EXCEPT ![Target(p)] = ReversedRow(old.seen, t)]
    BY <1>1, <2>6 DEF Inserted, Session, Writing
  <2>8. Own(s) = Own(old) \union {t}
    <3>1. /\ Len(s.ids) = Len(old.ids) + 1 /\ Len(old.ids) \in Nat
          /\ DOMAIN s.ids = 1..Len(s.ids) /\ DOMAIN old.ids = 1..Len(old.ids)
          /\ \A i \in 1..Len(old.ids) : s.ids[i] = old.ids[i]
          /\ s.ids[Len(old.ids) + 1] = t
      BY <1>1, <2>3, <2>7, AppendProperties, LenProperties
    <3>2. Own(old) \union {t} \subseteq Own(s)
      <4>1. Len(old.ids) + 1 \in DOMAIN s.ids
        BY <3>1
      <4>2. \A i \in 1..Len(old.ids) : i \in DOMAIN s.ids
        BY <3>1
      <4>3. QED
        BY <3>1, <4>1, <4>2 DEF Own
    <3>3. ASSUME NEW u \in Own(s) PROVE u \in Own(old) \union {t}
      <4>1. PICK i \in 1..Len(s.ids) : u = s.ids[i]
        BY <3>1 DEF Own
      <4>2. i \in 1..Len(old.ids) \/ i = Len(old.ids) + 1
        BY <3>1
      <4>3. QED
        BY <3>1, <4>1, <4>2 DEF Own
    <3>4. QED
      BY <3>2, <3>3
  <2>9. /\ old.work \in [Txn -> Row] /\ old.pc \in Writing
        /\ WorkOK(old) /\ Fits(ledger, old)
        /\ \A q \in Proc \ {p} : Apart(old, session[q])
    BY <1>1 DEF Session, Prepared, Writing
  <2>10. \A u \in Own(old) : u # t /\ s.work[u] = old.work[u] /\ u \in Txn
    <3>1. \A u \in Own(old) : u \in Txn
      BY <1>1, SessionFacts, LenProperties DEF Own
    <3>2. \A u \in Own(old) : u # t
      BY <2>3
    <3>3. Op(p) = "reverse" => Own(old) = {}
      <4>1. SUFFICES ASSUME Op(p) = "reverse" PROVE Own(old) = {}
        OBVIOUS
      <4>2. Len(Items(p)) = 1 /\ Len(old.ids) < Len(Items(p)) /\ Len(old.ids) \in Nat
        BY <1>1, <4>1, SessionFacts DEF Shape, Items
      <4>3. Len(old.ids) = 0
        BY <4>2
      <4>4. QED
        BY <1>1, <4>3, EmptySeq, EmptyOwn
    <3>4. QED
      BY <2>7, <2>9, <3>1, <3>2, <3>3
  <2>11. s.work[t] = row
    <3>1. Op(p) = "reverse" => Target(p) # t
      BY <1>1, <2>3, <2>9 DEF Fits, Exists, Target
    <3>2. QED
      BY <2>3, <2>7, <2>9, <3>1
  <2>12. \A l : Keyed(s, l) => Keyed(old, l) \/ l = k
    BY <2>5, <2>8, <2>10, <2>11 DEF Keyed
  <2>13. ~KeyCommitted(k) /\ ~Keyed(old, k) /\ \A q \in Proc \ {p} : ~Keyed(session[q], k)
    BY <2>1 DEF KeyClash, KeyAwaited, KeyInFlight, Keyed, InFlight, Own
  <2> HIDE DEF k, row, s, work
  <2>14. WorkOK(s)
    <3>1. s.req.op = Op(p) /\ s.req.target = Target(p) /\ old.req.op = Op(p)
      BY <2>7 DEF Op, Target
    <3>2. \A u, v \in Own(s) : s.work[u].key = s.work[v].key /\ s.work[u].key # NoKey => u = v
      BY <2>5, <2>8, <2>9, <2>10, <2>11, <2>13 DEF WorkOK, Keyed
    <3>3. CASE Op(p) \in {"post", "batch"}
      <4>1. Target(p) = NoTxn
        BY <1>1, <3>3
      <4>2. PostWork(old)
        BY <2>9, <3>1, <3>3 DEF WorkOK
      <4>3. PostWork(s)
        BY <2>3, <2>5, <2>7, <2>8, <2>9, <2>10, <2>11, <3>3, <4>1, <4>2 DEF PostWork, work
      <4>4. QED
        BY <3>1, <3>2, <3>3, <4>3 DEF WorkOK
    <3>4. CASE Op(p) = "reverse"
      <4>1. ReverseWork(old)
        BY <2>9, <3>1, <3>4 DEF WorkOK
      <4>2. old.ids = <<>> /\ Own(old) = {} /\ s.ids # <<>>
        <5>1. Len(Items(p)) = 1 /\ Len(old.ids) < Len(Items(p)) /\ Len(old.ids) \in Nat
          BY <1>1, <3>4, SessionFacts DEF Shape, Items
        <5>2. Len(old.ids) = 0
          BY <5>1
        <5>3. QED
          BY <1>1, <2>3, <2>7, <5>2, EmptySeq, EmptyOwn, AppendProperties
      <4>3. t # Target(p) /\ Target(p) \in Txn
        BY <1>1, <2>3, <2>9, <3>4 DEF Fits, Exists, Target
      <4>4. /\ s.work[Target(p)] = ReversedRow(old.seen, t)
            /\ \A u \in Txn \ {t, Target(p)} : s.work[u] = NoRow
        BY <2>3, <2>7, <2>9, <3>4, <4>1, <4>2, <4>3 DEF ReverseWork, NothingWritten, work
      <4>5. ReverseWork(s)
        BY <2>3, <2>5, <2>7, <2>8, <2>11, <3>1, <4>1, <4>2, <4>3, <4>4 DEF ReverseWork
      <4>6. QED
        BY <3>1, <3>2, <3>4, <4>5 DEF WorkOK
    <3>5. QED
      BY <1>1, <3>3, <3>4 DEF Inserting
  <2>15. Fits(ledger, s)
    BY <2>3, <2>7, <2>8, <2>9, <2>12, <2>13, NullsAssumption
    DEF Fits, Exists, KeyCommitted, Keyed
  <2>16. \A q \in Proc \ {p} : Apart(s, session[q])
    BY <2>3, <2>7, <2>8, <2>9, <2>12, <2>13 DEF Apart, Locks
  <2>17. QED
    BY <1>1, <2>6, <2>14, <2>15, <2>16, SessionStep DEF s
<1>4. QED
  BY <1>2, <1>3

-----------------------------------------------------------------------------
(* Commit. *)

\* The facts about a session that commits.
LEMMA CommitFacts ==
  ASSUME Prepared, NEW p \in Proc, Commit(p)
  PROVE  /\ TypeInv /\ session[p].pc \in Writing
         /\ session[p].work \in [Txn -> Row] /\ ledger \in [Txn -> Row]
         /\ ledger' = Committed(p)
         /\ Op(p) \in Inserting \union OnTarget
         /\ Target(p) \in Txn <=> Op(p) \in OnTarget
         /\ Own(session[p]) \subseteq Txn
         /\ Op(p) \in Inserting => session[p].ids # <<>>
         /\ Op(p) \in Inserting => Own(session[p]) # {}
<1>1. /\ TypeInv /\ session[p].pc = "commit" /\ session[p] \in Session
      /\ Shape(session[p]) /\ session[p].ids \in Seq(Txn)
  BY SessionFacts DEF Prepared, Commit, At
<1>2. session[p].ids # <<>> => Own(session[p]) # {}
  <2>1. SUFFICES ASSUME session[p].ids # <<>> PROVE session[p].ids[1] \in Own(session[p])
    OBVIOUS
  <2>2. 1 \in DOMAIN session[p].ids
    BY <1>1, <2>1, EmptySeq, LenProperties
  <2>3. QED
    BY <2>2 DEF Own
<1>3. Op(p) \in Inserting => session[p].ids # <<>>
  <2>1. SUFFICES ASSUME Op(p) \in Inserting PROVE Len(session[p].ids) # 0
    BY EmptySeq
  <2>2. Len(session[p].ids) = Len(Items(p)) /\ Len(Items(p)) \in Nat \ {0}
    BY <1>1, <2>1, SessionFacts DEF Shape, Op, Items
  <2>3. QED
    BY <2>2
<1>4. Own(session[p]) \subseteq Txn
  BY <1>1, SessionFacts, LenProperties DEF Own
<1>5. /\ Op(p) \in Inserting \union OnTarget
      /\ Target(p) \in Txn <=> Op(p) \in OnTarget
  BY <1>1, SessionFacts DEF Shape, Op
<1>6. QED
  BY <1>1, <1>2, <1>3, <1>4, <1>5
  DEF Commit, Session, Writing, TypeInv, TypeOK, LedgerTypeOK

\* A commit changes rows the session inserted and its target's row, which
\* keeps its key.
LEMMA CommittedRows ==
  ASSUME Prepared, NEW p \in Proc, Commit(p), NEW t \in Txn
  PROVE  \/ ledger'[t] = ledger[t]
         \/ t \in Own(session[p]) /\ ledger'[t] = session[p].work[t]
         \/ t = Target(p) /\ ledger'[t].key = ledger[t].key
<1> DEFINE s == session[p]
<1>1. CASE s.work[t] = NoRow
  BY <1>1, CommitFacts DEF Committed
<1>2. CASE s.work[t] # NoRow
  <2>1. ledger'[t] = s.work[t]
    BY <1>2, CommitFacts DEF Committed
  <2>2. WorkOK(s) /\ Fits(ledger, s) /\ s.req.op = Op(p) /\ s.req.target = Target(p)
    BY DEF Prepared, Op, Target
  <2>3. CASE Op(p) \in {"post", "batch"}
    <3>1. PostWork(s)
      BY <2>2, <2>3, CommitFacts DEF WorkOK
    <3>2. QED
      BY <1>2, <2>1, <3>1 DEF PostWork
  <2>4. CASE Op(p) \in {"settle", "cancel"}
    <3>1. ChangeWork(s) /\ ledger[Target(p)] = s.seen
      BY <2>2, <2>4, CommitFacts DEF WorkOK, Fits, OnTarget
    <3>2. t = Target(p)
      BY <1>2, <2>2, <3>1 DEF ChangeWork
    <3>3. ledger[t] \in Row
      BY CommitFacts
    <3>4. QED
      BY <2>1, <2>2, <3>1, <3>2, <3>3 DEF ChangeWork, SettledRow, CancelledRow, Row
  <2>5. CASE Op(p) = "reverse"
    <3>1. ReverseWork(s) /\ ledger[Target(p)] = s.seen /\ s.ids # <<>>
      BY <2>2, <2>5, CommitFacts DEF WorkOK, Fits, OnTarget, Inserting
    <3>2. PICK r \in Txn \ {Target(p)} :
            /\ Own(s) = {r} /\ s.work[Target(p)] = ReversedRow(s.seen, r)
            /\ \A u \in Txn \ {r, Target(p)} : s.work[u] = NoRow
      BY <2>2, <3>1 DEF ReverseWork
    <3>3. ledger[t] \in Row
      BY CommitFacts
    <3>4. QED
      BY <1>2, <2>1, <3>1, <3>2, <3>3 DEF ReversedRow, Row
  <2>6. QED
    BY <2>3, <2>4, <2>5, CommitFacts DEF Inserting, OnTarget
<1>3. QED
  BY <1>1, <1>2

\* A commit is one atomic operation of the ledger, and what the other
\* sessions have prepared still fits the ledger after it.
LEMMA CommitStep ==
  ASSUME Prepared, TypeInv', NEW p \in Proc, Commit(p)
  PROVE  Prepared'
<1> DEFINE s == session'[p]
<1>1. /\ \A q \in Proc \ {p} : session'[q] = session[q]
      /\ s.pc \notin Writing /\ s.work = NothingWritten
      /\ Own(s) = {} \/ Own(s) = Own(session[p])
  <2>1. CASE End(p)
    <3>1. s = Idle /\ \A q \in Proc \ {p} : session'[q] = session[q]
      BY <2>1, CommitFacts, OthersStay DEF End
    <3>2. Own(Idle) = {}
      BY EmptyOwn DEF Idle
    <3>3. QED
      BY <3>1, <3>2 DEF Idle, Writing
  <2>2. CASE Become(p, [session[p] EXCEPT !.pc = "record", !.work = NothingWritten])
    <3> DEFINE u == [session[p] EXCEPT !.pc = "record", !.work = NothingWritten]
    <3>1. s = u /\ \A q \in Proc \ {p} : session'[q] = session[q]
      BY <2>2, CommitFacts, OthersStay
    <3>2. u.pc = "record" /\ u.work = NothingWritten /\ u.ids = session[p].ids
      BY CommitFacts, SessionFacts DEF Session
    <3>3. QED
      BY <3>1, <3>2 DEF Writing, Own
  <2>3. QED
    BY <2>1, <2>2 DEF Commit
<1>2. Own(session[p]) \subseteq Txn
  BY CommitFacts
<1>3. \A t \in Own(s) : s.work[t].key = NoKey
  BY <1>1, <1>2 DEF NothingWritten, NoRow
<1> HIDE DEF s
<1>4. WorkOK(s) /\ Fits(ledger', s)
  BY <1>1, <1>3 DEF WorkOK, Fits
<1>5. ASSUME NEW q \in Proc \ {p}
      PROVE  WorkOK(session[q]) /\ Fits(ledger', session[q]) /\ Apart(s, session[q])
  <2> DEFINE u == session[q]
  <2>1. WorkOK(u) /\ Fits(ledger, u) /\ Apart(session[p], u)
    BY DEF Prepared
  <2>2. Apart(s, u)
    BY <1>1, <1>3, <2>1 DEF Apart, Locks, Keyed
  <2>3. CASE u.pc \in Writing
    <3>1. \A t \in Own(u) : t \in Txn /\ t \notin Own(session[p]) /\ t # Target(p)
      <4>1. Own(u) \subseteq Txn
        BY SessionFacts, LenProperties DEF Prepared, Own
      <4>2. Target(p) \in Txn => ledger[Target(p)].state # "absent"
        BY CommitFacts DEF Prepared, Fits, Target
      <4>3. QED
        BY <2>1, <2>3, <4>1, <4>2 DEF Apart, Fits
    <3>2. u.req.target \in Txn => u.req.target # Target(p) /\ u.req.target \notin Own(session[p])
      <4>1. u.req.target # Target(p) \/ u.req.target \notin Txn
        BY <2>1, <2>3, CommitFacts DEF Apart, Locks, Target
      <4>2. \A t \in Own(session[p]) : ledger[t].state = "absent"
        BY CommitFacts DEF Prepared, Fits
      <4>3. QED
        BY <2>1, <2>3, <4>1, <4>2 DEF Fits
    <3>3. ASSUME NEW k \in Key, NEW t \in Txn, Keyed(u, k) PROVE ledger'[t].key # k
      <4>1. ledger[t].key # k /\ ~Keyed(session[p], k)
        BY <2>1, <2>3, <3>3 DEF Fits, Apart
      <4>2. k # NoKey
        BY <3>3 DEF Keyed
      <4>3. QED
        BY <4>1, <4>2, CommittedRows DEF Keyed
    <3>4. /\ \A t \in Own(u) : ledger'[t] = ledger[t]
          /\ u.req.target \in Txn => ledger'[u.req.target] = ledger[u.req.target]
      BY <3>1, <3>2, CommittedRows
    <3>5. QED
      BY <2>1, <2>2, <3>3, <3>4 DEF Fits
  <2>4. CASE u.pc \notin Writing
    BY <2>1, <2>2, <2>4 DEF Fits
  <2>5. QED
    BY <2>3, <2>4
<1>6. \A q, r \in Proc : q # r => Apart(session'[q], session'[r])
  <2>1. \A x, y : Apart(x, y) <=> Apart(y, x)
    BY DEF Apart
  <2>2. QED
    BY <1>1, <1>5, <2>1 DEF Prepared, s
<1>7. \A q \in Proc : WorkOK(session'[q]) /\ Fits(ledger', session'[q])
  BY <1>1, <1>4, <1>5 DEF s
<1>8. QED
  BY <1>6, <1>7 DEF Prepared

-----------------------------------------------------------------------------
(* The refinement. *)

\* A commit is one step of the atomic ledger: what it writes is what Post,
\* Settle, Cancel or Reverse writes, in a state that allows it.
LEMMA CommitRefines ==
  ASSUME Prepared, NEW p \in Proc, Commit(p)
  PROVE  L!Next
<1> DEFINE s == session[p]
           t == Target(p)
<1>1. WorkOK(s) /\ Fits(ledger, s) /\ s.req.op = Op(p) /\ s.req.target = t
  BY DEF Prepared, Op, Target
<1>2. /\ s.pc \in Writing /\ s.work \in [Txn -> Row] /\ ledger \in [Txn -> Row]
      /\ ledger' = [u \in Txn |-> IF s.work[u] # NoRow THEN s.work[u] ELSE ledger[u]]
      /\ t \in Txn <=> Op(p) \in OnTarget
      /\ Own(s) \subseteq Txn
  BY CommitFacts DEF Committed
<1>3. CASE Op(p) \in {"post", "batch"}
  <2> DEFINE S == Own(s)
             key == [u \in S |-> s.work[u].key]
             state == [u \in S |-> s.work[u].state]
  <2>1. PostWork(s)
    BY <1>1, <1>2, <1>3 DEF WorkOK
  <2>2. S \in (SUBSET {u \in Txn : ~L!Exists(u)}) \ {{}}
    <3>1. \A u \in S : u \in Txn /\ ~L!Exists(u)
      BY <1>1, <1>2 DEF Fits, L!Exists
    <3>2. S # {}
      <4>1. Op(p) \in Inserting
        BY <1>3 DEF Inserting
      <4>2. QED
        BY <4>1, CommitFacts
    <3> HIDE DEF S
    <3>3. QED
      BY <3>1, <3>2
  <2>3. key \in [S -> Key \union {NoKey}] /\ state \in [S -> L!Posted]
    BY <1>2, <2>1 DEF PostWork, IsNewRow, Row, Posted, L!Posted
  <2>4. \A u \in S : ~L!KeyCommitted(key[u])
    <3>1. SUFFICES ASSUME NEW u \in S, L!KeyCommitted(key[u]) PROVE FALSE
      OBVIOUS
    <3>2. Keyed(s, s.work[u].key) /\ s.work[u].key \in Key
      BY <1>2, <3>1 DEF Keyed, L!KeyCommitted, Row
    <3>3. QED
      BY <1>1, <1>2, <3>1, <3>2 DEF Fits, L!KeyCommitted
  <2>5. \A u, v \in S : key[u] = key[v] /\ key[u] # NoKey => u = v
    BY <1>1 DEF WorkOK
  <2>6. ledger' = [u \in Txn |-> IF u \in S THEN L!NewRow(key[u], state[u], NoTxn)
                                            ELSE ledger[u]]
    <3>1. \A u \in S : s.work[u] # NoRow /\ s.work[u] = L!NewRow(key[u], state[u], NoTxn)
      BY <1>2, <2>1 DEF PostWork, IsNewRow, Row, NoRow, Posted, L!NewRow
    <3>2. \A u \in Txn \ S : s.work[u] = NoRow
      BY <2>1 DEF PostWork
    <3>3. QED
      BY <1>2, <3>1, <3>2
  <2> HIDE DEF S, key, state
  <2>7. L!Post
    BY <2>2, <2>3, <2>4, <2>5, <2>6 DEF L!Post
  <2>8. QED
    BY <2>7 DEF L!Next
<1>4. CASE Op(p) \in {"settle", "cancel"}
  <2>1. ChangeWork(s) /\ t \in Txn /\ ledger[t] = s.seen
    BY <1>1, <1>2, <1>4 DEF WorkOK, Fits, OnTarget
  <2>2. /\ s.work[t] = IF Op(p) = "settle" THEN SettledRow(ledger[t]) ELSE CancelledRow(ledger[t])
        /\ \A u \in Txn \ {t} : s.work[u] = NoRow
        /\ ledger[t].state = "pending"
    BY <1>1, <2>1 DEF ChangeWork
  <2>3. s.work[t] # NoRow
    BY <1>2, <2>1, <2>2 DEF SettledRow, CancelledRow, NoRow, Row
  <2>4. ledger' = [ledger EXCEPT ![t] = s.work[t]]
    BY <1>2, <2>1, <2>2, <2>3
  <2>5. L!Settle(t) \/ L!Cancel(t)
    BY <2>2, <2>4
    DEF L!Settle, L!Cancel, SettledRow, CancelledRow, L!SettledRow, L!CancelledRow
  <2>6. QED
    BY <2>1, <2>5 DEF L!Next
<1>5. CASE Op(p) = "reverse"
  <2>1. ReverseWork(s) /\ t \in Txn /\ ledger[t] = s.seen /\ s.ids # <<>>
    BY <1>1, <1>2, <1>5, CommitFacts DEF WorkOK, Fits, OnTarget, Inserting
  <2>2. PICK r \in Txn \ {t} :
          /\ Own(s) = {r} /\ IsNewRow(s.work[r], t)
          /\ s.work[t] = ReversedRow(s.seen, r)
          /\ \A u \in Txn \ {r, t} : s.work[u] = NoRow
    BY <1>1, <2>1 DEF ReverseWork
  <2>3. Reversible(ledger[t]) /\ ledger[r].state = "absent"
    BY <1>1, <1>2, <2>1, <2>2 DEF ReverseWork, Fits
  <2> DEFINE k == s.work[r].key
             st == s.work[r].state
  <2>4. k \in Key \union {NoKey} /\ st \in Posted /\ s.work[r] = NewRow(k, st, t)
    BY <1>2, <2>2 DEF IsNewRow, Row, NewRow
  <2>5. ~L!KeyCommitted(k)
    <3>1. SUFFICES ASSUME L!KeyCommitted(k) PROVE FALSE
      OBVIOUS
    <3>2. Keyed(s, k) /\ k \in Key
      BY <2>2, <2>4, <3>1 DEF Keyed, L!KeyCommitted
    <3>3. QED
      BY <1>1, <1>2, <3>1, <3>2 DEF Fits, L!KeyCommitted
  <2>6. s.work[t] # NoRow /\ s.work[r] # NoRow
    BY <1>2, <2>1, <2>2, <2>3 DEF ReversedRow, Reversible, NoRow, IsNewRow, Posted, Row
  <2>7. ledger' = [ledger EXCEPT ![t] = ReversedRow(ledger[t], r),
                                 ![r] = NewRow(k, st, t)]
    BY <1>2, <2>1, <2>2, <2>4, <2>6
  <2> HIDE DEF k, st
  <2>8. L!Reverse(t, r)
    BY <2>3, <2>4, <2>5, <2>7
    DEF L!Reverse, L!Reversible, Reversible, L!Exists, L!Posted, Posted,
        L!ReversedRow, ReversedRow, L!NewRow, NewRow
  <2>9. QED
    BY <2>1, <2>2, <2>8 DEF L!Next
<1>6. QED
  BY <1>3, <1>4, <1>5, CommitFacts DEF Inserting, OnTarget

\* The initial state satisfies the invariant.
LEMMA PreparedInit == Init => Prepared
<1> SUFFICES ASSUME Init PROVE Prepared
  OBVIOUS
<1>1. Own(Idle) = {} /\ Idle.pc \notin Writing
  BY EmptyOwn DEF Idle, Writing
<1>2. WorkOK(Idle) /\ Fits(ledger, Idle) /\ Apart(Idle, Idle)
  BY <1>1 DEF WorkOK, Fits, Apart, Locks, Keyed
<1>3. QED
  BY <1>2, TypeInit DEF Init, Prepared

\* The steps of one request.
LEMMA RequestStep ==
  ASSUME Prepared, TypeInv', NEW p \in Proc, Receive(p) \/ Step(p) \/ DbAbort(p) \/ Fail(p)
  PROVE  Prepared'
<1> DEFINE Others == \A q \in Proc \ {p} : session'[q] = session[q]
           Quiet == Others /\ session'[p].pc \notin Writing /\ session'[p].pc # "record"
<1>1. TypeInv /\ session[p] \in Session /\ Shape(session[p])
  BY SessionFacts DEF Prepared
<1>2. ASSUME End(p) PROVE Quiet
  BY <1>1, <1>2, OthersStay DEF End, Idle, Writing
<1>3. CASE Receive(p)
  <2>1. Quiet
    <3>1. PICK r \in Requests :
            Become(p, [Idle EXCEPT !.req = r,
                         !.pc = IF r.op \in {"settle", "cancel"} THEN "begin" ELSE "check"])
      BY <1>3 DEF Receive
    <3> DEFINE s == [Idle EXCEPT !.req = r,
                       !.pc = IF r.op \in {"settle", "cancel"} THEN "begin" ELSE "check"]
    <3>2. s.pc \in {"begin", "check"}
      BY DEF Idle
    <3>3. session'[p] = s /\ Others
      BY <1>1, <3>1, OthersStay
    <3> HIDE DEF s
    <3>4. QED
      BY <3>2, <3>3 DEF Writing
  <2>2. QED
    BY <1>3, <2>1, QuietStep DEF Receive
<1>4. ASSUME NextCheck(p) PROVE Quiet
  <2> DEFINE next == [session[p] EXCEPT !.pc = "check", !.idx = session[p].idx + 1]
             done == [session[p] EXCEPT !.pc = "begin", !.idx = 1]
  <2>1. next.pc = "check" /\ done.pc = "begin"
    BY <1>1 DEF Session
  <2>2. session'[p] \in {next, done} /\ Others
    BY <1>1, <1>4, OthersStay DEF NextCheck
  <2> HIDE DEF next, done
  <2>3. QED
    BY <2>1, <2>2 DEF Writing
<1>5. CASE CheckKey(p)
  <2>1. ASSUME Goto(p, "delete") PROVE Quiet
    BY <1>1, <2>1, OthersStay DEF Goto, Session, Writing
  <2>2. Quiet
    BY <1>2, <1>4, <1>5, <2>1 DEF CheckKey
  <2>3. QED
    BY <1>5, <2>2, QuietStep DEF CheckKey
<1>6. CASE DeleteExpired(p)
  BY <1>4, <1>6, QuietStep DEF DeleteExpired
<1>7. CASE Begin(p)
  <2>1. CASE Op(p) \in {"post", "batch"} /\ Goto(p, "insert")
    BY <1>7, <2>1, OpenStep DEF Begin, At
  <2>2. CASE Become(p, [session[p] EXCEPT !.pc = "lock", !.seen = ledger[Target(p)]])
    <3> DEFINE s == [session[p] EXCEPT !.pc = "lock", !.seen = ledger[Target(p)]]
    <3>1. Quiet
      <4>1. s.pc = "lock"
        BY <1>1 DEF Session
      <4>2. session'[p] = s /\ Others
        BY <1>1, <2>2, OthersStay
      <4> HIDE DEF s
      <4>3. QED
        BY <4>1, <4>2 DEF Writing
    <3>2. QED
      BY <1>7, <3>1, QuietStep DEF Begin
  <2>3. CASE End(p)
    BY <1>2, <1>7, <2>3, QuietStep DEF Begin
  <2>4. QED
    BY <1>7, <2>1, <2>2, <2>3 DEF Begin
<1>8. CASE Refuse(p) \/ OutOfIds(p) \/ Fail(p)
  BY <1>2, <1>8, QuietStep DEF Refuse, OutOfIds, Fail
<1>9. CASE Publish(p)
  <2> DEFINE i == session[p].idx
             more == [session[p] EXCEPT !.idx = i + 1]
             done == [session[p] EXCEPT !.pc = "commit", !.idx = 1]
  <2>1. Become(p, more) \/ Become(p, done)
    BY <1>9 DEF Publish
  <2>2. \A s \in {more, done} :
          /\ s.req = session[p].req /\ s.ids = session[p].ids
          /\ s.work = session[p].work /\ s.seen = session[p].seen
          /\ s.pc \in {session[p].pc, "commit"}
    BY <1>1 DEF Session
  <2>3. session'[p] \in {more, done} /\ Others
    BY <1>1, <2>1, OthersStay
  <2> HIDE DEF more, done
  <2>4. QED
    BY <1>9, <2>2, <2>3, SameWorkStep DEF Publish, At, Writing
<1>10. CASE RecordSuccess(p)
  <2>1. CASE End(p)
    BY <1>2, <1>10, <2>1, QuietStep DEF RecordSuccess
  <2>2. CASE Become(p, [session[p] EXCEPT !.idx = @ + 1])
    <3> DEFINE s == [session[p] EXCEPT !.idx = @ + 1]
    <3>1. s.req = session[p].req /\ s.ids = session[p].ids
          /\ s.work = session[p].work /\ s.seen = session[p].seen
          /\ s.pc = session[p].pc
      BY <1>1 DEF Session
    <3>2. session'[p] = s /\ Others
      BY <1>1, <2>2, OthersStay
    <3> HIDE DEF s
    <3>3. QED
      BY <1>10, <3>1, <3>2, SameWorkStep DEF RecordSuccess
  <2>3. QED
    BY <1>10, <2>1, <2>2 DEF RecordSuccess
<1>11. CASE DbAbort(p)
  <2> DEFINE n == NextAttempt(p)
             s == [Idle EXCEPT !.req = session[p].req, !.pc = "begin", !.attempts = n]
  <2>1. s.pc = "begin" /\ Idle.pc = "idle"
    BY DEF Idle
  <2>2. session'[p] \in {s, Idle} /\ Others
    BY <1>1, <1>11, OthersStay DEF DbAbort
  <2> HIDE DEF s, n
  <2>3. QED
    BY <1>11, <2>1, <2>2, QuietStep DEF DbAbort, Writing
<1>12. QED
  BY <1>3, <1>5, <1>6, <1>7, <1>8, <1>9, <1>10, <1>11, LockStep, InsertStep, CommitStep
  DEF Step

\* Every statement of every session keeps the invariant.
LEMMA PreparedStep == Prepared /\ [Next]_vars => Prepared'
<1> SUFFICES ASSUME Prepared, [Next]_vars PROVE Prepared'
  OBVIOUS
<1>1. TypeInv'
  BY TypeStep DEF Prepared
<1>2. CASE UNCHANGED <<ledger, session>>
  BY <1>1, <1>2 DEF Prepared
<1>3. QED
  BY <1>1, <1>2, RequestStep DEF Next, Expire, vars

\* Every step of the processor is a step of the atomic ledger or leaves the
\* ledger as it is.
LEMMA StepRefines == Prepared /\ [Next]_vars => [L!Next]_ledger
<1> SUFFICES ASSUME Prepared, [Next]_vars PROVE L!Next \/ UNCHANGED ledger
  OBVIOUS
<1>1. ASSUME NEW p \in Proc, Step(p), ~Commit(p) PROVE UNCHANGED ledger
  BY <1>1 DEF Step, CheckKey, DeleteExpired, Begin, LockTarget, Refuse, Insert,
              OutOfIds, Publish, RecordSuccess
<1>2. QED
  BY <1>1, CommitRefines DEF Next, Receive, DbAbort, Fail, Expire, vars

\* The processor starts with the empty ledger.
LEMMA InitRefines == Init => L!Init
BY DEF Init, L!Init, NoRow, L!NoRow

\* Whatever the interleaving, the aborts, the failures and the retries, the
\* committed rows change in atomic, legal steps of the abstract ledger.
THEOREM ProcessorImplementsLedger == Spec => ImplementsLedger
BY PreparedInit, PreparedStep, StepRefines, InitRefines, PTL
DEF Spec, ImplementsLedger, L!Spec

-----------------------------------------------------------------------------
(* What the processor inherits from the atomic ledger. *)

\* The processor's steps and states, under the names LedgerProofs gives them.
LEMMA LedgerNames ==
  /\ L!Init => LP!Init
  /\ [L!Next]_ledger => [LP!Next]_ledger
BY DEF L!Init, LP!Init, L!NoRow, LP!NoRow, L!Next, LP!Next, L!Post, LP!Post,
  L!Settle, LP!Settle, L!Cancel, LP!Cancel, L!Reverse, LP!Reverse, L!Exists, LP!Exists,
  L!KeyCommitted, LP!KeyCommitted, L!Reversible, LP!Reversible, L!NewRow, LP!NewRow,
  L!SettledRow, LP!SettledRow, L!CancelledRow, LP!CancelledRow, L!ReversedRow,
  LP!ReversedRow, L!Posted, LP!Posted

\* However many duplicates of a submission run at once and however they are
\* interleaved, aborted and retried, one key never has two transactions.
THEOREM ProcessorKeyUnique == Spec => []KeyUnique
<1>1. LP!LedgerInv => KeyUnique
  BY DEF LP!LedgerInv, LP!KeyUnique, KeyUnique
<1>2. QED
  BY <1>1, LedgerNames, PreparedInit, PreparedStep, StepRefines, InitRefines,
     LP!LedgerInvInit, LP!LedgerInvStep, NullsAssumption, PTL DEF Spec

\* Of several reversals of one transaction at most one commits, and a settle,
\* a cancel or a reversal beside it never breaks the pair.
THEOREM ProcessorReversalLinks == Spec => []ReversalLinks
<1>1. LP!LedgerInv => ReversalLinks
  BY DEF LP!LedgerInv, LP!ReversalLinks, ReversalLinks
<1>2. QED
  BY <1>1, LedgerNames, PreparedInit, PreparedStep, StepRefines, InitRefines,
     LP!LedgerInvInit, LP!LedgerInvStep, NullsAssumption, PTL DEF Spec

\* No commit takes a row back: settled and cancelled rows stay what they are.
THEOREM ProcessorLifecycle == Spec => RowLifecycle
<1>1. [\A t \in Txn : LP!RowStep(ledger[t], ledger'[t])]_ledger
        => [\A t \in Txn : RowStep(ledger[t], ledger'[t])]_ledger
  BY DEF LP!RowStep, RowStep
<1>2. QED
  BY <1>1, LedgerNames, PreparedInit, PreparedStep, StepRefines, InitRefines,
     LP!LedgerInvInit, LP!LedgerInvStep, LP!LifecycleStep, NullsAssumption, PTL
  DEF Spec, RowLifecycle

-----------------------------------------------------------------------------
(* Records, answers and events: records and answers name the transaction   *)
(* that has their key, and no change of the ledger goes without its event. *)

\* Transaction t is in the rows under the key k.
Named(rows, t, k) == t \in Txn /\ rows[t].state # "absent" /\ rows[t].key = k

\* The transactions a session has inserted carry the keys of their items,
\* before the commit in its own writes and after it in the ledger.
ItemsWritten(rows, s) ==
  /\ s.pc \in Writing /\ s.req.op \in Inserting =>
       \A i \in 1..Len(s.ids) : Named(s.work, s.ids[i], s.req.items[i].key)
  /\ s.pc = "record" =>
       \A i \in 1..Len(s.ids) : Named(rows, s.ids[i], s.req.items[i].key)

RecordsNamed(rows, records) ==
  \A k \in Key : records[k] # NoRecord => HasKey(k) /\ Named(rows, records[k].txn, k)

AnswersNamed(rows, told) == \A a \in told : HasKey(a[1]) /\ Named(rows, a[2], a[1])

Remembered ==
  /\ Prepared /\ LP!LedgerInv
  /\ \A p \in Proc : ItemsWritten(ledger, session[p])
  /\ RecordsNamed(ledger, idem)
  /\ AnswersNamed(ledger, answers)

-----------------------------------------------------------------------------

\* What is named stays named: no step takes a row or its key away.
LEMMA NamedStays ==
  ASSUME Prepared, LP!LedgerInv, [Next]_vars
  PROVE  /\ Prepared' /\ LP!LedgerInv'
         /\ \A t, k : Named(ledger, t, k) => Named(ledger', t, k)
<1>1. Prepared' /\ LP!LedgerInv'
  BY PreparedStep, StepRefines, LedgerNames, LP!LedgerInvStep, NullsAssumption
<1>2. [\A t \in Txn : LP!RowStep(ledger[t], ledger'[t])]_ledger
  BY StepRefines, LedgerNames, LP!LifecycleStep, NullsAssumption
<1>3. QED
  BY <1>1, <1>2 DEF LP!RowStep, Named

\* A step of one session keeps the invariant if its own items, the records and
\* the answers still name what they should.
LEMMA RememberedStep ==
  ASSUME Remembered, [Next]_vars, NEW p \in Proc,
         \A q \in Proc \ {p} : session'[q] = session[q],
         ItemsWritten(ledger', session'[p]),
         RecordsNamed(ledger', idem'), AnswersNamed(ledger', answers')
  PROVE  Remembered'
<1>1. /\ Prepared' /\ LP!LedgerInv'
      /\ \A t, k : Named(ledger, t, k) => Named(ledger', t, k)
  BY NamedStays DEF Remembered
<1>2. ASSUME NEW q \in Proc PROVE ItemsWritten(ledger', session'[q])
  <2>1. CASE q = p
    BY <2>1
  <2>2. CASE q # p
    BY <1>1, <2>2 DEF Remembered, ItemsWritten
  <2>3. QED
    BY <2>1, <2>2
<1>3. QED
  BY <1>1, <1>2 DEF Remembered

\* A record or an answer that was there is still true.
LEMMA OldNamed ==
  ASSUME Remembered, [Next]_vars
  PROVE  RecordsNamed(ledger', idem) /\ AnswersNamed(ledger', answers)
BY NamedStays DEF Remembered, RecordsNamed, AnswersNamed

\* A session without identifiers says nothing.
LEMMA NoItems == ASSUME NEW s, s.ids = <<>>, NEW rows PROVE ItemsWritten(rows, s)
<1>1. Len(s.ids) = 0 /\ 1..0 = {}
  BY EmptySeq
<1>2. QED
  BY <1>1 DEF ItemsWritten

\* Except by an insertion and a commit, a session keeps what it has inserted or
\* has nothing any more.
KeepsItems(p) ==
  /\ \A q \in Proc \ {p} : session'[q] = session[q]
  /\ \/ session'[p].ids = <<>>
     \/ /\ session'[p].ids = session[p].ids /\ session'[p].req = session[p].req
        /\ session'[p].work = session[p].work
        /\ session[p].pc \in Writing /\ session'[p].pc \in Writing
     \/ /\ session'[p].ids = session[p].ids /\ session'[p].req = session[p].req
        /\ session[p].pc = "record" /\ session'[p].pc = "record"

\* The end of a request leaves nothing inserted.
LEMMA EndKeeps ==
  ASSUME TypeInv, NEW p \in Proc, End(p) PROVE KeepsItems(p)
BY OthersStay DEF End, Idle, KeepsItems

\* The item after the present one is looked at, or the transaction begins.
LEMMA NextCheckKeeps ==
  ASSUME TypeInv, NEW p \in Proc, session[p].pc \in {"check", "delete"}, NextCheck(p)
  PROVE  KeepsItems(p)
<1>1. session[p] \in Session /\ session[p].ids = <<>>
  BY SessionFacts DEF Shape
<1> DEFINE next == [session[p] EXCEPT !.pc = "check", !.idx = session[p].idx + 1]
           done == [session[p] EXCEPT !.pc = "begin", !.idx = 1]
<1>2. next.ids = <<>> /\ done.ids = <<>>
  BY <1>1 DEF Session
<1>3. Become(p, next) \/ Become(p, done)
  BY DEF NextCheck
<1> HIDE DEF next, done
<1>4. QED
  BY <1>2, <1>3, OthersStay DEF KeepsItems

\* Every statement but the two that say otherwise keeps the items.
LEMMA StepsKeepItems ==
  ASSUME TypeInv, NEW p \in Proc,
         Receive(p) \/ CheckKey(p) \/ DeleteExpired(p) \/ Begin(p) \/ LockTarget(p)
           \/ Refuse(p) \/ OutOfIds(p) \/ Publish(p) \/ RecordSuccess(p) \/ DbAbort(p) \/ Fail(p)
  PROVE  KeepsItems(p)
<1>1. session[p] \in Session /\ Shape(session[p])
  BY SessionFacts
<1>2. ASSUME NEW s, s.ids = <<>>, Become(p, s) PROVE KeepsItems(p)
  BY <1>2, OthersStay DEF KeepsItems
<1>3. CASE Receive(p)
  <2>1. PICK r \in Requests :
          Become(p, [Idle EXCEPT !.req = r,
                       !.pc = IF r.op \in {"settle", "cancel"} THEN "begin" ELSE "check"])
    BY <1>3 DEF Receive
  <2> DEFINE s == [Idle EXCEPT !.req = r,
                     !.pc = IF r.op \in {"settle", "cancel"} THEN "begin" ELSE "check"]
  <2>2. s.ids = <<>>
    BY DEF Idle
  <2> HIDE DEF s
  <2>3. QED
    BY <1>2, <2>1, <2>2 DEF s
<1>4. CASE CheckKey(p)
  <2>1. ASSUME Goto(p, "delete") PROVE KeepsItems(p)
    <3>1. [session[p] EXCEPT !.pc = "delete"].ids = <<>>
      BY <1>1, <1>4 DEF CheckKey, At, Shape, Session
    <3>2. QED
      BY <1>2, <2>1, <3>1 DEF Goto
  <2>2. QED
    BY <1>4, <2>1, EndKeeps, NextCheckKeeps DEF CheckKey, At
<1>5. CASE DeleteExpired(p)
  BY <1>5, NextCheckKeeps DEF DeleteExpired, At
<1>6. CASE Begin(p)
  <2>1. session[p].ids = <<>>
    BY <1>1, <1>6 DEF Begin, At, Shape
  <2>2. /\ [session[p] EXCEPT !.pc = "insert"].ids = <<>>
        /\ [session[p] EXCEPT !.pc = "lock", !.seen = ledger[Target(p)]].ids = <<>>
    BY <1>1, <2>1 DEF Session
  <2>3. QED
    BY <1>2, <1>6, <2>2, EndKeeps DEF Begin, Goto
<1>7. CASE LockTarget(p)
  <2>1. session[p].ids = <<>>
    BY <1>1, <1>7 DEF LockTarget, At, Shape
  <2> DEFINE g == [session[p] EXCEPT !.pc = "publish", !.work[Target(p)] = NewTarget(p)]
             i == [session[p] EXCEPT !.pc = "insert"]
  <2>2. g.ids = <<>> /\ i.ids = <<>>
    BY <1>1, <2>1 DEF Session
  <2>3. End(p) \/ Become(p, g) \/ Become(p, i)
    BY <1>7 DEF LockTarget, Goto
  <2> HIDE DEF g, i
  <2>4. QED
    BY <1>2, <2>2, <2>3, EndKeeps
<1>8. CASE Refuse(p) \/ OutOfIds(p) \/ Fail(p)
  BY <1>8, EndKeeps DEF Refuse, OutOfIds, Fail
<1>9. CASE Publish(p)
  <2> DEFINE more == [session[p] EXCEPT !.idx = session[p].idx + 1]
             done == [session[p] EXCEPT !.pc = "commit", !.idx = 1]
  <2>1. Become(p, more) \/ Become(p, done)
    BY <1>9 DEF Publish
  <2>2. \A s \in {more, done} :
          /\ s.req = session[p].req /\ s.ids = session[p].ids /\ s.work = session[p].work
          /\ s.pc \in {session[p].pc, "commit"}
    BY <1>1 DEF Session
  <2> HIDE DEF more, done
  <2>3. QED
    BY <1>9, <2>1, <2>2, OthersStay DEF Publish, At, Writing, KeepsItems
<1>10. CASE RecordSuccess(p)
  <2> DEFINE s == [session[p] EXCEPT !.idx = @ + 1]
  <2>1. s.req = session[p].req /\ s.ids = session[p].ids /\ s.pc = session[p].pc
    BY <1>1 DEF Session
  <2>2. End(p) \/ Become(p, s)
    BY <1>10 DEF RecordSuccess
  <2> HIDE DEF s
  <2>3. QED
    BY <1>10, <2>1, <2>2, EndKeeps, OthersStay DEF RecordSuccess, At, KeepsItems
<1>11. CASE DbAbort(p)
  <2> DEFINE n == NextAttempt(p)
             s == [Idle EXCEPT !.req = session[p].req, !.pc = "begin", !.attempts = n]
  <2>1. s.ids = <<>> /\ Idle.ids = <<>>
    BY DEF Idle
  <2>2. Become(p, s) \/ Become(p, Idle)
    BY <1>11 DEF DbAbort
  <2> HIDE DEF s, n
  <2>3. QED
    BY <1>2, <2>1, <2>2
<1>12. QED
  BY <1>3, <1>4, <1>5, <1>6, <1>7, <1>8, <1>9, <1>10, <1>11

\* A session that keeps its items still says the truth about them.
LEMMA KeptItems ==
  ASSUME Remembered, [Next]_vars, NEW p \in Proc, KeepsItems(p)
  PROVE  ItemsWritten(ledger', session'[p])
<1>1. ItemsWritten(ledger, session[p])
  BY DEF Remembered
<1>2. CASE session'[p].ids = <<>>
  BY <1>2, NoItems
<1>3. CASE session'[p].ids # <<>>
  BY <1>1, <1>3, NamedStays DEF Remembered, KeepsItems, ItemsWritten, Writing
<1>4. QED
  BY <1>2, <1>3

\* An insertion writes the row of its item, under its key.
LEMMA InsertedItems ==
  ASSUME Remembered, NEW p \in Proc, Insert(p)
  PROVE  /\ \A q \in Proc \ {p} : session'[q] = session[q]
         /\ ItemsWritten(ledger', session'[p])
<1>1. /\ TypeInv /\ session[p] \in Session /\ Shape(session[p])
      /\ session[p].pc = "insert" /\ Op(p) \in Inserting
      /\ session[p].ids \in Seq(Txn) /\ Len(session[p].ids) \in Nat
      /\ Target(p) \in Txn <=> Op(p) = "reverse"
      /\ Len(session[p].ids) < Len(Items(p)) /\ Len(Items(p)) \in Nat
      /\ Op(p) = "reverse" => Len(Items(p)) = 1
  BY SessionFacts, NullsAssumption
     DEF Remembered, Prepared, Insert, At, Shape, Op, Items, Inserting, OnTarget
<1>2. CASE End(p)
  BY <1>1, <1>2, OthersStay, NoItems DEF End, Idle
<1>3. CASE ~End(p)
  <2> DEFINE old == session[p]
             n == Len(old.ids)
  <2>1. PICK t \in Fresh : Become(p, Inserted(p, t))
    BY <1>3 DEF Insert
  <2>2. /\ t \in Txn /\ ledger[t].state = "absent"
        /\ \A i \in 1..n : old.ids[i] # t
    <3>1. t \in Txn /\ ledger[t].state = "absent" /\ t \notin InFlight(p)
      BY <2>1 DEF Fresh, Exists
    <3>2. DOMAIN old.ids = 1..n
      BY <1>1, LenProperties
    <3>3. QED
      BY <3>1, <3>2 DEF InFlight
  <2>3. NextItem(p) \in Item /\ n + 1 \in 1..Len(Items(p))
    BY <1>1, SessionFacts DEF NextItem
  <2> DEFINE row == NewRow(NextItem(p).key, NextItem(p).state, Target(p))
             work == [old.work EXCEPT ![t] = row]
             s == session'[p]
  <2>4. s = Inserted(p, t) /\ \A q \in Proc \ {p} : session'[q] = session[q]
    BY <1>1, <2>1, OthersStay
  <2>5. /\ s.req = old.req /\ s.ids = Append(old.ids, t) /\ s.pc # "record"
        /\ Op(p) # "reverse" => s.work = work
        /\ Op(p) = "reverse" => s.work = [work EXCEPT ![Target(p)] = ReversedRow(old.seen, t)]
    BY <1>1, <2>4 DEF Inserted, Session
  <2>6. /\ Len(s.ids) = n + 1 /\ s.ids[n + 1] = t
        /\ \A i \in 1..n : s.ids[i] = old.ids[i]
    BY <1>1, <2>2, <2>5, AppendProperties, LenProperties
  <2>7. row.state # "absent" /\ row.key = Items(p)[n + 1].key
    BY <2>3 DEF NewRow, Item, Posted, NextItem
  <2>8. Op(p) = "reverse" => n = 0 /\ Target(p) # t
    <3>1. Op(p) = "reverse" => n = 0
      <4>1. \A m, l \in Nat : m < l /\ l = 1 => m = 0
        OBVIOUS
      <4>2. n \in Nat /\ n < Len(Items(p)) /\ Len(Items(p)) \in Nat
        BY <1>1
      <4> HIDE DEF n
      <4>3. QED
        BY <1>1, <4>1, <4>2
    <3>2. Fits(ledger, session[p])
      BY DEF Remembered, Prepared
    <3>3. Op(p) = "reverse" => ledger[Target(p)].state # "absent"
      BY <1>1, <3>2 DEF Fits, Writing, Target
    <3>4. QED
      BY <2>2, <3>1, <3>3
  <2>9. old.work \in [Txn -> Row]
    BY <1>1 DEF Session
  <2>10. Named(s.work, t, Items(p)[n + 1].key)
    BY <2>2, <2>5, <2>7, <2>8, <2>9 DEF Named
  <2>11. ASSUME NEW i \in 1..n PROVE Named(s.work, s.ids[i], Items(p)[i].key)
    <3>1. Named(old.work, old.ids[i], Items(p)[i].key)
      BY <1>1 DEF Remembered, ItemsWritten, Writing, Op, Items
    <3>2. Op(p) # "reverse"
      BY <1>1, <2>8
    <3>3. s.work = work /\ s.ids[i] = old.ids[i] /\ old.ids[i] # t
      BY <2>2, <2>5, <2>6, <3>2
    <3>4. work[old.ids[i]] = old.work[old.ids[i]] /\ old.ids[i] \in Txn
      BY <2>9, <3>1, <3>3 DEF Named
    <3> HIDE DEF s, work, old, n
    <3>5. QED
      BY <3>1, <3>3, <3>4 DEF Named
  <2>12. \A i \in 1..Len(s.ids) : i \in 1..n \/ i = n + 1
    BY <1>1, <2>6
  <2>13. \A i \in 1..Len(s.ids) : Named(s.work, s.ids[i], s.req.items[i].key)
    BY <2>5, <2>6, <2>10, <2>11, <2>12 DEF Items
  <2>14. QED
    BY <2>4, <2>5, <2>13 DEF ItemsWritten
<1>4. QED
  BY <1>2, <1>3

\* A commit puts what was written into the ledger.
LEMMA CommittedItems ==
  ASSUME Remembered, NEW p \in Proc, Commit(p)
  PROVE  /\ \A q \in Proc \ {p} : session'[q] = session[q]
         /\ ItemsWritten(ledger', session'[p])
<1>1. /\ TypeInv /\ session[p] \in Session /\ session[p].pc = "commit"
      /\ Op(p) \in Inserting \union OnTarget /\ ledger' = Committed(p)
  BY SessionFacts, CommitFacts DEF Remembered, Prepared, Commit, At
<1>2. CASE End(p)
  BY <1>1, <1>2, OthersStay, NoItems DEF End, Idle
<1>3. CASE ~End(p)
  <2> DEFINE u == [session[p] EXCEPT !.pc = "record", !.work = NothingWritten]
  <2>1. u.pc = "record" /\ u.ids = session[p].ids /\ u.req = session[p].req
    BY <1>1 DEF Session
  <2>2. Op(p) \in Inserting /\ Become(p, u)
    BY <1>1, <1>3 DEF Commit, Inserting, OnTarget
  <2>3. \A i \in 1..Len(session[p].ids) :
          Named(session[p].work, session[p].ids[i], Items(p)[i].key)
    BY <1>1, <2>2 DEF Remembered, ItemsWritten, Writing, Op, Items
  <2>4. ASSUME NEW t, NEW k, Named(session[p].work, t, k) PROVE Named(ledger', t, k)
    BY <1>1, <2>4 DEF Named, Committed, NoRow
  <2>5. session'[p] = u /\ \A q \in Proc \ {p} : session'[q] = session[q]
    BY <1>1, <2>2, OthersStay
  <2> HIDE DEF u
  <2>6. QED
    BY <2>1, <2>3, <2>4, <2>5 DEF ItemsWritten, Writing, Items
<1>4. QED
  BY <1>2, <1>3

\* RecordSuccess writes the item's own transaction, and the answer lists the
\* items' own.
LEMMA RecordSuccessNamed ==
  ASSUME Remembered, NEW p \in Proc, RecordSuccess(p)
  PROVE  RecordsNamed(ledger, idem') /\ AnswersNamed(ledger, answers')
<1>1. /\ TypeInv /\ session[p] \in Session /\ Shape(session[p])
      /\ session[p].pc = "record" /\ Op(p) \in Inserting
      /\ Len(session[p].ids) = Len(Items(p)) /\ Len(Items(p)) \in Nat
      /\ session[p].idx \in 1..Len(Items(p))
      /\ DOMAIN Items(p) = 1..Len(Items(p))
  BY SessionFacts, CurrentItem, LenProperties
     DEF Remembered, Prepared, RecordSuccess, At, Shape, Op, Items
<1>2. \A i \in 1..Len(Items(p)) : Named(ledger, session[p].ids[i], Items(p)[i].key)
  BY <1>1 DEF Remembered, ItemsWritten, Items
<1>3. RecordsNamed(ledger, idem) /\ AnswersNamed(ledger, answers) /\ DOMAIN idem = Key
  BY <1>1 DEF Remembered, TypeInv, TypeOK
<1>4. RecordsNamed(ledger, idem')
  <2>1. idem' = idem \/ (HasKey(KeyAt(p)) /\ idem' =
          [idem EXCEPT ![KeyAt(p)] =
             [txn |-> session[p].ids[session[p].idx], expired |-> FALSE]])
    BY DEF RecordSuccess, Recorded
  <2>2. Named(ledger, session[p].ids[session[p].idx], KeyAt(p))
    BY <1>1, <1>2 DEF KeyAt
  <2>3. QED
    BY <1>3, <2>1, <2>2 DEF RecordsNamed
<1>5. AnswersNamed(ledger, answers')
  <2>1. \A a \in Answered(p) : HasKey(a[1]) /\ Named(ledger, a[2], a[1])
    BY <1>1, <1>2 DEF Answered
  <2>2. QED
    BY <1>3, <2>1 DEF RecordSuccess, AnswersNamed
<1>6. QED
  BY <1>4, <1>5

\* The other statements add no record, and an answer only from a record.
LEMMA OthersNamed ==
  ASSUME Remembered,
         \/ \E k \in Key : Expire(k)
         \/ \E p \in Proc : Receive(p) \/ (Step(p) /\ ~RecordSuccess(p)) \/ DbAbort(p) \/ Fail(p)
  PROVE  RecordsNamed(ledger, idem') /\ AnswersNamed(ledger, answers')
<1>1. /\ RecordsNamed(ledger, idem) /\ AnswersNamed(ledger, answers)
      /\ idem \in [Key -> [txn : Txn, expired : BOOLEAN] \union {NoRecord}]
  BY DEF Remembered, Prepared, TypeInv, TypeOK
<1>2. ASSUME NEW k \in Key, Expire(k) PROVE RecordsNamed(ledger, idem') /\ UNCHANGED answers
  BY <1>1, <1>2 DEF Expire, RecordsNamed
<1>3. ASSUME NEW p \in Proc, CheckKey(p) PROVE AnswersNamed(ledger, answers') /\ UNCHANGED idem
  <2>1. KeyAt(p) \in Key \union {NoKey}
    BY <1>3, CurrentItem DEF Remembered, Prepared, CheckKey, At
  <2>2. UNCHANGED answers \/ (/\ HasKey(KeyAt(p)) /\ idem[KeyAt(p)] # NoRecord
                              /\ answers' = answers \union {<<KeyAt(p), idem[KeyAt(p)].txn>>})
    BY <1>3 DEF CheckKey
  <2>3. QED
    BY <1>1, <1>3, <2>1, <2>2 DEF RecordsNamed, AnswersNamed, HasKey, CheckKey
<1>4. ASSUME NEW p \in Proc, DeleteExpired(p)
      PROVE  RecordsNamed(ledger, idem') /\ UNCHANGED answers
  BY <1>1, <1>4 DEF DeleteExpired, RecordsNamed
<1>5. ASSUME NEW p \in Proc,
             Receive(p) \/ Begin(p) \/ LockTarget(p) \/ Refuse(p) \/ Insert(p) \/ OutOfIds(p)
               \/ Publish(p) \/ Commit(p) \/ DbAbort(p) \/ Fail(p)
      PROVE  UNCHANGED <<idem, answers>>
  BY <1>5 DEF Receive, Begin, LockTarget, Refuse, Insert, OutOfIds, Publish, Commit, DbAbort, Fail
<1>6. QED
  BY <1>1, <1>2, <1>3, <1>4, <1>5 DEF Step

\* Nothing is inserted, recorded or answered at first.
LEMMA RememberedInit == Init => Remembered
<1> SUFFICES ASSUME Init PROVE Remembered
  OBVIOUS
<1>1. Prepared /\ LP!LedgerInv
  BY PreparedInit, InitRefines, LedgerNames, LP!LedgerInvInit, NullsAssumption
<1>2. ItemsWritten(ledger, Idle)
  BY NoItems DEF Idle
<1>3. QED
  BY <1>1, <1>2 DEF Init, Remembered, RecordsNamed, AnswersNamed

\* Every step keeps the invariant.
LEMMA RememberedNext == Remembered /\ [Next]_vars => Remembered'
<1> SUFFICES ASSUME Remembered, [Next]_vars PROVE Remembered'
  OBVIOUS
<1>1. /\ Prepared' /\ LP!LedgerInv' /\ TypeInv
      /\ \A t, k : Named(ledger, t, k) => Named(ledger', t, k)
  BY NamedStays DEF Remembered, Prepared
<1>2. CASE UNCHANGED vars
  BY <1>1, <1>2 DEF vars, Remembered
<1>3. CASE \E k \in Key : Expire(k)
  <2>1. UNCHANGED <<ledger, session>>
    BY <1>3 DEF Expire
  <2>2. RecordsNamed(ledger, idem') /\ AnswersNamed(ledger, answers')
    BY <1>3, OthersNamed
  <2>3. QED
    BY <1>1, <2>1, <2>2 DEF Remembered
<1>4. ASSUME NEW p \in Proc, Receive(p) \/ Step(p) \/ DbAbort(p) \/ Fail(p)
      PROVE  Remembered'
  <2>1. /\ \A q \in Proc \ {p} : session'[q] = session[q]
        /\ ItemsWritten(ledger', session'[p])
    <3>1. CASE Insert(p) \/ Commit(p)
      BY <3>1, InsertedItems, CommittedItems
    <3>2. CASE ~Insert(p) /\ ~Commit(p)
      <4>1. KeepsItems(p)
        BY <1>1, <1>4, <3>2, StepsKeepItems DEF Step
      <4>2. QED
        BY <4>1, KeptItems DEF KeepsItems
    <3>3. QED
      BY <3>1, <3>2
  <2>2. RecordsNamed(ledger, idem') /\ AnswersNamed(ledger, answers')
    BY <1>4, OthersNamed, RecordSuccessNamed
  <2>3. RecordsNamed(ledger', idem') /\ AnswersNamed(ledger', answers')
    BY <1>1, <2>2 DEF RecordsNamed, AnswersNamed
  <2>4. QED
    BY <2>1, <2>3, RememberedStep
<1>5. QED
  BY <1>2, <1>3, <1>4 DEF Next

\* A record names the committed transaction that has its key, whatever fails,
\* expires or is deleted meanwhile: no replay answers with another one.
THEOREM ProcessorRecordsAgree == Spec => []RecordsAgree
<1>1. Remembered => RecordsAgree
  BY DEF Remembered, RecordsNamed, Named, RecordsAgree
<1>2. QED
  BY <1>1, RememberedInit, RememberedNext, PTL DEF Spec

\* No answer is ever taken back, and two answers to one key name one
\* transaction, over any retries, expiries and failures.
THEOREM ProcessorAnswersKept == Spec => []AnswersKept
<1>1. Remembered => AnswersKept
  <2> SUFFICES ASSUME Remembered, NEW a \in answers, NEW b \in answers
               PROVE  /\ ledger[a[2]].key = a[1] /\ ledger[a[2]].state # "absent"
                      /\ a[1] = b[1] => a[2] = b[2]
    BY DEF AnswersKept
  <2>1. /\ HasKey(a[1]) /\ Named(ledger, a[2], a[1])
        /\ HasKey(b[1]) /\ Named(ledger, b[2], b[1])
    BY DEF Remembered, AnswersNamed
  <2>2. LP!KeyUnique
    BY DEF Remembered, LP!LedgerInv
  <2>3. QED
    BY <2>1, <2>2 DEF Named, HasKey, LP!KeyUnique
<1>2. QED
  BY <1>1, RememberedInit, RememberedNext, PTL DEF Spec

-----------------------------------------------------------------------------
(* The events. *)

SubjectsOf(s)    == IF s.req.op \in {"settle", "cancel"} THEN <<s.req.target>> ELSE s.ids
EventOf(s, i)    == [type |-> EventType(s.req.op), txn |-> SubjectsOf(s)[i]]

\* What a session has announced when it stands before its i-th event, and when
\* it stands before its commit.
Told(s, events) ==
  /\ s.pc = "publish" => \A i \in 1..(s.idx - 1) : EventOf(s, i) \in events
  /\ s.pc = "commit" => \A i \in 1..Len(SubjectsOf(s)) : EventOf(s, i) \in events

Announcing == \A p \in Proc : Told(session[p], published)

\* No statement but those three leads to an event or to the commit.
LEMMA NotAnnouncing ==
  ASSUME TypeInv, NEW p \in Proc,
         \/ Receive(p) \/ DbAbort(p) \/ Fail(p)
         \/ Step(p) /\ ~(LockTarget(p) \/ Insert(p) \/ Publish(p))
  PROVE  /\ session'[p].pc \notin {"publish", "commit"}
         /\ \A q \in Proc \ {p} : session'[q] = session[q]
         /\ UNCHANGED published
<1>1. session[p] \in Session
  BY SessionFacts
<1> DEFINE Off(s) == Become(p, s) /\ s.pc \notin {"publish", "commit"}
<1>2. \E s : Off(s)
  <2>1. Idle.pc = "idle" /\ \A pc : [session[p] EXCEPT !.pc = pc].pc = pc
    BY <1>1 DEF Idle, Session
  <2>2. ASSUME End(p) PROVE \E s : Off(s)
    BY <2>1, <2>2 DEF End
  <2>3. ASSUME NEW pc \in {"delete", "insert"}, Goto(p, pc) PROVE \E s : Off(s)
    BY <2>1, <2>3 DEF Goto
  <2>4. ASSUME NextCheck(p) PROVE \E s : Off(s)
    <3> DEFINE next == [session[p] EXCEPT !.pc = "check", !.idx = session[p].idx + 1]
               done == [session[p] EXCEPT !.pc = "begin", !.idx = 1]
    <3>1. next.pc = "check" /\ done.pc = "begin"
      BY <1>1 DEF Session
    <3>2. Become(p, next) \/ Become(p, done)
      BY <2>4 DEF NextCheck
    <3> HIDE DEF next, done
    <3>3. QED
      BY <3>1, <3>2
  <2>5. CASE Receive(p)
    <3>1. PICK r \in Requests :
            Become(p, [Idle EXCEPT !.req = r,
                         !.pc = IF r.op \in {"settle", "cancel"} THEN "begin" ELSE "check"])
      BY <2>5 DEF Receive
    <3> DEFINE s == [Idle EXCEPT !.req = r,
                       !.pc = IF r.op \in {"settle", "cancel"} THEN "begin" ELSE "check"]
    <3>2. s.pc \in {"begin", "check"} /\ Become(p, s)
      BY <3>1 DEF Idle
    <3> HIDE DEF s
    <3>3. QED
      BY <3>2
  <2>6. CASE CheckKey(p) \/ DeleteExpired(p) \/ Refuse(p) \/ OutOfIds(p) \/ Fail(p)
    BY <2>2, <2>3, <2>4, <2>6 DEF CheckKey, DeleteExpired, Refuse, OutOfIds, Fail
  <2>7. CASE Begin(p)
    <3> DEFINE s == [session[p] EXCEPT !.pc = "lock", !.seen = ledger[Target(p)]]
    <3>1. s.pc = "lock"
      BY <1>1 DEF Session
    <3>2. Goto(p, "insert") \/ Become(p, s) \/ End(p)
      BY <2>7 DEF Begin
    <3> HIDE DEF s
    <3>3. QED
      BY <2>2, <2>3, <3>1, <3>2
  <2>8. CASE Commit(p)
    <3> DEFINE s == [session[p] EXCEPT !.pc = "record", !.work = NothingWritten]
    <3>1. s.pc = "record"
      BY <1>1 DEF Session
    <3>2. Become(p, s) \/ End(p)
      BY <2>8 DEF Commit
    <3> HIDE DEF s
    <3>3. QED
      BY <2>2, <3>1, <3>2
  <2>9. CASE RecordSuccess(p)
    <3> DEFINE s == [session[p] EXCEPT !.idx = @ + 1]
    <3>1. s.pc = session[p].pc
      BY <1>1 DEF Session
    <3>2. Become(p, s) \/ End(p)
      BY <2>9 DEF RecordSuccess
    <3> HIDE DEF s
    <3>3. QED
      BY <2>2, <2>9, <3>1, <3>2 DEF RecordSuccess, At
  <2>10. CASE DbAbort(p)
    <3> DEFINE n == NextAttempt(p)
               s == [Idle EXCEPT !.req = session[p].req, !.pc = "begin", !.attempts = n]
    <3>1. s.pc = "begin"
      BY DEF Idle
    <3>2. Become(p, s) \/ Become(p, Idle)
      BY <2>10 DEF DbAbort
    <3> HIDE DEF s, n
    <3>3. QED
      BY <2>1, <3>1, <3>2
  <2>11. QED
    BY <2>5, <2>6, <2>7, <2>8, <2>9, <2>10 DEF Step
<1>3. UNCHANGED published
  BY DEF Receive, DbAbort, Fail, Step, CheckKey, DeleteExpired, Begin, Refuse, OutOfIds,
         Commit, RecordSuccess
<1>4. QED
  BY <1>2, <1>3, OthersStay

\* The first event of a transaction is yet to come when it turns to them.
LEMMA BeforeEvents ==
  ASSUME TypeInv, NEW p \in Proc, LockTarget(p) \/ Insert(p)
  PROVE  /\ Told(session'[p], published')
         /\ \A q \in Proc \ {p} : session'[q] = session[q]
         /\ UNCHANGED published
<1>1. session[p] \in Session /\ session[p].idx = 1
  BY SessionFacts DEF Shape, LockTarget, Insert, At
<1>2. ASSUME NEW s, Become(p, s), s.idx = 1, s.pc # "commit"
      PROVE  Told(session'[p], published') /\ \A q \in Proc \ {p} : session'[q] = session[q]
  <2>1. session'[p] = s /\ \A q \in Proc \ {p} : session'[q] = session[q]
    BY <1>2, OthersStay
  <2>2. QED
    BY <1>2, <2>1 DEF Told
<1>3. ASSUME End(p)
      PROVE  Told(session'[p], published') /\ \A q \in Proc \ {p} : session'[q] = session[q]
  BY <1>2, <1>3 DEF End, Idle
<1>4. CASE LockTarget(p)
  <2> DEFINE g == [session[p] EXCEPT !.pc = "publish", !.work[Target(p)] = NewTarget(p)]
             i == [session[p] EXCEPT !.pc = "insert"]
  <2>1. g.idx = 1 /\ i.idx = 1 /\ g.pc = "publish" /\ i.pc = "insert"
    BY <1>1 DEF Session
  <2>2. End(p) \/ Become(p, g) \/ Become(p, i)
    BY <1>4 DEF LockTarget, Goto
  <2> HIDE DEF g, i
  <2>3. QED
    BY <1>2, <1>3, <1>4, <2>1, <2>2 DEF LockTarget
<1>5. CASE Insert(p)
  <2>1. ASSUME NEW t \in Fresh, Become(p, Inserted(p, t))
        PROVE  Inserted(p, t).idx = 1 /\ Inserted(p, t).pc # "commit"
    BY <1>1 DEF Inserted, Session
  <2>2. QED
    BY <1>2, <1>3, <1>5, <2>1 DEF Insert
<1>6. QED
  BY <1>4, <1>5

\* A publication adds the event the session stands before.
LEMMA PublishTells ==
  ASSUME TypeInv, NEW p \in Proc, Told(session[p], published), Publish(p)
  PROVE  /\ Told(session'[p], published') /\ published \subseteq published'
         /\ \A q \in Proc \ {p} : session'[q] = session[q]
<1> DEFINE old == session[p]
           i == old.idx
           more == [old EXCEPT !.idx = i + 1]
           done == [old EXCEPT !.pc = "commit", !.idx = 1]
<1>1. /\ old \in Session /\ old.pc = "publish"
      /\ i \in 1..Len(SubjectsOf(old)) /\ Len(SubjectsOf(old)) \in Nat
      /\ SubjectsOf(old) = Subjects(p)
  BY SessionFacts, SubjectFacts DEF Publish, At, SubjectsOf, Subjects, Op, Target
<1>2. /\ published' = published \union {EventOf(old, i)}
      /\ Become(p, IF i < Len(SubjectsOf(old)) THEN more ELSE done)
  BY <1>1 DEF Publish, EventOf, Op
<1>3. /\ more.idx = i + 1 /\ more.pc = "publish" /\ done.pc = "commit"
      /\ more.req = old.req /\ more.ids = old.ids /\ done.req = old.req /\ done.ids = old.ids
  BY <1>1 DEF Session
<1>4. \A j \in 1..i : EventOf(old, j) \in published'
  <2>1. \A j \in 1..i : j \in 1..(i - 1) \/ j = i
    BY <1>1
  <2>2. QED
    BY <1>1, <1>2, <2>1 DEF Told
<1>5. Told(more, published')
  <2>1. (i + 1) - 1 = i /\ \A j : EventOf(more, j) = EventOf(old, j)
    BY <1>1, <1>3 DEF EventOf, SubjectsOf
  <2> HIDE DEF more
  <2>2. QED
    BY <1>3, <1>4, <2>1 DEF Told
<1>6. ASSUME ~(i < Len(SubjectsOf(old))) PROVE Told(done, published')
  <2>1. SubjectsOf(done) = SubjectsOf(old) /\ \A j : EventOf(done, j) = EventOf(old, j)
    BY <1>3 DEF EventOf, SubjectsOf
  <2>2. i = Len(SubjectsOf(old))
    BY <1>1, <1>6
  <2> HIDE DEF done
  <2>3. QED
    BY <1>3, <1>4, <2>1, <2>2 DEF Told
<1> HIDE DEF more, done
<1>7. QED
  BY <1>2, <1>5, <1>6, OthersStay

\* Every step keeps what is announced.
LEMMA AnnouncingNext == TypeInv /\ Announcing /\ [Next]_vars => Announcing'
<1> SUFFICES ASSUME TypeInv, Announcing, [Next]_vars PROVE Announcing'
  OBVIOUS
<1>1. CASE UNCHANGED <<session, published>>
  BY <1>1 DEF Announcing, Told, EventOf, SubjectsOf
<1>2. ASSUME NEW p \in Proc, Receive(p) \/ Step(p) \/ DbAbort(p) \/ Fail(p)
      PROVE  Announcing'
  <2>1. /\ Told(session'[p], published') /\ published \subseteq published'
        /\ \A q \in Proc \ {p} : session'[q] = session[q]
    BY <1>2, NotAnnouncing, BeforeEvents, PublishTells DEF Announcing, Told
  <2>2. ASSUME NEW q \in Proc \ {p} PROVE Told(session'[q], published')
    BY <2>1 DEF Announcing, Told
  <2>3. QED
    BY <2>1, <2>2 DEF Announcing
<1>3. QED
  BY <1>1, <1>2 DEF Next, Expire, vars

\* Nothing is announced and nothing is about to be committed at first.
LEMMA AnnouncingInit == Init => Announcing
BY DEF Init, Announcing, Told, Idle

\* Before its commit a session has told of everything it inserted, and of its
\* target if it settles or cancels.
LEMMA ToldBeforeCommit ==
  ASSUME Prepared, Announcing, NEW p \in Proc, Commit(p)
  PROVE  /\ Op(p) \in Inserting =>
              \A t \in Own(session[p]) : [type |-> EventType(Op(p)), txn |-> t] \in published
         /\ Op(p) \in {"settle", "cancel"} =>
              [type |-> EventType(Op(p)), txn |-> Target(p)] \in published
<1> DEFINE s == session[p]
<1>1. /\ \A i \in 1..Len(SubjectsOf(s)) : EventOf(s, i) \in published
      /\ s.req.op = Op(p) /\ s.req.target = Target(p)
  BY DEF Announcing, Told, Commit, At, Op, Target
<1>2. CASE Op(p) \in {"settle", "cancel"}
  <2>1. SubjectsOf(s) = <<Target(p)>> /\ Len(<<Target(p)>>) = 1
    BY <1>1, <1>2 DEF SubjectsOf
  <2>2. EventOf(s, 1) = [type |-> EventType(Op(p)), txn |-> Target(p)]
    BY <1>1, <2>1 DEF EventOf
  <2> HIDE DEF s
  <2>3. EventOf(s, 1) \in published
    BY <1>1, <2>1
  <2>4. QED
    BY <1>2, <2>2, <2>3 DEF Inserting
<1>3. CASE Op(p) \notin {"settle", "cancel"}
  <2>1. SubjectsOf(s) = s.ids
    BY <1>1, <1>3 DEF SubjectsOf
  <2>2. DOMAIN s.ids = 1..Len(s.ids)
    BY SessionFacts, LenProperties DEF Prepared
  <2>3. ASSUME NEW t \in Own(s) PROVE [type |-> EventType(Op(p)), txn |-> t] \in published
    <3>1. PICK i \in 1..Len(s.ids) : t = s.ids[i]
      BY <2>2 DEF Own
    <3>2. EventOf(s, i) = [type |-> EventType(Op(p)), txn |-> t]
      BY <1>1, <2>1, <3>1 DEF EventOf
    <3>3. QED
      BY <1>1, <2>1, <3>2
  <2>4. QED
    BY <1>3, <2>3
<1>4. QED
  BY <1>2, <1>3

\* A commit has announced every state it changes.
LEMMA CommitAnnounced ==
  ASSUME Prepared, Announcing, NEW p \in Proc, Commit(p),
         NEW t \in Txn, ledger'[t].state # ledger[t].state
  PROVE  Announcement(t, ledger[t], ledger'[t]) \in published
<1> DEFINE s == session[p]
<1>1. /\ WorkOK(s) /\ Fits(ledger, s) /\ s.pc \in Writing
      /\ s.req.op = Op(p) /\ s.req.target = Target(p)
      /\ s.work \in [Txn -> Row] /\ ledger \in [Txn -> Row]
  BY CommitFacts DEF Prepared, Op, Target
<1>2. s.work[t] # NoRow /\ ledger'[t] = s.work[t]
  BY CommitFacts DEF Committed
<1>3. CASE Op(p) \in {"post", "batch"}
  <2>1. PostWork(s) /\ EventType(Op(p)) = "posted"
    BY <1>1, <1>3 DEF WorkOK, EventType
  <2>2. t \in Own(s) /\ s.work[t].reverses = NoTxn /\ ledger[t].state = "absent"
    BY <1>1, <1>2, <2>1 DEF PostWork, IsNewRow, Fits
  <2>3. Announcement(t, ledger[t], ledger'[t]) = [type |-> "posted", txn |-> t]
    BY <1>2, <2>2 DEF Announcement
  <2>4. QED
    BY <1>3, <2>1, <2>2, <2>3, ToldBeforeCommit DEF Inserting
<1>4. CASE Op(p) \in {"settle", "cancel"}
  <2>1. ChangeWork(s) /\ Target(p) \in Txn
    BY <1>1, <1>4, CommitFacts DEF WorkOK, OnTarget
  <2>2. t = Target(p) /\ ledger[t] = s.seen /\ s.seen.state = "pending" /\ s.seen \in Row
    BY <1>1, <1>2, <2>1 DEF ChangeWork, Fits
  <2>3. /\ ledger'[t].state = EventType(Op(p))
    <3>1. s.work[t] = IF Op(p) = "settle" THEN SettledRow(s.seen) ELSE CancelledRow(s.seen)
      BY <1>1, <2>1, <2>2 DEF ChangeWork
    <3>2. SettledRow(s.seen).state = "settled" /\ CancelledRow(s.seen).state = "cancelled"
      BY <2>2 DEF SettledRow, CancelledRow, Row
    <3>3. EventType("settle") = "settled" /\ EventType("cancel") = "cancelled"
      BY DEF EventType
    <3> HIDE DEF s
    <3>4. CASE Op(p) = "settle"
      BY <1>2, <3>1, <3>2, <3>3, <3>4
    <3>5. CASE Op(p) = "cancel"
      BY <1>2, <3>1, <3>2, <3>3, <3>5
    <3>6. QED
      BY <1>4, <3>4, <3>5
  <2>4. Announcement(t, ledger[t], ledger'[t]) = [type |-> EventType(Op(p)), txn |-> Target(p)]
    BY <2>2, <2>3 DEF Announcement
  <2>5. QED
    BY <1>4, <2>4, ToldBeforeCommit
<1>5. CASE Op(p) = "reverse"
  <2>1. /\ ReverseWork(s) /\ s.ids # <<>> /\ Target(p) \in Txn
        /\ EventType(Op(p)) = "reversed"
    BY <1>1, <1>5, CommitFacts DEF WorkOK, OnTarget, Inserting, EventType
  <2>2. PICK r \in Txn \ {Target(p)} :
          /\ Own(s) = {r} /\ s.work[Target(p)] = ReversedRow(s.seen, r)
          /\ IsNewRow(s.work[r], Target(p))
          /\ \A u \in Txn \ {r, Target(p)} : s.work[u] = NoRow
    BY <1>1, <2>1 DEF ReverseWork
  <2>3. t # Target(p)
    <3>1. ledger[Target(p)] = s.seen /\ s.seen \in Row
      BY <1>1, <2>1 DEF Fits
    <3>2. ReversedRow(s.seen, r).state = s.seen.state
      BY <3>1 DEF ReversedRow, Row
    <3>3. QED
      BY <1>2, <2>2, <3>1, <3>2
  <2>4. t = r /\ ledger[t].state = "absent"
    BY <1>1, <1>2, <2>2, <2>3 DEF Fits
  <2>5. s.work[t].reverses # NoTxn
    BY <2>1, <2>2, <2>4, NullsAssumption DEF IsNewRow
  <2>6. Announcement(t, ledger[t], ledger'[t]) = [type |-> "reversed", txn |-> t]
    BY <1>2, <2>4, <2>5 DEF Announcement
  <2>7. QED
    BY <1>5, <2>1, <2>2, <2>4, <2>6, ToldBeforeCommit DEF Inserting
<1>6. QED
  BY <1>3, <1>4, <1>5, CommitFacts DEF Inserting, OnTarget

\* No change of the ledger goes without its event, which is published before
\* it, whatever is aborted, retried or interleaved.
THEOREM ProcessorChangesAnnounced == Spec => ChangesAnnounced
<1>1. Prepared /\ Announcing /\ [Next]_vars =>
        [\A t \in Txn : ledger'[t].state # ledger[t].state =>
           Announcement(t, ledger[t], ledger'[t]) \in published]_ledger
  <2> SUFFICES ASSUME Prepared, Announcing, [Next]_vars, ledger' # ledger,
                      NEW t \in Txn, ledger'[t].state # ledger[t].state
               PROVE  Announcement(t, ledger[t], ledger'[t]) \in published
    OBVIOUS
  <2>1. ASSUME NEW p \in Proc, Step(p), ~Commit(p) PROVE UNCHANGED ledger
    BY <2>1 DEF Step, CheckKey, DeleteExpired, Begin, LockTarget, Refuse, Insert,
                OutOfIds, Publish, RecordSuccess
  <2>2. \E p \in Proc : Commit(p)
    BY <2>1 DEF Next, Receive, DbAbort, Fail, Expire, vars
  <2>3. QED
    BY <2>2, CommitAnnounced
<1>2. Prepared => TypeInv
  BY DEF Prepared
<1>3. QED
  BY <1>1, <1>2, PreparedInit, PreparedStep, AnnouncingInit, AnnouncingNext, PTL
  DEF Spec, ChangesAnnounced
=============================================================================
